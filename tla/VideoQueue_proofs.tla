-------------------------- MODULE VideoQueue_proofs --------------------------
(***************************************************************************)
(* Proofs about VideoQueue, for screens of any number of packets, with and *)
(* without compression, whatever the application does: the queue never     *)
(* holds a screen twice, what is sent from a screen belongs to one that is *)
(* busy, and flips keep off the buffer on display; and if the application  *)
(* is patient, what it asked for is drawn in order.                        *)
(***************************************************************************)
EXTENDS MCVideoQueue, TLAPS

(* OneEntryPerScreen of any queue and busy flags.                             *)
OneEach(q, b) ==
    /\ \A s \in Screens : s \in b <=> \E i \in DOMAIN q : q[i].screen = s
    /\ \A i, j \in DOMAIN q : q[i].screen = q[j].screen => i = j

(* Once video_enqueue has seen that its screen is free, it stays so: flags    *)
(* are set by the application alone.                                          *)
TargetIsFree ==
    /\ pc # "idle" => call \in Calls
    /\ pc \in {"shown", "enqueue"} => Target(call) \notin busy

QueueInv == TypeOK /\ OneEntryPerScreen /\ TargetIsFree /\ SourceIsBusy

-----------------------------------------------------------------------------
(* The parts of a step.                                                       *)

LEMMA RemainderFact ==
  ASSUME NEW e \in Entries
  PROVE  /\ HeadPacket(e) \in Packets /\ HeadPacket(e).screen = e.screen
         /\ HeadPacket(e).hidden = e.hidden
         /\ \/ Remainder(e) = <<>> /\ HeadPacket(e).copied
            \/ /\ ~HeadPacket(e).end
               /\ \E r \in Entries : /\ Remainder(e) = <<r>> /\ r.screen = e.screen
                                     /\ r.hidden = e.hidden
  <1> USE VideoAssumption DEF Entries, Packets, HeadPacket, Copied, Remainder
  <1>1. HeadPacket(e) \in Packets /\ HeadPacket(e).screen = e.screen
        /\ HeadPacket(e).hidden = e.hidden
    <2>1. CASE e.palette /\ ~e.paletteSent
      BY <2>1
    <2>2. CASE ~(e.palette /\ ~e.paletteSent)
      <3>1. (e.left = 1) \in BOOLEAN /\ (e.palette \/ e.left = 1) \in BOOLEAN
        OBVIOUS
      <3>2. (IF e.palette THEN "indexed" ELSE "pixels") \in {"palette", "indexed", "pixels"}
        OBVIOUS
      <3>3. e.screen \in Screens /\ e.hidden \in BOOLEAN /\ e.part \in BOOLEAN
        OBVIOUS
      <3>4. HeadPacket(e) = [screen |-> e.screen,
                             body |-> IF e.palette THEN "indexed" ELSE "pixels",
                             end |-> e.left = 1, copied |-> e.palette \/ e.left = 1,
                             hidden |-> e.hidden, part |-> e.part]
        BY <2>2
      <3>5. QED
        BY ONLY <3>1, <3>2, <3>3, <3>4 DEF Packets
    <2>3. QED
      BY <2>1, <2>2
  <1>2. CASE e.palette /\ ~e.paletteSent
    <2>1. [e EXCEPT !.paletteSent = TRUE] \in Entries
          /\ [e EXCEPT !.paletteSent = TRUE].screen = e.screen
          /\ [e EXCEPT !.paletteSent = TRUE].hidden = e.hidden
      OBVIOUS
    <2>2. ~HeadPacket(e).end
      BY <1>2
    <2>3. QED
      BY <1>1, <1>2, <2>1, <2>2
  <1>3. CASE ~(e.palette /\ ~e.paletteSent) /\ e.left > 1
    <2>1. [e EXCEPT !.left = @ - 1] \in Entries /\ [e EXCEPT !.left = @ - 1].screen = e.screen
          /\ [e EXCEPT !.left = @ - 1].hidden = e.hidden
      BY <1>3
    <2>2. ~HeadPacket(e).end
      <3>1. e.left \in 1..FullScreen /\ FullScreen \in Nat
        OBVIOUS
      <3>2. e.left # 1
        BY ONLY <1>3, <3>1
      <3>3. HeadPacket(e).end = (e.left = 1)
        BY <1>3
      <3>4. QED
        BY ONLY <3>2, <3>3
    <2>3. QED
      BY <1>1, <1>3, <2>1, <2>2
  <1>4. CASE ~(e.palette /\ ~e.paletteSent) /\ ~(e.left > 1)
    <2>1. e.left = 1
      BY <1>4
    <2>2. HeadPacket(e).copied
      BY <1>4, <2>1
    <2>3. QED
      BY <1>1, <1>4, <2>2
  <1>5. QED
    BY <1>2, <1>3, <1>4

LEMMA DequeueKeeps ==
  ASSUME NEW q \in Seq(Entries), NEW b \in SUBSET Screens, q # <<>>,
         OneEach(q, b), Dequeue(q, b)
  PROVE  /\ queue' \in Seq(Entries) /\ busy' \subseteq Screens
         /\ ready' \in Packets /\ announced' \in BOOLEAN
         /\ OneEach(queue', busy') /\ SourceIsBusy'
         /\ busy' \subseteq b
  <1> DEFINE e == q[1]
  <1>1. e \in Entries /\ Head(q) = e /\ 1 \in DOMAIN q /\ Len(q) \in Nat /\ Len(q) >= 1
        /\ DOMAIN q = 1..Len(q)
    OBVIOUS
  <1>2. Tail(q) \in Seq(Entries) /\ Len(Tail(q)) = Len(q) - 1
        /\ \A i \in 1..Len(q) - 1 : Tail(q)[i] = q[i + 1]
    BY <1>1
  <1>3. e.screen \in Screens /\ e.screen \in b
    BY <1>1 DEF OneEach, Entries
  <1>4. CASE Remainder(e) = <<>> /\ HeadPacket(e).copied
    <2>1. queue' = Tail(q) /\ busy' = b \ {e.screen} /\ ready' = HeadPacket(e) /\ announced' = TRUE
      <3>1. <<>> \o Tail(q) = Tail(q)
        BY <1>2
      <3>2. QED
        BY ONLY <1>1, <1>4, <3>1, Dequeue(q, b) DEF Dequeue
    <2>2. \A s \in Screens : s \in busy' <=> \E i \in DOMAIN queue' : queue'[i].screen = s
      <3> SUFFICES ASSUME NEW s \in Screens
                   PROVE  s \in busy' <=> \E i \in DOMAIN queue' : queue'[i].screen = s
        OBVIOUS
      <3>1. ASSUME s \in busy' PROVE \E i \in DOMAIN queue' : queue'[i].screen = s
        <4>1. PICK i \in DOMAIN q : q[i].screen = s
          BY <3>1, <2>1 DEF OneEach
        <4>2. i # 1
          BY <3>1, <2>1, <4>1
        <4>3. i - 1 \in DOMAIN queue' /\ queue'[i - 1] = q[i]
          BY <1>1, <1>2, <2>1, <4>1, <4>2
        <4>4. QED
          BY <4>1, <4>3
      <3>2. ASSUME NEW i \in DOMAIN queue', queue'[i].screen = s PROVE s \in busy'
        <4>1. i + 1 \in DOMAIN q /\ q[i + 1].screen = s /\ i + 1 # 1
          BY <1>1, <1>2, <2>1, <3>2
        <4>2. s \in b /\ s # e.screen
          BY <1>1, <4>1 DEF OneEach
        <4>3. QED
          BY <2>1, <4>2
      <3>3. QED
        BY <3>1, <3>2
    <2>3. \A i, j \in DOMAIN queue' : queue'[i].screen = queue'[j].screen => i = j
      <3> SUFFICES ASSUME NEW i \in DOMAIN queue', NEW j \in DOMAIN queue',
                          queue'[i].screen = queue'[j].screen
                   PROVE  i = j
        OBVIOUS
      <3>1. i \in Nat /\ j \in Nat /\ i + 1 \in DOMAIN q /\ j + 1 \in DOMAIN q
            /\ q[i + 1].screen = q[j + 1].screen
        BY <1>1, <1>2, <2>1
      <3>2. i + 1 = j + 1
        BY <3>1 DEF OneEach
      <3>3. QED
        BY <3>1, <3>2
    <2>4. QED
      BY <1>1, <1>2, <1>4, <2>1, <2>2, <2>3, RemainderFact DEF OneEach, SourceIsBusy
  <1>5. CASE \E r \in Entries : Remainder(e) = <<r>> /\ r.screen = e.screen
    <2>1. PICK r \in Entries : Remainder(e) = <<r>> /\ r.screen = e.screen
      BY <1>5
    <2>2. queue' = <<r>> \o Tail(q) /\ busy' = b /\ ready' = HeadPacket(e) /\ announced' = TRUE
      <3>1. <<r>> # <<>>
        OBVIOUS
      <3>2. QED
        BY ONLY <1>1, <2>1, <3>1, Dequeue(q, b) DEF Dequeue
    <2>3. queue' \in Seq(Entries) /\ DOMAIN queue' = DOMAIN q
          /\ \A i \in DOMAIN q : queue'[i].screen = q[i].screen
      BY <1>1, <1>2, <2>1, <2>2
    <2>4. OneEach(queue', busy')
      <3>1. \A s \in Screens : s \in busy' <=> \E i \in DOMAIN queue' : queue'[i].screen = s
        <4> SUFFICES ASSUME NEW s \in Screens
                     PROVE  s \in busy' <=> \E i \in DOMAIN queue' : queue'[i].screen = s
          OBVIOUS
        <4>1. s \in b <=> \E i \in DOMAIN q : q[i].screen = s
          BY DEF OneEach
        <4>2. QED
          BY ONLY <4>1, <2>2, <2>3
      <3>2. ASSUME NEW i \in DOMAIN queue', NEW j \in DOMAIN queue',
                   queue'[i].screen = queue'[j].screen
            PROVE  i = j
        BY <2>3, <3>2 DEF OneEach
      <3>3. QED
        BY <3>1, <3>2 DEF OneEach
    <2>5. QED
      BY <1>1, <1>3, <2>2, <2>3, <2>4, RemainderFact DEF SourceIsBusy
  <1>6. QED
    BY <1>1, <1>4, <1>5, RemainderFact

LEMMA AppendKeeps ==
  ASSUME NEW q \in Seq(Entries), NEW b \in SUBSET Screens, NEW e \in Entries,
         OneEach(q, b), e.screen \notin b
  PROVE  /\ Append(q, e) \in Seq(Entries) /\ Append(q, e) # <<>>
         /\ b \cup {e.screen} \in SUBSET Screens
         /\ OneEach(Append(q, e), b \cup {e.screen})
  <1> DEFINE t == Append(q, e)
  <1>1. /\ t \in Seq(Entries) /\ t # <<>> /\ Len(t) = Len(q) + 1 /\ Len(q) \in Nat
        /\ t[Len(q) + 1] = e /\ \A i \in 1..Len(q) : t[i] = q[i]
        /\ DOMAIN t = 1..Len(q) + 1 /\ DOMAIN q = 1..Len(q)
    OBVIOUS
  <1>2. e.screen \in Screens
    BY DEF Entries
  <1>3. \A i \in DOMAIN q : q[i].screen \in b
    <2> SUFFICES ASSUME NEW i \in DOMAIN q PROVE q[i].screen \in b
      OBVIOUS
    <2>1. q[i] \in Entries
      OBVIOUS
    <2>2. q[i].screen \in Screens
      BY <2>1 DEF Entries
    <2>3. QED
      BY <2>2 DEF OneEach
  <1>4. \A s \in Screens : s \in b \cup {e.screen} <=> \E i \in DOMAIN t : t[i].screen = s
    <2> SUFFICES ASSUME NEW s \in Screens
                 PROVE  s \in b \cup {e.screen} <=> \E i \in DOMAIN t : t[i].screen = s
      OBVIOUS
    <2>1. ASSUME s \in b PROVE \E i \in DOMAIN t : t[i].screen = s
      BY <1>1, <2>1 DEF OneEach
    <2>2. ASSUME s = e.screen PROVE \E i \in DOMAIN t : t[i].screen = s
      BY <1>1, <2>2
    <2>3. ASSUME NEW i \in DOMAIN t, t[i].screen = s PROVE s \in b \cup {e.screen}
      BY <1>1, <1>3, <2>3
    <2>4. QED
      BY <2>1, <2>2, <2>3
  <1>5. \A i, j \in DOMAIN t : t[i].screen = t[j].screen => i = j
    BY <1>1, <1>3 DEF OneEach
  <1>6. QED
    BY <1>1, <1>2, <1>4, <1>5 DEF OneEach

-----------------------------------------------------------------------------
LEMMA InitInv == Init => QueueInv
  BY VideoAssumption
  DEF Init, QueueInv, TypeOK, OneEntryPerScreen, TargetIsFree, SourceIsBusy, Buffers, Screens,
      Sub, NoCall, NoPacket, Calls

(* The steps of video_enqueue before its critical section.                    *)
LEMMA CallStep ==
  ASSUME QueueInv, NotBusy \/ NotShown \/ \E c \in Calls : Call(c)
  PROVE  QueueInv'
  <1>1. CASE \E c \in Calls : Call(c)
    BY <1>1
    DEF QueueInv, Call, queueVars, armVars, TypeOK, OneEntryPerScreen, TargetIsFree, SourceIsBusy, Target
  <1>2. CASE NotBusy
    <2>1. call \in Calls
      BY <1>2 DEF QueueInv, TargetIsFree, NotBusy
    <2>2. QED
      BY <1>2, <2>1
      DEF QueueInv, NotBusy, Free, queueVars, armVars, TypeOK, OneEntryPerScreen, TargetIsFree, SourceIsBusy,
          Target
  <1>3. CASE NotShown
    BY <1>3
    DEF QueueInv, NotShown, queueVars, armVars, TypeOK, OneEntryPerScreen, TargetIsFree, SourceIsBusy, Target
  <1>4. QED
    BY <1>1, <1>2, <1>3

(* The critical section of video_enqueue.                                     *)
LEMMA EnqueueStep ==
  ASSUME QueueInv, NEW palette \in BOOLEAN, NEW rows \in 1..FullScreen, Enqueue(palette, rows)
  PROVE  QueueInv'
  <1> DEFINE whole == call.whole \/ wasPal[current] \/ palette
             entry == [screen |-> Target(call),
                       left |-> IF whole THEN FullScreen ELSE rows,
                       palette |-> palette, paletteSent |-> FALSE,
                       hidden |-> call.screen = "main" /\ wasFlip,
                       part |-> ~whole]
             tail == Append(queue, entry)
  <1>1. call \in Calls /\ Target(call) \notin busy /\ Target(call) \in Screens
    BY DEF QueueInv, TargetIsFree, Enqueue, TypeOK, Target, Screens, Sub
  <1>2. entry \in Entries /\ entry.screen = Target(call)
    BY <1>1, VideoAssumption DEF Entries, Calls, QueueInv, TypeOK
  <1>3. /\ tail \in Seq(Entries) /\ tail # <<>> /\ busy \cup {entry.screen} \in SUBSET Screens
        /\ OneEach(tail, busy \cup {entry.screen})
    <2>1. queue \in Seq(Entries) /\ busy \in SUBSET Screens /\ OneEach(queue, busy)
      BY DEF QueueInv, TypeOK, OneEntryPerScreen, OneEach
    <2>2. QED
      BY <1>1, <1>2, <2>1, AppendKeeps
  <1>4. /\ queue' \in Seq(Entries) /\ busy' \subseteq Screens
        /\ ready' \in Packets \cup {NoPacket} /\ announced' \in BOOLEAN
        /\ OneEach(queue', busy') /\ SourceIsBusy'
    <2>1. CASE Len(tail) = 1
      <3>1. Dequeue(tail, busy \cup {entry.screen})
        BY <2>1 DEF Enqueue
      <3>2. QED
        BY <1>3, <3>1, DequeueKeeps
    <2>2. CASE Len(tail) # 1
      <3>1. queue' = tail /\ busy' = busy \cup {entry.screen} /\ UNCHANGED <<ready, announced>>
        BY <2>2 DEF Enqueue
      <3>2. QED
        BY <1>3, <3>1 DEF QueueInv, TypeOK, SourceIsBusy
    <2>3. QED
      BY <2>1, <2>2
  <1>5. current' \in Buffers /\ wasPal' \in [Buffers -> BOOLEAN] /\ wasFlip' \in BOOLEAN
    BY <1>1 DEF QueueInv, TypeOK, Enqueue, After, Buffers, Calls
  <1>6. TypeOK'
    BY <1>4, <1>5 DEF QueueInv, TypeOK, Enqueue, armVars
  <1>7. TargetIsFree'
    BY DEF Enqueue, TargetIsFree
  <1>8. QED
    BY <1>4, <1>6, <1>7 DEF QueueInv, OneEach, OneEntryPerScreen

(* The handler of SEND_QUEUE.                                                 *)
LEMMA SendVideoStep == ASSUME QueueInv, SendVideo PROVE QueueInv'
  <1>1. /\ queue' \in Seq(Entries) /\ busy' \subseteq Screens /\ busy' \subseteq busy
        /\ ready' \in Packets \cup {NoPacket} /\ announced' \in BOOLEAN
        /\ OneEach(queue', busy') /\ SourceIsBusy'
    <2>1. CASE queue = <<>>
      <3>1. announced' = FALSE /\ UNCHANGED <<busy, queue, ready>>
        BY <2>1 DEF SendVideo
      <3>2. OneEach(queue, busy)
        BY DEF QueueInv, OneEach, OneEntryPerScreen
      <3>3. OneEach(queue', busy')
        BY <3>1, <3>2
      <3>4. QED
        BY <3>1, <3>3 DEF QueueInv, TypeOK, SourceIsBusy
    <2>2. CASE queue # <<>>
      <3>1. Dequeue(queue, busy) /\ queue \in Seq(Entries) /\ busy \in SUBSET Screens
            /\ OneEach(queue, busy)
        BY <2>2 DEF SendVideo, QueueInv, TypeOK, OneEach, OneEntryPerScreen
      <3>2. QED
        BY <2>2, <3>1, DequeueKeeps
    <2>3. QED
      BY <2>1, <2>2
  <1>2. TypeOK'
    BY <1>1 DEF SendVideo, QueueInv, TypeOK, appVars
  <1>3. TargetIsFree'
    BY <1>1 DEF SendVideo, QueueInv, TargetIsFree, Target, appVars
  <1>4. QED
    BY <1>1, <1>2, <1>3 DEF QueueInv, OneEach, OneEntryPerScreen

(* The steps that leave the queue alone.                                      *)
LEMMA OtherStep ==
  ASSUME QueueInv, Displayed \/ Tell \/ Ask \/ Draw \/ VBlank \/ UNCHANGED vars
  PROVE  QueueInv'
  <1>1. UNCHANGED <<appVars, queueVars>>
    BY DEF Displayed, Tell, Ask, Draw, VBlank, vars
  <1>2. OneEntryPerScreen' /\ TargetIsFree' /\ SourceIsBusy'
    BY <1>1 DEF QueueInv, appVars, queueVars, OneEntryPerScreen, TargetIsFree, SourceIsBusy, Target
  <1>3. TypeOK'
    <2> USE <1>1 DEF QueueInv, TypeOK, appVars, queueVars
    <2>1. CASE Displayed
      BY <2>1 DEF Displayed
    <2>2. CASE Tell
      BY <2>2 DEF Tell
    <2>3. CASE Ask
      BY <2>3 DEF Ask
    <2>4. CASE Draw
      <3>1. wire.screen # Sub => wire.screen \in Buffers
        BY DEF Packets, NoPacket, Screens
      <3>2. flips' \in Seq(Buffers) /\ last' \in Buffers /\ usesPal' \in [Buffers -> BOOLEAN]
        <4>1. CASE wire.screen = Sub
          BY <2>4, <4>1 DEF Draw
        <4>2. CASE wire.screen # Sub
          <5>1. wire.screen \in Buffers
            BY <3>1, <4>2
          <5>2. Append(flips, wire.screen) \in Seq(Buffers)
            BY <5>1
          <5>3. CASE wire.end
            BY <2>4, <4>2, <5>1, <5>2, <5>3 DEF Draw, AddPendingFlip
          <5>4. CASE ~wire.end
            BY <2>4, <4>2, <5>1, <5>4 DEF Draw
          <5>5. QED
            BY <5>3, <5>4
        <4>3. QED
          BY <4>1, <4>2
      <3>3. QED
        BY <2>4, <3>2 DEF Draw
    <2>5. CASE VBlank
      <3>1. flips' \in Seq(Buffers) /\ display' \in Buffers
        BY <2>5 DEF VBlank
      <3>2. QED
        BY <2>5, <3>1 DEF VBlank
    <2>6. CASE UNCHANGED vars
      BY <2>6 DEF vars, armVars
    <2>7. QED
      BY <2>1, <2>2, <2>3, <2>4, <2>5, <2>6
  <1>4. QED
    BY <1>2, <1>3 DEF QueueInv

-----------------------------------------------------------------------------
(* Flips.                                                                     *)
(*                                                                            *)
(* The MIPS never runs ahead of the buffer d that it knows to be displayed by *)
(* more than two flips, so that the distance from d orders the buffers: the   *)
(* one displayed, those that are to be flipped to, those to be drawn and the  *)
(* newest for which an update was asked.  Frames may get lost underway, when  *)
(* video_enqueue makes its packet over one that is ready; the order stays.    *)

Pos(d, b) == IF b >= d THEN b - d ELSE b + 3 - d

(* The buffer of the newest frame asked for.                                  *)
Newest == IF wasFlip THEN IF current = 0 THEN 2 ELSE current - 1 ELSE current

(* A packet or an entry x lies between the last flip l and the newest frame   *)
(* n; a frame that was waited for is beyond l.                                *)
InWindow(d, l, n, x) ==
    IF x.screen = Sub THEN ~x.hidden
    ELSE /\ Pos(d, l) <= Pos(d, x.screen) /\ Pos(d, x.screen) <= Pos(d, n)
         /\ x.hidden => Pos(d, l) < Pos(d, x.screen)

InTurn(d, x, y) ==
    x.screen # Sub /\ y.screen # Sub => Pos(d, x.screen) <= Pos(d, y.screen)

(* The packet p is drawn before y is, of another frame if p ends its own.     *)
Ahead(d, p, y) ==
    /\ InTurn(d, p, y)
    /\ p.end /\ p.screen # Sub /\ y.hidden => p.screen # y.screen

Line(d, l, n, q) ==
    /\ \A i \in DOMAIN q : InWindow(d, l, n, q[i])
    /\ \A i, j \in DOMAIN q : i < j => InTurn(d, q[i], q[j])

Leads(d, p, q) == \A i \in DOMAIN q : Ahead(d, p, q[i])

(* The flips f to come, from the buffer c displayed to the last l.            *)
FlipLine(d, c, l, f) ==
    /\ Pos(d, c) <= Pos(d, l)
    /\ \A i \in DOMAIN f : Pos(d, c) < Pos(d, f[i]) /\ Pos(d, f[i]) <= Pos(d, l)
    /\ \A i, j \in DOMAIN f : i < j => Pos(d, f[i]) < Pos(d, f[j])

(* Once video_enqueue has waited after a flip there is room for a frame.      *)
RoomForFlip ==
    /\ pc # "idle" /\ call.screen = "sub" => ~call.flip
    /\ pc = "enqueue" /\ call.screen = "main" /\ wasFlip => Pos(shown, Newest) < 2

FlipsLine ==
    /\ FlipLine(shown, display, last, flips)
    /\ Pos(shown, last) <= Pos(shown, Newest)
    /\ arm = "tell" => Pos(shown, note) <= Pos(shown, display)

PacketsLine ==
    /\ arm = "ask" => announced
    /\ Line(shown, last, Newest, queue)
    /\ announced => InWindow(shown, last, Newest, ready) /\ Leads(shown, ready, queue)
    /\ arm = "draw" => InWindow(shown, last, Newest, wire) /\ Leads(shown, wire, queue)
    /\ arm = "draw" /\ announced => Ahead(shown, wire, ready)

FlipInv == RoomForFlip /\ FlipsLine /\ PacketsLine

(* Distances.                                                                 *)
LEMMA PosFact ==
  ASSUME NEW d \in Buffers
  PROVE  /\ \A b \in Buffers : Pos(d, b) \in 0..2
         /\ \A b, c \in Buffers : Pos(d, b) = Pos(d, c) => b = c
         /\ \A b \in Buffers : Pos(d, b) < 2 => Pos(d, After(b)) = Pos(d, b) + 1
         /\ \A b \in Buffers : Pos(d, b) = 2 => After(b) = d
         /\ \A k, b \in Buffers : Pos(d, k) <= Pos(d, b) => Pos(k, b) = Pos(d, b) - Pos(d, k)
  BY DEF Pos, Buffers, After

LEMMA NewestFact ==
  ASSUME TypeOK
  PROVE  /\ Newest \in Buffers
         /\ wasFlip => current = After(Newest)
         /\ ~wasFlip => current = Newest
  BY DEF TypeOK, Newest, After, Buffers

(* The queue is taken from at its head, which goes first.                     *)
LEMMA LineDequeued ==
  ASSUME NEW d \in Buffers, NEW l \in Buffers, NEW n \in Buffers,
         NEW q \in Seq(Entries), q # <<>>, Line(d, l, n, q),
         \A i, j \in DOMAIN q : q[i].screen = q[j].screen => i = j
  PROVE  LET p == HeadPacket(Head(q))
             t == Remainder(Head(q)) \o Tail(q)
         IN  /\ InWindow(d, l, n, p) /\ Line(d, l, n, t) /\ Leads(d, p, t)
             /\ \A w : Leads(d, w, q) => Ahead(d, w, p) /\ Leads(d, w, t)
  <1> DEFINE e == q[1]
             p == HeadPacket(e)
             t == Remainder(e) \o Tail(q)
  <1>1. /\ e \in Entries /\ Head(q) = e /\ 1 \in DOMAIN q /\ Len(q) \in Nat /\ Len(q) >= 1
        /\ DOMAIN q = 1..Len(q)
    OBVIOUS
  <1>2. Tail(q) \in Seq(Entries) /\ Len(Tail(q)) = Len(q) - 1
        /\ \A i \in 1..Len(q) - 1 : Tail(q)[i] = q[i + 1]
    BY <1>1
  <1>3. InWindow(d, l, n, e) /\ \A i \in DOMAIN q : i > 1 => InTurn(d, e, q[i])
    BY <1>1 DEF Line
  <1>4. p.screen = e.screen /\ p.hidden = e.hidden
    BY <1>1, RemainderFact
  <1>5. InWindow(d, l, n, p) /\ \A y : InTurn(d, e, y) => InTurn(d, p, y)
    BY <1>3, <1>4 DEF InWindow, InTurn
  <1>6. \A w : Ahead(d, w, e) => Ahead(d, w, p)
    BY <1>4 DEF Ahead, InTurn
  <1> HIDE DEF p
  <1>7. CASE Remainder(e) = <<>>
    <2>1. t = Tail(q)
      BY <1>2, <1>7
    <2>2. \A i \in DOMAIN t : i + 1 \in DOMAIN q /\ i \in Nat /\ i + 1 > 1 /\ t[i] = q[i + 1]
      <3>1. DOMAIN Tail(q) = 1..Len(q) - 1
        BY <1>2
      <3>2. \A i \in 1..Len(q) - 1 : i + 1 \in 1..Len(q) /\ i \in Nat /\ i + 1 > 1
        BY <1>1
      <3>3. QED
        BY ONLY <1>1, <1>2, <2>1, <3>1, <3>2
    <2> HIDE DEF t
    <2>3. Line(d, l, n, t)
      BY <2>2 DEF Line
    <2>4. ASSUME NEW i \in DOMAIN t PROVE Ahead(d, p, t[i])
      <3>1. q[i + 1].screen # e.screen
        BY <1>1, <2>2
      <3>2. InTurn(d, p, t[i])
        BY <1>3, <1>5, <2>2
      <3>3. QED
        BY <1>4, <2>2, <3>1, <3>2 DEF Ahead
    <2>5. ASSUME NEW w, Leads(d, w, q) PROVE Ahead(d, w, p) /\ Leads(d, w, t)
      BY <1>1, <1>6, <2>2, <2>5 DEF Leads
    <2>6. QED
      BY <1>1, <1>5, <2>3, <2>4, <2>5 DEF Leads, p, t
  <1>8. CASE Remainder(e) # <<>>
    <2>1. PICK r \in Entries : Remainder(e) = <<r>> /\ r.screen = e.screen /\ r.hidden = e.hidden
      BY <1>1, <1>8, RemainderFact
    <2>2. ~p.end
      BY <1>1, <1>8, RemainderFact DEF p
    <2>3. DOMAIN t = DOMAIN q /\ t[1] = r /\ \A i \in DOMAIN q : i # 1 => t[i] = q[i]
      BY <1>1, <1>2, <2>1
    <2> HIDE DEF t
    <2>4. \A i \in DOMAIN q : t[i].screen = q[i].screen /\ t[i].hidden = q[i].hidden
      BY <2>1, <2>3
    <2>5. Line(d, l, n, t)
      BY <2>3, <2>4 DEF Line, InWindow, InTurn
    <2>6. ASSUME NEW i \in DOMAIN t PROVE Ahead(d, p, t[i])
      <3>1. InTurn(d, p, q[i])
        <4>1. CASE i = 1
          BY <1>1, <1>4, <4>1, PosFact DEF InTurn, Entries, Screens
        <4>2. CASE i # 1
          BY <1>1, <1>3, <1>5, <2>3, <4>2
        <4>3. QED
          BY <4>1, <4>2
      <3>2. QED
        BY <2>2, <2>3, <2>4, <3>1 DEF Ahead, InTurn
    <2>7. ASSUME NEW w, Leads(d, w, q) PROVE Ahead(d, w, p) /\ Leads(d, w, t)
      BY <1>1, <1>6, <2>3, <2>4, <2>7 DEF Leads, Ahead, InTurn
    <2>8. QED
      BY <1>1, <1>5, <2>5, <2>6, <2>7 DEF Leads, p, t
  <1>9. QED
    BY <1>7, <1>8

(* The queue is added to at its end, with a frame that is not older.          *)
LEMMA LineAppended ==
  ASSUME NEW d \in Buffers, NEW l \in Buffers, NEW n \in Buffers, NEW m \in Buffers,
         NEW q \in Seq(Entries), NEW e \in Entries, Line(d, l, n, q),
         Pos(d, l) <= Pos(d, n), Pos(d, n) <= Pos(d, m),
         e.screen # Sub => e.screen = m /\ (e.hidden => Pos(d, n) < Pos(d, m)),
         e.screen = Sub => ~e.hidden
  PROVE  /\ Line(d, l, m, Append(q, e))
         /\ \A w : w.screen \in Screens /\ InWindow(d, l, n, w) =>
               /\ InWindow(d, l, m, w)
               /\ Leads(d, w, q) => Leads(d, w, Append(q, e))
  <1> DEFINE t == Append(q, e)
  <1>1. /\ DOMAIN t = 1..Len(q) + 1 /\ DOMAIN q = 1..Len(q) /\ Len(q) \in Nat
        /\ t[Len(q) + 1] = e /\ \A i \in 1..Len(q) : t[i] = q[i] /\ q[i] \in Entries
    OBVIOUS
  <1>2. /\ \A b \in Buffers : Pos(d, b) \in 0..2
        /\ \A s \in Screens : s = Sub \/ s \in Buffers
    BY PosFact DEF Screens
  <1>3. InWindow(d, l, m, e)
    BY <1>2 DEF InWindow
  <1>4. ASSUME NEW w, w.screen \in Screens, InWindow(d, l, n, w)
        PROVE  InWindow(d, l, m, w) /\ Ahead(d, w, e)
    BY <1>2, <1>4 DEF InWindow, Ahead, InTurn
  <1>5. \A i \in DOMAIN q : q[i].screen \in Screens
    BY <1>1 DEF Entries
  <1> HIDE DEF t
  <1>6. Line(d, l, m, t)
    <2>1. \A i \in DOMAIN q : InWindow(d, l, m, q[i]) /\ InTurn(d, q[i], e)
      BY <1>4, <1>5 DEF Line, Ahead
    <2>2. ASSUME NEW i \in DOMAIN t PROVE InWindow(d, l, m, t[i])
      BY <1>1, <1>3, <2>1
    <2>3. ASSUME NEW i \in DOMAIN t, NEW j \in DOMAIN t, i < j PROVE InTurn(d, t[i], t[j])
      <3>1. i \in 1..Len(q)
        BY <1>1, <2>3
      <3>2. CASE j = Len(q) + 1
        BY <1>1, <2>1, <3>1, <3>2
      <3>3. CASE j # Len(q) + 1
        BY <1>1, <2>3, <3>1, <3>3 DEF Line
      <3>4. QED
        BY <3>2, <3>3
    <2>4. QED
      BY <2>2, <2>3 DEF Line
  <1>7. ASSUME NEW w, w.screen \in Screens, InWindow(d, l, n, w), Leads(d, w, q)
        PROVE  Leads(d, w, t)
    BY <1>1, <1>4, <1>7 DEF Leads
  <1>8. QED
    BY <1>4, <1>6, <1>7 DEF t

(* A frame displayed is the one from which distances are counted next.        *)
LEMMA LineShown ==
  ASSUME NEW d \in Buffers, NEW k \in Buffers, NEW l \in Buffers, NEW n \in Buffers,
         Pos(d, k) <= Pos(d, l), Pos(d, l) <= Pos(d, n)
  PROVE  /\ \A w : w.screen \in Screens /\ InWindow(d, l, n, w) => InWindow(k, l, n, w)
         /\ \A v, w : /\ v.screen \in Screens /\ w.screen \in Screens
                      /\ InWindow(d, l, n, v) /\ InWindow(d, l, n, w)
                      => (InTurn(d, v, w) <=> InTurn(k, v, w)) /\ (Ahead(d, v, w) <=> Ahead(k, v, w))
  <1>1. /\ \A b \in Buffers : Pos(d, b) \in 0..2
        /\ \A b \in Buffers : Pos(d, k) <= Pos(d, b) => Pos(k, b) = Pos(d, b) - Pos(d, k)
        /\ \A s \in Screens : s = Sub \/ s \in Buffers
    BY PosFact DEF Screens
  <1>2. \A w : w.screen \in Screens /\ InWindow(d, l, n, w) /\ w.screen # Sub =>
           w.screen \in Buffers /\ Pos(d, k) <= Pos(d, w.screen)
    BY <1>1 DEF InWindow
  <1>3. \A w : w.screen \in Screens /\ InWindow(d, l, n, w) => InWindow(k, l, n, w)
    BY <1>1, <1>2 DEF InWindow
  <1>4. ASSUME NEW v, NEW w, v.screen \in Screens, w.screen \in Screens,
               InWindow(d, l, n, v), InWindow(d, l, n, w)
        PROVE  (InTurn(d, v, w) <=> InTurn(k, v, w)) /\ (Ahead(d, v, w) <=> Ahead(k, v, w))
    <2>1. InTurn(d, v, w) <=> InTurn(k, v, w)
      BY <1>1, <1>2, <1>4 DEF InTurn
    <2>2. QED
      BY <2>1 DEF Ahead
  <1>5. QED
    BY <1>3, <1>4

(* What the ARM9 draws, or has been made ready, is of some screen.            *)
LEMMA ScreensFact ==
  ASSUME TypeOK
  PROVE  /\ ready.screen \in Screens /\ wire.screen \in Screens
         /\ \A i \in DOMAIN queue : queue[i].screen \in Screens /\ queue[i] \in Entries
         /\ \A s \in Screens : s # Sub => s \in Buffers
  <1>1. \A i \in DOMAIN queue : queue[i] \in Entries
    BY DEF TypeOK
  <1>2. QED
    BY <1>1 DEF TypeOK, Packets, NoPacket, Entries, Screens, Sub, Buffers

LEMMA FlipCallStep ==
  ASSUME QueueInv, FlipInv, NotBusy \/ NotShown \/ \E c \in Calls : Call(c)
  PROVE  FlipInv'
  <1>1. UNCHANGED <<current, shown, wasFlip, queueVars, armVars>>
    BY DEF NotBusy, NotShown, Call
  <1>2. FlipsLine' /\ PacketsLine'
    BY <1>1 DEF FlipInv, FlipsLine, PacketsLine, Newest, queueVars, armVars
  <1>3. RoomForFlip'
    <2> USE DEF RoomForFlip
    <2>1. CASE \E c \in Calls : Call(c)
      BY <2>1 DEF Call
    <2>2. CASE NotBusy
      BY <2>2 DEF NotBusy, FlipInv
    <2>3. CASE NotShown
      <3>1. /\ Newest \in Buffers /\ shown \in Buffers
            /\ wasFlip => current = After(Newest)
        BY NewestFact DEF QueueInv, TypeOK
      <3>2. wasFlip => Pos(shown, Newest) < 2
        BY <2>3, <3>1 DEF NotShown, Hidden, Pos, After, Buffers
      <3>3. Newest' = Newest
        BY <1>1 DEF Newest
      <3>4. QED
        BY <1>1, <2>3, <3>2, <3>3 DEF NotShown, FlipInv
    <2>4. QED
      BY <2>1, <2>2, <2>3
  <1>4. QED
    BY <1>2, <1>3 DEF FlipInv

LEMMA FlipEnqueueStep ==
  ASSUME QueueInv, FlipInv, NEW palette \in BOOLEAN, NEW rows \in 1..FullScreen,
         Enqueue(palette, rows)
  PROVE  FlipInv'
  <1> DEFINE whole == call.whole \/ wasPal[current] \/ palette
             entry == [screen |-> Target(call),
                       left |-> IF whole THEN FullScreen ELSE rows,
                       palette |-> palette, paletteSent |-> FALSE,
                       hidden |-> call.screen = "main" /\ wasFlip,
                       part |-> ~whole]
             tail == Append(queue, entry)
  <1>1. call \in Calls /\ Target(call) \in Screens
    BY DEF QueueInv, TargetIsFree, Enqueue, TypeOK, Target, Screens, Sub
  <1>2. entry \in Entries /\ entry.screen = Target(call)
        /\ entry.hidden = (call.screen = "main" /\ wasFlip)
    BY <1>1, VideoAssumption DEF Entries, Calls, QueueInv, TypeOK
  <1>3. /\ shown \in Buffers /\ last \in Buffers /\ Newest \in Buffers /\ queue \in Seq(Entries)
        /\ wasFlip => current = After(Newest)
        /\ ~wasFlip => current = Newest
    BY NewestFact DEF QueueInv, TypeOK
  <1>4. UNCHANGED <<shown, arm, wire, note, display, last, flips>> /\ pc' = "idle"
    BY DEF Enqueue, armVars
  <1> DEFINE EntryFits == /\ Newest' \in Buffers /\ Pos(shown, Newest) <= Pos(shown, Newest')
                          /\ entry.screen # Sub =>
                                /\ entry.screen = Newest'
                                /\ entry.hidden => Pos(shown, Newest) < Pos(shown, Newest')
                          /\ entry.screen = Sub => ~entry.hidden
  <1>5. ASSUME call.screen = "main" PROVE EntryFits
    <2>1. Newest' = current
      BY <1>5 DEF Enqueue, Newest, After, QueueInv, TypeOK, Buffers
    <2>2. wasFlip => Pos(shown, Newest) < 2
      BY <1>5 DEF Enqueue, FlipInv, RoomForFlip
    <2>3. Newest' \in Buffers /\ Pos(shown, Newest) <= Pos(shown, Newest')
          /\ (wasFlip => Pos(shown, Newest) < Pos(shown, Newest'))
      <3>1. CASE wasFlip
        <4>1. Pos(shown, current) = Pos(shown, Newest) + 1 /\ current \in Buffers
              /\ Pos(shown, Newest) \in 0..2
          BY <1>3, <2>2, <3>1, PosFact DEF QueueInv, TypeOK
        <4>2. QED
          BY ONLY <2>1, <4>1
      <3>2. CASE ~wasFlip
        <4>1. Pos(shown, Newest) \in 0..2
          BY <1>3, PosFact
        <4>2. QED
          BY <1>3, <2>1, <3>2, <4>1
      <3>3. QED
        BY <3>1, <3>2
    <2>4. entry.screen = Newest'
      BY <1>2, <1>5, <2>1 DEF Target
    <2>5. entry.screen # Sub
      BY <2>3, <2>4 DEF Buffers, Sub
    <2>6. QED
      BY <1>2, <2>3, <2>4, <2>5
  <1>6. ASSUME call.screen # "main" PROVE EntryFits
    <2>1. call.screen = "sub" /\ ~call.flip
      BY <1>1, <1>6 DEF Calls, Enqueue, FlipInv, RoomForFlip
    <2>2. Newest' = Newest
      BY <1>6, <2>1 DEF Enqueue, Newest
    <2>3. Pos(shown, Newest) <= Pos(shown, Newest)
      BY <1>3, PosFact
    <2>4. entry.screen = Sub /\ ~entry.hidden
      BY <1>2, <1>6 DEF Target
    <2>5. QED
      BY <1>3, <2>2, <2>3, <2>4
  <1>7. EntryFits
    BY <1>5, <1>6
  <1> HIDE DEF entry
  <1>8. /\ Line(shown, last, Newest, queue) /\ Pos(shown, last) <= Pos(shown, Newest)
        /\ wire.screen \in Screens
        /\ arm = "draw" => InWindow(shown, last, Newest, wire) /\ Leads(shown, wire, queue)
        /\ announced => InWindow(shown, last, Newest, ready) /\ Leads(shown, ready, queue)
        /\ ready.screen \in Screens
    BY ScreensFact DEF QueueInv, FlipInv, FlipsLine, PacketsLine
  <1>9. /\ Line(shown, last, Newest', tail)
        /\ \A w : w.screen \in Screens /\ InWindow(shown, last, Newest, w) =>
               /\ InWindow(shown, last, Newest', w)
               /\ Leads(shown, w, queue) => Leads(shown, w, tail)
    BY ONLY <1>2, <1>3, <1>7, <1>8, LineAppended DEF EntryFits
  <1>10. tail \in Seq(Entries) /\ tail # <<>> /\ Len(tail) = Len(queue) + 1 /\ Len(queue) \in Nat
    BY <1>2, <1>3
  <1>11. PacketsLine'
    <2>1. CASE Len(tail) = 1
      <3> DEFINE p == HeadPacket(Head(tail))
                 t == Remainder(Head(tail)) \o Tail(tail)
      <3>1. announced' = TRUE /\ ready' = p /\ queue' = t
        BY <2>1 DEF Enqueue, Dequeue, entry
      <3>2. \A i, j \in DOMAIN tail : tail[i].screen = tail[j].screen => i = j
        BY <1>10, <2>1
      <3> HIDE DEF tail
      <3>3. /\ InWindow(shown, last, Newest', p) /\ Line(shown, last, Newest', t)
            /\ Leads(shown, p, t)
            /\ \A w : Leads(shown, w, tail) => Ahead(shown, w, p) /\ Leads(shown, w, t)
        BY ONLY <1>3, <1>7, <1>9, <1>10, <3>2, LineDequeued DEF EntryFits
      <3> HIDE DEF p, t
      <3>4. QED
        BY <1>4, <1>8, <1>9, <3>1, <3>3 DEF PacketsLine
    <2>2. CASE Len(tail) # 1
      <3>1. queue' = tail /\ UNCHANGED <<ready, announced>>
        BY <2>2 DEF Enqueue, entry
      <3> HIDE DEF tail
      <3>2. QED
        BY <1>4, <1>8, <1>9, <3>1 DEF FlipInv, PacketsLine
    <2>3. QED
      BY <2>1, <2>2
  <1>12. FlipsLine'
    <2>1. Pos(shown, last) <= Pos(shown, Newest')
      BY <1>3, <1>7, <1>8, PosFact
    <2>2. QED
      BY <1>4, <2>1 DEF FlipInv, FlipsLine
  <1>13. RoomForFlip'
    BY <1>4 DEF RoomForFlip
  <1>14. QED
    BY <1>11, <1>12, <1>13 DEF FlipInv

LEMMA FlipSendStep == ASSUME QueueInv, FlipInv, SendVideo PROVE FlipInv'
  <1>1. /\ UNCHANGED <<appVars, shown, note, display, last, flips>> /\ announced
        /\ arm' = "draw" /\ wire' = ready
    BY DEF SendVideo, FlipInv, PacketsLine
  <1>2. Newest' = Newest
    BY <1>1 DEF Newest, appVars
  <1>3. /\ Line(shown, last, Newest, queue)
        /\ InWindow(shown, last, Newest, ready) /\ Leads(shown, ready, queue)
    BY <1>1 DEF FlipInv, PacketsLine
  <1>4. RoomForFlip' /\ FlipsLine'
    BY <1>1, <1>2 DEF FlipInv, RoomForFlip, FlipsLine, appVars
  <1>5. PacketsLine'
    <2>1. CASE queue = <<>>
      <3>1. ~announced' /\ queue' = queue
        BY <2>1 DEF SendVideo
      <3>2. QED
        BY <1>1, <1>2, <1>3, <3>1 DEF PacketsLine
    <2>2. CASE queue # <<>>
      <3> DEFINE p == HeadPacket(Head(queue))
                 t == Remainder(Head(queue)) \o Tail(queue)
      <3>1. announced' = TRUE /\ ready' = p /\ queue' = t
        BY <2>2 DEF SendVideo, Dequeue
      <3>2. /\ \A i, j \in DOMAIN queue : queue[i].screen = queue[j].screen => i = j
            /\ shown \in Buffers /\ last \in Buffers /\ Newest \in Buffers
            /\ queue \in Seq(Entries)
        BY NewestFact DEF QueueInv, TypeOK, OneEntryPerScreen
      <3>3. /\ InWindow(shown, last, Newest, p) /\ Line(shown, last, Newest, t)
            /\ Leads(shown, p, t)
            /\ \A w : Leads(shown, w, queue) => Ahead(shown, w, p) /\ Leads(shown, w, t)
        BY ONLY <1>3, <2>2, <3>2, LineDequeued
      <3> HIDE DEF p, t
      <3>4. QED
        BY <1>1, <1>2, <1>3, <3>1, <3>3 DEF PacketsLine
    <2>3. QED
      BY <2>1, <2>2
  <1>6. QED
    BY <1>4, <1>5 DEF FlipInv

(* VIDEO_DISPLAYED.                                                           *)
LEMMA FlipShownStep == ASSUME QueueInv, FlipInv, Displayed PROVE FlipInv'
  <1> DEFINE n == Newest
  <1>1. /\ UNCHANGED <<appVars, queueVars, wire, display, last, flips>>
        /\ shown' = note /\ arm' = "loop" /\ arm = "tell"
    BY DEF Displayed
  <1>2. Newest' = n /\ n \in Buffers
    BY <1>1, NewestFact DEF Newest, appVars, QueueInv
  <1>3. /\ shown \in Buffers /\ note \in Buffers /\ last \in Buffers /\ display \in Buffers
        /\ \A i \in DOMAIN flips : flips[i] \in Buffers
    BY DEF QueueInv, TypeOK
  <1>4. /\ FlipLine(shown, display, last, flips) /\ Pos(shown, last) <= Pos(shown, n)
        /\ Pos(shown, note) <= Pos(shown, display)
    BY <1>1 DEF FlipInv, FlipsLine
  <1> HIDE DEF n
  <1>5. /\ \A b \in Buffers : Pos(shown, b) \in 0..2
        /\ \A b \in Buffers : Pos(shown, note) <= Pos(shown, b) =>
                                 Pos(note, b) = Pos(shown, b) - Pos(shown, note)
    BY <1>3, PosFact
  <1>6. /\ Pos(shown, display) <= Pos(shown, last)
        /\ Pos(shown, note) <= Pos(shown, last) /\ Pos(shown, note) <= Pos(shown, n)
    BY <1>2, <1>3, <1>4, <1>5 DEF FlipLine
  <1>7. FlipLine(note, display, last, flips) /\ Pos(note, last) <= Pos(note, n)
    <2>1. \A i \in DOMAIN flips : Pos(shown, display) < Pos(shown, flips[i])
                                  /\ Pos(shown, flips[i]) <= Pos(shown, last)
      BY <1>4 DEF FlipLine
    <2>2. \A i \in DOMAIN flips :
             Pos(note, flips[i]) = Pos(shown, flips[i]) - Pos(shown, note)
      BY <1>3, <1>4, <1>5, <2>1
    <2>3. /\ Pos(note, display) = Pos(shown, display) - Pos(shown, note)
          /\ Pos(note, last) = Pos(shown, last) - Pos(shown, note)
          /\ Pos(note, n) = Pos(shown, n) - Pos(shown, note)
      BY <1>2, <1>3, <1>4, <1>5, <1>6
    <2>4. /\ \A i \in DOMAIN flips : Pos(shown, flips[i]) \in 0..2
          /\ Pos(shown, display) \in 0..2 /\ Pos(shown, last) \in 0..2 /\ Pos(shown, n) \in 0..2
          /\ Pos(shown, note) \in 0..2
      BY <1>2, <1>3, <1>5
    <2>5. \A i, j \in DOMAIN flips : i < j => Pos(shown, flips[i]) < Pos(shown, flips[j])
      BY <1>4 DEF FlipLine
    <2>6. QED
      BY ONLY <1>4, <1>6, <2>1, <2>2, <2>3, <2>4, <2>5 DEF FlipLine
  <1>8. FlipsLine'
    BY <1>1, <1>2, <1>7 DEF FlipsLine
  <1>9. RoomForFlip'
    BY <1>1, <1>2, <1>3, <1>5, <1>6 DEF FlipInv, RoomForFlip, appVars, n
  <1>10. PacketsLine'
    <2>1. /\ \A w : w.screen \in Screens /\ InWindow(shown, last, n, w) =>
                InWindow(note, last, n, w)
          /\ \A v, w : /\ v.screen \in Screens /\ w.screen \in Screens
                       /\ InWindow(shown, last, n, v) /\ InWindow(shown, last, n, w)
                       => /\ InTurn(shown, v, w) => InTurn(note, v, w)
                          /\ Ahead(shown, v, w) => Ahead(note, v, w)
      BY ONLY <1>2, <1>3, <1>4, <1>6, LineShown
    <2>2. /\ ready.screen \in Screens
          /\ \A i \in DOMAIN queue : queue[i].screen \in Screens
      BY ScreensFact DEF QueueInv
    <2>3. /\ Line(shown, last, n, queue)
          /\ announced => InWindow(shown, last, n, ready) /\ Leads(shown, ready, queue)
      BY DEF FlipInv, PacketsLine, n
    <2>4. Line(note, last, n, queue)
      BY ONLY <2>1, <2>2, <2>3 DEF Line
    <2>5. announced => InWindow(note, last, n, ready) /\ Leads(note, ready, queue)
      BY ONLY <2>1, <2>2, <2>3 DEF Line, Leads
    <2>6. QED
      BY <1>1, <1>2, <2>4, <2>5 DEF PacketsLine, queueVars
  <1>11. QED
    BY <1>8, <1>9, <1>10 DEF FlipInv

(* A frame drawn is the last flip, if it is not already.                      *)
LEMMA FlipDrawStep == ASSUME QueueInv, FlipInv, Draw PROVE FlipInv'
  <1>1. /\ UNCHANGED <<appVars, shown, queueVars, note, display>>
        /\ arm' = "loop" /\ arm = "draw"
    BY DEF Draw
  <1>2. Newest' = Newest /\ Newest \in Buffers
    BY <1>1, NewestFact DEF Newest, appVars, QueueInv
  <1>3. RoomForFlip'
    BY <1>1, <1>2 DEF FlipInv, RoomForFlip, appVars
  <1>4. /\ Line(shown, last, Newest, queue)
        /\ announced => InWindow(shown, last, Newest, ready) /\ Leads(shown, ready, queue)
        /\ InWindow(shown, last, Newest, wire) /\ Leads(shown, wire, queue)
        /\ announced => Ahead(shown, wire, ready)
        /\ FlipLine(shown, display, last, flips) /\ Pos(shown, last) <= Pos(shown, Newest)
    BY <1>1 DEF FlipInv, PacketsLine, FlipsLine
  <1>5. CASE UNCHANGED <<flips, last>>
    BY <1>1, <1>2, <1>3, <1>4, <1>5 DEF FlipInv, FlipsLine, PacketsLine, queueVars
  <1>6. CASE ~UNCHANGED <<flips, last>>
    <2> DEFINE b == wire.screen
    <2>1. /\ b # Sub /\ wire.end /\ b # last /\ last' = b /\ flips' = Append(flips, b)
      BY <1>6 DEF Draw, AddPendingFlip
    <2>2. /\ shown \in Buffers /\ last \in Buffers /\ b \in Buffers /\ display \in Buffers
          /\ flips \in Seq(Buffers) /\ ready.screen \in Screens
          /\ \A i \in DOMAIN queue : queue[i].screen \in Screens
          /\ \A s \in Screens : s # Sub => s \in Buffers
      BY <2>1, ScreensFact DEF QueueInv, TypeOK
    <2>3. /\ \A c \in Buffers : Pos(shown, c) \in 0..2
          /\ \A c, e \in Buffers : Pos(shown, c) = Pos(shown, e) => c = e
      BY <2>2, PosFact
    <2>4. Pos(shown, last) < Pos(shown, b) /\ Pos(shown, b) <= Pos(shown, Newest)
      <3>1. Pos(shown, last) <= Pos(shown, b) /\ Pos(shown, b) <= Pos(shown, Newest)
        BY <1>4, <2>1 DEF InWindow
      <3>2. QED
        BY ONLY <2>1, <2>2, <2>3, <3>1
    <2>5. \A w : w.screen \in Screens /\ InWindow(shown, last, Newest, w) /\ Ahead(shown, wire, w)
                   => InWindow(shown, b, Newest, w)
      <3> SUFFICES ASSUME NEW w, w.screen \in Screens, InWindow(shown, last, Newest, w),
                          Ahead(shown, wire, w), w.screen # Sub
                   PROVE  /\ Pos(shown, b) <= Pos(shown, w.screen)
                          /\ Pos(shown, w.screen) <= Pos(shown, Newest)
                          /\ w.hidden => Pos(shown, b) < Pos(shown, w.screen)
        BY DEF InWindow
      <3>1. w.screen \in Buffers /\ Pos(shown, b) <= Pos(shown, w.screen)
        BY <2>1, <2>2 DEF Ahead, InTurn
      <3>2. w.hidden => w.screen # b
        BY <2>1 DEF Ahead
      <3>3. w.hidden => Pos(shown, b) < Pos(shown, w.screen)
        BY ONLY <2>2, <2>3, <3>1, <3>2
      <3>4. QED
        BY <3>1, <3>3 DEF InWindow
    <2>6. /\ Line(shown, b, Newest, queue)
          /\ announced => InWindow(shown, b, Newest, ready)
      BY ONLY <1>4, <2>2, <2>5 DEF Line, Leads
    <2>7. PacketsLine'
      BY <1>1, <1>2, <1>4, <2>1, <2>6 DEF PacketsLine, queueVars
    <2>8. FlipLine(shown, display, b, Append(flips, b))
      <3> DEFINE t == Append(flips, b)
      <3>1. /\ DOMAIN t = 1..Len(flips) + 1 /\ DOMAIN flips = 1..Len(flips) /\ Len(flips) \in Nat
            /\ t[Len(flips) + 1] = b
            /\ \A i \in 1..Len(flips) : t[i] = flips[i] /\ flips[i] \in Buffers
        BY <2>2
      <3>2. /\ Pos(shown, display) <= Pos(shown, last)
            /\ \A i \in DOMAIN flips : /\ Pos(shown, display) < Pos(shown, flips[i])
                                       /\ Pos(shown, flips[i]) <= Pos(shown, last)
            /\ \A i, j \in DOMAIN flips : i < j => Pos(shown, flips[i]) < Pos(shown, flips[j])
        BY <1>4 DEF FlipLine
      <3>3. Pos(shown, b) \in 0..2 /\ Pos(shown, last) \in 0..2 /\ Pos(shown, display) \in 0..2
            /\ \A i \in 1..Len(flips) : Pos(shown, flips[i]) \in 0..2
        BY <2>2, <2>3, <3>1
      <3> HIDE DEF t, b
      <3>4. \A i \in DOMAIN t : /\ Pos(shown, display) < Pos(shown, t[i])
                                /\ Pos(shown, t[i]) <= Pos(shown, b)
        BY ONLY <2>4, <3>1, <3>2, <3>3
      <3>5. ASSUME NEW i \in DOMAIN t, NEW j \in DOMAIN t, i < j
            PROVE  Pos(shown, t[i]) < Pos(shown, t[j])
        <4>1. i \in 1..Len(flips)
          BY ONLY <3>1, <3>5
        <4>2. CASE j = Len(flips) + 1
          BY ONLY <2>4, <3>1, <3>2, <3>3, <4>1, <4>2
        <4>3. CASE j # Len(flips) + 1
          BY ONLY <3>1, <3>2, <3>5, <4>1, <4>3
        <4>4. QED
          BY <4>2, <4>3
      <3>6. Pos(shown, display) <= Pos(shown, b)
        BY ONLY <2>4, <3>2, <3>3
      <3>7. QED
        BY ONLY <3>4, <3>5, <3>6 DEF FlipLine, t
    <2>9. FlipsLine'
      BY <1>1, <1>2, <2>1, <2>4, <2>8 DEF FlipsLine
    <2>10. QED
      BY <1>3, <2>7, <2>9 DEF FlipInv
  <1>7. QED
    BY <1>5, <1>6

(* A flip, and the steps of the ARM9 that tell or ask.                        *)
LEMMA FlipArmStep ==
  ASSUME QueueInv, FlipInv, Tell \/ Ask \/ VBlank \/ UNCHANGED vars
  PROVE  FlipInv'
  <1>1. UNCHANGED <<appVars, shown, queueVars, wire, last>>
    BY DEF Tell, Ask, VBlank, vars, armVars
  <1>2. Newest' = Newest
    BY <1>1 DEF Newest, appVars
  <1>3. RoomForFlip'
    BY <1>1, <1>2 DEF FlipInv, RoomForFlip, appVars
  <1>4. (arm' = "draw" => arm = "draw") /\ (arm' = "ask" => announced)
    BY DEF Tell, Ask, VBlank, vars, armVars, FlipInv, PacketsLine
  <1>5. PacketsLine'
    BY <1>1, <1>2, <1>4 DEF FlipInv, PacketsLine, queueVars
  <1>6. CASE Tell
    <2>1. Pos(shown, display) <= Pos(shown, display)
      BY PosFact DEF QueueInv, TypeOK
    <2>2. QED
      BY <1>1, <1>2, <1>3, <1>5, <1>6, <2>1 DEF Tell, FlipInv, FlipsLine
  <1>7. CASE Ask \/ UNCHANGED vars
    BY <1>1, <1>2, <1>3, <1>5, <1>7 DEF Ask, vars, armVars, FlipInv, FlipsLine
  <1>8. CASE VBlank
    <2>1. /\ flips # <<>> /\ display' = Head(flips) /\ flips' = Tail(flips)
          /\ UNCHANGED <<arm, note>>
      BY <1>8 DEF VBlank
    <2>2. /\ flips \in Seq(Buffers) /\ shown \in Buffers /\ display \in Buffers
          /\ note \in Buffers
      BY DEF QueueInv, TypeOK
    <2>3. /\ Head(flips) = flips[1] /\ 1 \in DOMAIN flips /\ flips[1] \in Buffers
          /\ \A i \in DOMAIN Tail(flips) : /\ i + 1 \in DOMAIN flips /\ i \in Nat /\ 1 < i + 1
                                           /\ Tail(flips)[i] = flips[i + 1]
      BY <2>1, <2>2
    <2>4. FlipLine(shown, display, last, flips)
      BY DEF FlipInv, FlipsLine
    <2>5. FlipLine(shown, flips[1], last, Tail(flips))
      BY ONLY <2>3, <2>4 DEF FlipLine
    <2>6. Pos(shown, note) <= Pos(shown, display) => Pos(shown, note) <= Pos(shown, flips[1])
      <3>1. Pos(shown, display) < Pos(shown, flips[1])
        BY <2>3, <2>4 DEF FlipLine
      <3>2. Pos(shown, display) \in 0..2 /\ Pos(shown, flips[1]) \in 0..2
            /\ Pos(shown, note) \in 0..2
        BY <2>2, <2>3, PosFact
      <3>3. QED
        BY ONLY <3>1, <3>2
    <2>7. FlipsLine'
      BY <1>1, <1>2, <2>1, <2>3, <2>5, <2>6 DEF FlipInv, FlipsLine
    <2>8. QED
      BY <1>3, <1>5, <2>7 DEF FlipInv
  <1>9. QED
    BY <1>6, <1>7, <1>8

-----------------------------------------------------------------------------
(* What is still to be drawn.                                                 *)

Wired == IF arm = "draw" THEN <<wire>> ELSE <<>>
Prepared == IF announced THEN <<ready>> ELSE <<>>

(* The packets of the entry i of a queue q; of all entries.                   *)
PacketsAt(q, i) == IF i \in DOMAIN q THEN PacketsOf(q[i]) ELSE <<>>
AllPackets(q) == PacketsAt(q, 1) \o (PacketsAt(q, 2) \o (PacketsAt(q, 3) \o PacketsAt(q, 4)))

(* The packet with which k of the packets of pixels of e are left.            *)
PixelPacket(e, k) ==
    [screen |-> e.screen, body |-> IF e.palette THEN "indexed" ELSE "pixels", end |-> k = 1,
     copied |-> e.palette \/ k = 1, hidden |-> e.hidden, part |-> e.part]

LEMMA ConcatFact ==
  ASSUME NEW S
  PROVE  /\ <<>> \in Seq(S) /\ \A x \in S : <<x>> \in Seq(S)
         /\ \A a \in Seq(S) : <<>> \o a = a /\ a \o <<>> = a
         /\ \A a, b \in Seq(S) : a \o b \in Seq(S)
         /\ \A a, b, c \in Seq(S) : (a \o b) \o c = a \o (b \o c)
  OBVIOUS

LEMMA SameSequence ==
  ASSUME NEW S, NEW s \in Seq(S), NEW t \in Seq(S), Len(s) = Len(t),
         \A i \in 1..Len(s) : s[i] = t[i]
  PROVE  s = t
  OBVIOUS

(* What _video_dequeue leaves of an entry is the rest of its packets.         *)
LEMMA PacketsFact ==
  ASSUME NEW e \in Entries
  PROVE  /\ PacketsOf(e) \in Seq(Packets)
         /\ Remainder(e) = <<>> => PacketsOf(e) = <<HeadPacket(e)>>
         /\ \A r \in Entries : Remainder(e) = <<r>> =>
               PacketsOf(e) = <<HeadPacket(e)>> \o PacketsOf(r)
  <1> DEFINE Pixels(x) == [i \in 1..x.left |-> PixelPacket(x, x.left + 1 - i)]
  <1>1. ASSUME NEW x \in Entries
        PROVE  /\ \A k \in 1..FullScreen : PixelPacket(x, k) \in Packets
               /\ Pixels(x) \in Seq(Packets) /\ Len(Pixels(x)) = x.left
               /\ x.palette /\ ~x.paletteSent => PacketsOf(x) = <<HeadPacket(x)>> \o Pixels(x)
               /\ ~(x.palette /\ ~x.paletteSent) => PacketsOf(x) = Pixels(x)
                                                   /\ HeadPacket(x) = PixelPacket(x, x.left)
    <2>1. x.left \in 1..FullScreen /\ FullScreen \in Nat
      BY VideoAssumption DEF Entries
    <2>2. ASSUME NEW k \in 1..FullScreen
          PROVE  /\ PixelPacket(x, k) \in Packets
                 /\ HeadPacket([[x EXCEPT !.paletteSent = TRUE] EXCEPT !.left = k])
                       = PixelPacket(x, k)
      <3>1. /\ (k = 1) \in BOOLEAN /\ (x.palette \/ k = 1) \in BOOLEAN
            /\ (IF x.palette THEN "indexed" ELSE "pixels") \in {"palette", "indexed", "pixels"}
            /\ x.screen \in Screens /\ x.hidden \in BOOLEAN /\ x.part \in BOOLEAN
        BY DEF Entries
      <3>2. PixelPacket(x, k) \in Packets
        BY ONLY <3>1 DEF PixelPacket, Packets
      <3> DEFINE y == [[x EXCEPT !.paletteSent = TRUE] EXCEPT !.left = k]
      <3>3. /\ y.screen = x.screen /\ y.palette = x.palette /\ y.paletteSent = TRUE
            /\ y.left = k /\ y.hidden = x.hidden /\ y.part = x.part
        BY DEF Entries
      <3> HIDE DEF y
      <3>4. HeadPacket(y) = PixelPacket(x, k)
        BY <3>3 DEF HeadPacket, PixelPacket, Copied
      <3>5. QED
        BY <3>2, <3>4 DEF y
    <2>3. [i \in 1..x.left |->
              HeadPacket([[x EXCEPT !.paletteSent = TRUE] EXCEPT !.left = x.left + 1 - i])]
            = Pixels(x)
      <3>1. \A i \in 1..x.left : x.left + 1 - i \in 1..FullScreen
        BY <2>1
      <3>2. QED
        BY <2>2, <3>1
    <2>4. Pixels(x) \in Seq(Packets) /\ Len(Pixels(x)) = x.left
      <3>1. \A i \in 1..x.left : x.left + 1 - i \in 1..FullScreen
        BY <2>1
      <3>2. \A i \in 1..x.left : PixelPacket(x, x.left + 1 - i) \in Packets
        BY <2>2, <3>1
      <3>3. QED
        BY <2>1, <3>2
    <2>5. ASSUME x.palette /\ ~x.paletteSent PROVE PacketsOf(x) = <<HeadPacket(x)>> \o Pixels(x)
      BY ONLY <2>3, <2>5 DEF PacketsOf
    <2>6. ASSUME ~(x.palette /\ ~x.paletteSent)
          PROVE  PacketsOf(x) = Pixels(x) /\ HeadPacket(x) = PixelPacket(x, x.left)
      <3>1. PacketsOf(x) = <<>> \o Pixels(x)
        BY ONLY <2>3, <2>6 DEF PacketsOf
      <3> HIDE DEF Pixels
      <3>2. PacketsOf(x) = Pixels(x)
        BY ONLY <2>4, <3>1, ConcatFact
      <3>3. HeadPacket(x) = PixelPacket(x, x.left)
        BY ONLY <2>6 DEF HeadPacket, PixelPacket, Copied
      <3>4. QED
        BY <3>2, <3>3
    <2>7. QED
      BY <2>2, <2>4, <2>5, <2>6
  <1>2. e.left \in 1..FullScreen /\ FullScreen \in Nat /\ HeadPacket(e) \in Packets
    BY VideoAssumption, RemainderFact DEF Entries
  <1>3. CASE e.palette /\ ~e.paletteSent
    <2> DEFINE r == [e EXCEPT !.paletteSent = TRUE]
    <2>1. /\ r \in Entries /\ Remainder(e) = <<r>> /\ r.paletteSent /\ r.left = e.left
          /\ r.screen = e.screen /\ r.palette = e.palette /\ r.hidden = e.hidden
          /\ r.part = e.part
      BY <1>3 DEF Entries, Remainder
    <2> HIDE DEF r
    <2>2. Pixels(r) = Pixels(e)
      BY <2>1 DEF PixelPacket
    <2> HIDE DEF Pixels
    <2>3. PacketsOf(r) = Pixels(r)
      BY <1>1, <2>1
    <2>4. PacketsOf(e) = <<HeadPacket(e)>> \o PacketsOf(r)
      BY <1>1, <1>3, <2>2, <2>3
    <2>5. PacketsOf(e) \in Seq(Packets)
      <3>1. <<HeadPacket(e)>> \in Seq(Packets)
        BY <1>2
      <3>2. PacketsOf(r) \in Seq(Packets)
        BY <1>1, <2>1, <2>3
      <3>3. QED
        BY ONLY <2>4, <3>1, <3>2, ConcatFact
    <2>6. Remainder(e) # <<>> /\ \A x : Remainder(e) = <<x>> => x = r
      BY ONLY <2>1
    <2>7. QED
      BY <2>4, <2>5, <2>6
  <1>4. CASE ~(e.palette /\ ~e.paletteSent) /\ e.left > 1
    <2> DEFINE r == [e EXCEPT !.left = @ - 1]
    <2>1. /\ r \in Entries /\ Remainder(e) = <<r>> /\ ~(r.palette /\ ~r.paletteSent)
          /\ r.left = e.left - 1 /\ r.screen = e.screen /\ r.palette = e.palette
          /\ r.hidden = e.hidden /\ r.part = e.part
      BY <1>2, <1>4 DEF Entries, Remainder
    <2> HIDE DEF r
    <2>2. \A k : PixelPacket(r, k) = PixelPacket(e, k)
      BY <2>1 DEF PixelPacket
    <2>3. /\ PacketsOf(e) = Pixels(e) /\ HeadPacket(e) = PixelPacket(e, e.left)
          /\ PacketsOf(r) = Pixels(r) /\ Pixels(r) \in Seq(Packets) /\ Pixels(e) \in Seq(Packets)
          /\ Len(Pixels(r)) = r.left /\ Len(Pixels(e)) = e.left
      BY <1>1, <1>4, <2>1
    <2>4. /\ \A i \in 1..e.left : Pixels(e)[i] = PixelPacket(e, e.left + 1 - i)
          /\ \A i \in 1..e.left - 1 : Pixels(r)[i] = PixelPacket(e, e.left - i)
      BY <1>2, <2>1, <2>2
    <2> HIDE DEF Pixels
    <2>5. Pixels(e) = <<HeadPacket(e)>> \o Pixels(r)
      <3> DEFINE t == <<HeadPacket(e)>> \o Pixels(r)
      <3>1. t \in Seq(Packets) /\ Len(t) = e.left /\ t[1] = HeadPacket(e)
            /\ \A i \in 2..e.left : t[i] = Pixels(r)[i - 1]
        BY <1>2, <2>1, <2>3
      <3>2. /\ e.left + 1 - 1 = e.left /\ 1 \in 1..e.left
            /\ \A i \in 2..e.left : i - 1 \in 1..e.left - 1 /\ e.left - (i - 1) = e.left + 1 - i
                                     /\ i \in 1..e.left
            /\ \A i \in 1..e.left : i = 1 \/ i \in 2..e.left
        BY <1>2
      <3> HIDE DEF t
      <3>3. \A i \in 1..e.left : t[i] = Pixels(e)[i]
        BY ONLY <2>3, <2>4, <3>1, <3>2
      <3>4. QED
        <4>1. t \in Seq(Packets) /\ Pixels(e) \in Seq(Packets) /\ Len(t) = Len(Pixels(e))
              /\ \A i \in 1..Len(t) : t[i] = Pixels(e)[i]
          BY ONLY <2>3, <3>1, <3>3
        <4>2. t = Pixels(e)
          BY ONLY <4>1, SameSequence
        <4>3. QED
          BY <4>2 DEF t
    <2>6. Remainder(e) # <<>> /\ \A x : Remainder(e) = <<x>> => x = r
      BY ONLY <2>1
    <2>7. QED
      BY <2>3, <2>5, <2>6
  <1>5. CASE ~(e.palette /\ ~e.paletteSent) /\ ~(e.left > 1)
    <2>1. e.left = 1 /\ Remainder(e) = <<>>
      BY <1>2, <1>5 DEF Remainder
    <2>2. /\ PacketsOf(e) = Pixels(e) /\ HeadPacket(e) = PixelPacket(e, 1)
          /\ Pixels(e) \in Seq(Packets) /\ Len(Pixels(e)) = 1
      BY <1>1, <1>5, <2>1
    <2>3. Pixels(e)[1] = PixelPacket(e, 1)
      BY <2>1
    <2> HIDE DEF Pixels
    <2>4. Pixels(e) = <<HeadPacket(e)>>
      BY <2>2, <2>3
    <2>5. \A x : Remainder(e) # <<x>>
      BY ONLY <2>1
    <2>6. QED
      BY <2>1, <2>2, <2>4, <2>5
  <1>6. QED
    BY <1>3, <1>4, <1>5

(* There are four screens, and so never more entries.                         *)
LEMMA FourFact ==
  ASSUME NEW q \in Seq(Entries), NEW b, OneEach(q, b)
  PROVE  Len(q) <= 4
  <1>1. DOMAIN q = 1..Len(q) /\ Len(q) \in Nat /\ \A i \in 1..Len(q) : q[i] \in Entries
    OBVIOUS
  <1>2. \A i \in 1..Len(q) : q[i].screen \in 0..3
    BY <1>1 DEF Entries, Screens, Buffers, Sub
  <1>3. \A i, j \in 1..Len(q) : q[i].screen = q[j].screen => i = j
    BY <1>1 DEF OneEach
  <1>4. SUFFICES ASSUME Len(q) >= 5 PROVE FALSE
    BY <1>1
  <1> DEFINE s(i) == q[i].screen
  <1>5. 1 \in 1..Len(q) /\ 2 \in 1..Len(q) /\ 3 \in 1..Len(q) /\ 4 \in 1..Len(q)
        /\ 5 \in 1..Len(q)
    BY <1>1, <1>4
  <1>6. /\ s(1) \in 0..3 /\ s(2) \in 0..3 /\ s(3) \in 0..3 /\ s(4) \in 0..3 /\ s(5) \in 0..3
    BY ONLY <1>2, <1>5
  <1>7. /\ s(1) # s(2) /\ s(1) # s(3) /\ s(1) # s(4) /\ s(1) # s(5) /\ s(2) # s(3)
        /\ s(2) # s(4) /\ s(2) # s(5) /\ s(3) # s(4) /\ s(3) # s(5) /\ s(4) # s(5)
    BY ONLY <1>3, <1>5
  <1> HIDE DEF s
  <1>8. QED
    BY ONLY <1>6, <1>7

LEMMA PacketsAtFact ==
  ASSUME NEW q \in Seq(Entries), NEW i \in Nat
  PROVE  PacketsAt(q, i) \in Seq(Packets)
  <1>1. CASE i \in DOMAIN q
    <2>1. q[i] \in Entries
      BY <1>1
    <2>2. QED
      BY <1>1, <2>1, PacketsFact DEF PacketsAt
  <1>2. CASE i \notin DOMAIN q
    BY <1>2 DEF PacketsAt
  <1>3. QED
    BY <1>1, <1>2

LEMMA AllPacketsFact == ASSUME NEW q \in Seq(Entries) PROVE AllPackets(q) \in Seq(Packets)
  <1>1. /\ PacketsAt(q, 1) \in Seq(Packets) /\ PacketsAt(q, 2) \in Seq(Packets)
        /\ PacketsAt(q, 3) \in Seq(Packets) /\ PacketsAt(q, 4) \in Seq(Packets)
    BY PacketsAtFact
  <1>2. QED
    BY ONLY <1>1, ConcatFact DEF AllPackets

LEMMA AllDequeued ==
  ASSUME NEW q \in Seq(Entries), q # <<>>, Len(q) <= 4
  PROVE  AllPackets(q) = <<HeadPacket(Head(q))>> \o AllPackets(Remainder(Head(q)) \o Tail(q))
  <1> DEFINE e == q[1]
             t == Remainder(e) \o Tail(q)
             h == <<HeadPacket(e)>>
  <1>1. /\ e \in Entries /\ Head(q) = e /\ Len(q) \in Nat /\ Len(q) >= 1
        /\ DOMAIN q = 1..Len(q)
    OBVIOUS
  <1>2. Tail(q) \in Seq(Entries) /\ Len(Tail(q)) = Len(q) - 1
        /\ \A i \in 1..Len(q) - 1 : Tail(q)[i] = q[i + 1]
    BY <1>1
  <1>3. h \in Seq(Packets) /\ PacketsAt(q, 1) = PacketsOf(e)
    BY <1>1, RemainderFact DEF PacketsAt
  <1>4. /\ PacketsAt(q, 2) \in Seq(Packets) /\ PacketsAt(q, 3) \in Seq(Packets)
        /\ PacketsAt(q, 4) \in Seq(Packets)
    BY PacketsAtFact
  <1>5. CASE Remainder(e) = <<>>
    <2>1. t = Tail(q)
      BY <1>2, <1>5
    <2>2. t \in Seq(Entries) /\ DOMAIN t = 1..Len(q) - 1 /\ \A i \in 1..Len(q) - 1 : t[i] = q[i + 1]
      <3>1. DOMAIN Tail(q) = 1..Len(q) - 1
        BY <1>2
      <3>2. QED
        BY ONLY <1>2, <2>1, <3>1
    <2> HIDE DEF t
    <2>3. /\ PacketsAt(t, 1) = PacketsAt(q, 2) /\ PacketsAt(t, 2) = PacketsAt(q, 3)
          /\ PacketsAt(t, 3) = PacketsAt(q, 4) /\ PacketsAt(t, 4) = <<>>
      <3>1. /\ 1 \in DOMAIN t <=> 2 \in DOMAIN q
            /\ 2 \in DOMAIN t <=> 3 \in DOMAIN q
            /\ 3 \in DOMAIN t <=> 4 \in DOMAIN q
            /\ 4 \notin DOMAIN t
        BY <1>1, <2>2
      <3>2. /\ 1 \in DOMAIN t => t[1] = q[2]
            /\ 2 \in DOMAIN t => t[2] = q[3]
            /\ 3 \in DOMAIN t => t[3] = q[4]
        BY <1>1, <2>2
      <3>3. QED
        BY ONLY <3>1, <3>2 DEF PacketsAt
    <2>4. PacketsOf(e) = h
      BY <1>1, <1>5, PacketsFact
    <2> HIDE DEF h
    <2>5. AllPackets(q) = h \o AllPackets(t)
      <3>1. PacketsAt(q, 4) \o <<>> = PacketsAt(q, 4)
        BY <1>4, ConcatFact
      <3>2. QED
        BY ONLY <1>3, <2>3, <2>4, <3>1 DEF AllPackets
    <2>6. QED
      BY <1>1, <2>5 DEF t, h
  <1>6. CASE Remainder(e) # <<>>
    <2>1. PICK r \in Entries : Remainder(e) = <<r>>
      BY <1>1, <1>6, RemainderFact
    <2>2. t \in Seq(Entries) /\ DOMAIN t = DOMAIN q /\ t[1] = r
          /\ \A i \in DOMAIN q : i # 1 => t[i] = q[i]
      BY <1>1, <1>2, <2>1
    <2> HIDE DEF t
    <2>3. /\ PacketsAt(t, 1) = PacketsOf(r) /\ PacketsAt(t, 2) = PacketsAt(q, 2)
          /\ PacketsAt(t, 3) = PacketsAt(q, 3) /\ PacketsAt(t, 4) = PacketsAt(q, 4)
      BY <1>1, <2>2 DEF PacketsAt
    <2>4. PacketsOf(e) = h \o PacketsOf(r) /\ PacketsOf(r) \in Seq(Packets)
      BY <1>1, <2>1, PacketsFact
    <2> HIDE DEF h
    <2>5. AllPackets(q) = h \o AllPackets(t)
      <3> DEFINE u == PacketsAt(q, 2) \o (PacketsAt(q, 3) \o PacketsAt(q, 4))
      <3>1. u \in Seq(Packets)
        BY ONLY <1>4, ConcatFact
      <3>2. AllPackets(q) = (h \o PacketsOf(r)) \o u /\ AllPackets(t) = PacketsOf(r) \o u
        BY ONLY <1>3, <2>3, <2>4 DEF AllPackets
      <3> HIDE DEF u
      <3>3. QED
        BY ONLY <1>3, <2>4, <3>1, <3>2, ConcatFact
    <2>6. QED
      BY <1>1, <2>5 DEF t, h
  <1>7. QED
    BY <1>5, <1>6

Together(a, b, c, d) == (a \o (b \o c)) \o d = a \o (b \o (c \o d))

LEMMA FourTogether == \A a, b, c, d \in Seq(Packets) : Together(a, b, c, d)
  <1> SUFFICES ASSUME NEW a \in Seq(Packets), NEW b \in Seq(Packets), NEW c \in Seq(Packets),
                      NEW d \in Seq(Packets)
               PROVE  (a \o (b \o c)) \o d = a \o (b \o (c \o d))
    BY DEF Together
  <1> DEFINE u == b \o c
  <1>1. \A x, y, z \in Seq(Packets) : (x \o y) \o z = x \o (y \o z)
    BY ConcatFact
  <1>2. u \in Seq(Packets)
    BY ConcatFact
  <1>3. u \o d = b \o (c \o d)
    BY ONLY <1>1, b \in Seq(Packets), c \in Seq(Packets), d \in Seq(Packets), Zenon
  <1> HIDE DEF u
  <1>4. (a \o u) \o d = a \o (u \o d)
    BY ONLY <1>1, <1>2, a \in Seq(Packets), d \in Seq(Packets), Zenon
  <1>5. (a \o u) \o d = a \o (b \o (c \o d))
    BY ONLY <1>3, <1>4, Zenon
  <1>6. QED
    BY <1>5 DEF u

LEMMA AllAppended ==
  ASSUME NEW q \in Seq(Entries), NEW e \in Entries, Len(q) <= 3
  PROVE  AllPackets(Append(q, e)) = AllPackets(q) \o PacketsOf(e)
  <1> DEFINE t == Append(q, e)
             p == PacketsOf(e)
             P(i) == PacketsAt(q, i)
  <1>1. /\ Len(q) \in 0..3 /\ DOMAIN q = 1..Len(q) /\ DOMAIN t = 1..Len(q) + 1
        /\ t[Len(q) + 1] = e /\ \A i \in 1..Len(q) : t[i] = q[i]
    <2>1. Len(q) \in Nat /\ t \in Seq(Entries) /\ Len(t) = Len(q) + 1
      OBVIOUS
    <2>2. DOMAIN q = 1..Len(q) /\ DOMAIN t = 1..Len(q) + 1
      BY <2>1
    <2>3. t[Len(q) + 1] = e /\ \A i \in 1..Len(q) : t[i] = q[i]
      OBVIOUS
    <2>4. QED
      BY <2>1, <2>2, <2>3
  <1>2. /\ P(1) \in Seq(Packets) /\ P(2) \in Seq(Packets) /\ P(3) \in Seq(Packets)
        /\ P(4) \in Seq(Packets)
    BY PacketsAtFact
  <1>3. p \in Seq(Packets)
    BY PacketsFact
  <1> HIDE DEF t, p
  <1>4. /\ \A i \in 1..4 : i <= Len(q) => PacketsAt(t, i) = P(i)
        /\ \A i \in 1..4 : i = Len(q) + 1 => PacketsAt(t, i) = p
        /\ \A i \in 1..4 : i > Len(q) => P(i) = <<>>
        /\ \A i \in 1..4 : i > Len(q) + 1 => PacketsAt(t, i) = <<>>
    BY <1>1 DEF PacketsAt, p
  <1> HIDE DEF P
  <1>5. CASE Len(q) = 0
    <2>1. /\ PacketsAt(t, 1) = p /\ PacketsAt(t, 2) = <<>> /\ PacketsAt(t, 3) = <<>>
          /\ PacketsAt(t, 4) = <<>>
          /\ P(1) = <<>> /\ P(2) = <<>> /\ P(3) = <<>> /\ P(4) = <<>>
      BY ONLY <1>4, <1>5
    <2>2. QED
      BY ONLY <1>3, <2>1, ConcatFact DEF AllPackets, P, t, p
  <1>6. CASE Len(q) = 1
    <2>1. /\ PacketsAt(t, 1) = P(1) /\ PacketsAt(t, 2) = p /\ PacketsAt(t, 3) = <<>>
          /\ PacketsAt(t, 4) = <<>>
          /\ P(2) = <<>> /\ P(3) = <<>> /\ P(4) = <<>>
      BY ONLY <1>4, <1>6
    <2>2. AllPackets(t) = P(1) \o p /\ AllPackets(q) = P(1)
      <3>1. /\ \A a \in Seq(Packets) : a \o <<>> = a
            /\ <<>> \in Seq(Packets)
        BY ConcatFact
      <3>2. QED
        BY ONLY <1>2, <1>3, <2>1, <3>1 DEF AllPackets, P
    <2>3. QED
      BY ONLY <2>2 DEF t, p
  <1>7. CASE Len(q) = 2
    <2>1. /\ PacketsAt(t, 1) = P(1) /\ PacketsAt(t, 2) = P(2) /\ PacketsAt(t, 3) = p
          /\ PacketsAt(t, 4) = <<>>
          /\ P(3) = <<>> /\ P(4) = <<>>
      BY ONLY <1>4, <1>7
    <2>2. AllPackets(t) = P(1) \o (P(2) \o p) /\ AllPackets(q) = P(1) \o P(2)
      <3>1. /\ \A a \in Seq(Packets) : a \o <<>> = a
            /\ <<>> \in Seq(Packets)
        BY ConcatFact
      <3>2. QED
        BY ONLY <1>2, <1>3, <2>1, <3>1 DEF AllPackets, P
    <2>3. (P(1) \o P(2)) \o p = P(1) \o (P(2) \o p)
      <3>1. \A x, y, z \in Seq(Packets) : (x \o y) \o z = x \o (y \o z)
        BY ConcatFact
      <3>2. QED
        BY ONLY <1>2, <1>3, <3>1
    <2>4. QED
      BY ONLY <2>2, <2>3 DEF t, p
  <1>8. CASE Len(q) = 3
    <2>1. /\ PacketsAt(t, 1) = P(1) /\ PacketsAt(t, 2) = P(2) /\ PacketsAt(t, 3) = P(3)
          /\ PacketsAt(t, 4) = p
          /\ P(4) = <<>>
      BY ONLY <1>4, <1>8
    <2>2. AllPackets(t) = P(1) \o (P(2) \o (P(3) \o p)) /\ AllPackets(q) = P(1) \o (P(2) \o P(3))
      <3>1. /\ \A a \in Seq(Packets) : a \o <<>> = a
            /\ <<>> \in Seq(Packets)
        BY ConcatFact
      <3>2. QED
        BY ONLY <1>2, <1>3, <2>1, <3>1 DEF AllPackets, P
    <2>3. (P(1) \o (P(2) \o P(3))) \o p = P(1) \o (P(2) \o (P(3) \o p))
      <3>1. Together(P(1), P(2), P(3), p)
        BY ONLY <1>2, <1>3, FourTogether
      <3>2. QED
        BY <3>1 DEF Together
    <2>4. QED
      BY ONLY <2>2, <2>3 DEF t, p
  <1>9. QED
    BY <1>1, <1>5, <1>6, <1>7, <1>8

LEMMA UndrawnFact ==
  ASSUME TypeOK, announced => ready \in Packets, arm = "draw" => wire \in Packets
  PROVE  /\ Wired \in Seq(Packets) /\ Prepared \in Seq(Packets)
         /\ AllPackets(queue) \in Seq(Packets)
         /\ Undrawn = Wired \o (Prepared \o AllPackets(queue)) /\ Undrawn \in Seq(Packets)
  <1>1. Wired \in Seq(Packets) /\ Prepared \in Seq(Packets)
    BY DEF Wired, Prepared
  <1>2. /\ PacketsAt(queue, 1) \in Seq(Packets) /\ PacketsAt(queue, 2) \in Seq(Packets)
        /\ PacketsAt(queue, 3) \in Seq(Packets) /\ PacketsAt(queue, 4) \in Seq(Packets)
        /\ AllPackets(queue) \in Seq(Packets)
    BY PacketsAtFact, AllPacketsFact DEF TypeOK
  <1>3. Undrawn = ((((Wired \o Prepared) \o PacketsAt(queue, 1)) \o PacketsAt(queue, 2))
                   \o PacketsAt(queue, 3)) \o PacketsAt(queue, 4)
    BY DEF Undrawn, Queued, PacketsAt, Wired, Prepared
  <1> DEFINE a == PacketsAt(queue, 1)
             b == PacketsAt(queue, 2)
             c == PacketsAt(queue, 3)
             d == PacketsAt(queue, 4)
  <1>4. /\ a \in Seq(Packets) /\ b \in Seq(Packets) /\ c \in Seq(Packets) /\ d \in Seq(Packets)
        /\ AllPackets(queue) = a \o (b \o (c \o d))
        /\ Undrawn = ((((Wired \o Prepared) \o a) \o b) \o c) \o d
    BY <1>2, <1>3 DEF AllPackets
  <1> HIDE DEF a, b, c, d
  <1>5. \A x, y \in Seq(Packets) : x \o y \in Seq(Packets)
    BY ConcatFact
  <1>6. \A x, y, z \in Seq(Packets) : (x \o y) \o z = x \o (y \o z)
    BY ConcatFact
  <1> DEFINE w == Wired \o Prepared
  <1>7. w \in Seq(Packets) /\ Undrawn = (((w \o a) \o b) \o c) \o d
    BY <1>1, <1>4, <1>5
  <1>8. w \o AllPackets(queue) = Wired \o (Prepared \o AllPackets(queue))
    BY <1>1, <1>2, <1>6
  <1> HIDE DEF w
  <1>9. ((w \o a) \o b) \o c = w \o (a \o (b \o c))
    <2>1. (w \o a) \o b = w \o (a \o b) /\ a \o b \in Seq(Packets)
      BY ONLY <1>4, <1>5, <1>6, <1>7
    <2>2. (w \o (a \o b)) \o c = w \o ((a \o b) \o c)
      BY ONLY <1>4, <1>6, <1>7, <2>1
    <2>3. (a \o b) \o c = a \o (b \o c)
      BY ONLY <1>4, <1>6
    <2>4. QED
      BY ONLY <2>1, <2>2, <2>3
  <1>10. (w \o (a \o (b \o c))) \o d = w \o ((a \o (b \o c)) \o d)
    <2> DEFINE u == a \o (b \o c)
    <2>1. b \o c \in Seq(Packets)
      BY ONLY <1>4, <1>5
    <2>2. u \in Seq(Packets)
      BY ONLY <1>4, <1>5, <2>1
    <2> HIDE DEF u
    <2>3. (w \o u) \o d = w \o (u \o d)
      BY ONLY <1>4, <1>6, <1>7, <2>2
    <2>4. QED
      BY <2>3 DEF u
  <1>11. (a \o (b \o c)) \o d = a \o (b \o (c \o d))
    <2>1. a \in Seq(Packets) /\ b \in Seq(Packets) /\ c \in Seq(Packets) /\ d \in Seq(Packets)
      BY ONLY <1>4
    <2>2. Together(a, b, c, d)
      BY ONLY <2>1, FourTogether
    <2>3. QED
      BY <2>2 DEF Together
  <1>12. Undrawn = w \o AllPackets(queue)
    BY ONLY <1>4, <1>7, <1>9, <1>10, <1>11
  <1>13. QED
    BY <1>1, <1>2, <1>5, <1>7, <1>8, <1>12

LEMMA ExtendsFact ==
  ASSUME NEW S, NEW s \in Seq(S), NEW t \in Seq(S)
  PROVE  Extends(s \o t, s) /\ Extends(s, s)
  <1>1. ASSUME NEW u \in Seq(S), Len(s) <= Len(u), \A i \in 1..Len(s) : u[i] = s[i]
        PROVE  Extends(u, s)
    <2>1. SubSeq(u, 1, Len(s)) \in Seq(S) /\ Len(SubSeq(u, 1, Len(s))) = Len(s)
          /\ \A i \in 1..Len(s) : SubSeq(u, 1, Len(s))[i] = s[i]
      BY <1>1
    <2>2. SubSeq(u, 1, Len(s)) = s
      BY ONLY <2>1, s \in Seq(S), SameSequence
    <2>3. QED
      BY <1>1, <2>2 DEF Extends
  <1>2. s \o t \in Seq(S) /\ Len(s) <= Len(s \o t) /\ \A i \in 1..Len(s) : (s \o t)[i] = s[i]
    OBVIOUS
  <1>3. Len(s) <= Len(s)
    OBVIOUS
  <1>4. QED
    BY <1>1, <1>2, <1>3

(* A step of drawing: all is as it was, or added to, or the first packet is   *)
(* taken.                                                                     *)
Drawn == Extends(Undrawn', Undrawn) \/ (Undrawn # <<>> /\ Undrawn' = Tail(Undrawn))

(* What has been made ready, or asked for, is a packet.                       *)
PacketsKnown ==
    /\ announced => ready \in Packets
    /\ arm = "draw" => wire \in Packets
    /\ arm = "ask" => announced

LEMMA KnownStep == ASSUME QueueInv, PacketsKnown, [Next]_vars PROVE PacketsKnown'
  <1> USE DEF PacketsKnown
  <1>1. ASSUME NEW q \in Seq(Entries), NEW b, q # <<>>, Dequeue(q, b)
        PROVE  announced' /\ ready' \in Packets
    <2>1. Head(q) \in Entries
      BY <1>1
    <2>2. QED
      BY <1>1, <2>1, RemainderFact DEF Dequeue
  <1>2. CASE SendVideo
    <2>1. queue \in Seq(Entries)
      BY DEF QueueInv, TypeOK
    <2>2. QED
      BY <1>1, <1>2, <2>1 DEF SendVideo
  <1>3. ASSUME NEW palette \in BOOLEAN, NEW rows \in 1..FullScreen, Enqueue(palette, rows)
        PROVE  PacketsKnown'
    <2> DEFINE whole == call.whole \/ wasPal[current] \/ palette
               entry == [screen |-> Target(call),
                         left |-> IF whole THEN FullScreen ELSE rows,
                         palette |-> palette, paletteSent |-> FALSE,
                         hidden |-> call.screen = "main" /\ wasFlip,
                         part |-> ~whole]
               tail == Append(queue, entry)
    <2>1. call \in Calls /\ Target(call) \in Screens
      BY <1>3 DEF QueueInv, TargetIsFree, Enqueue, TypeOK, Target, Screens, Sub
    <2>2. entry \in Entries
      BY <2>1, VideoAssumption DEF Entries, Calls, QueueInv, TypeOK
    <2>3. tail \in Seq(Entries) /\ tail # <<>>
      BY <2>2 DEF QueueInv, TypeOK
    <2>4. /\ UNCHANGED armVars
          /\ Dequeue(tail, busy \cup {entry.screen}) \/ UNCHANGED <<ready, announced>>
      BY <1>3 DEF Enqueue
    <2> HIDE DEF tail, entry
    <2>5. CASE Dequeue(tail, busy \cup {entry.screen})
      BY <1>1, <2>3, <2>4, <2>5 DEF armVars
    <2>6. CASE UNCHANGED <<ready, announced>>
      BY <2>4, <2>6 DEF armVars
    <2>7. QED
      BY <2>4, <2>5, <2>6
  <1>4. CASE (\E c \in Calls : Call(c)) \/ NotBusy \/ NotShown \/ UNCHANGED vars
    BY <1>4 DEF Call, NotBusy, NotShown, vars, queueVars, armVars
  <1>5. CASE Displayed \/ Tell \/ Ask \/ Draw \/ VBlank
    BY <1>5 DEF Displayed, Tell, Ask, Draw, VBlank, queueVars
  <1>6. QED
    BY <1>2, <1>3, <1>4, <1>5 DEF Next, AppStep, MipsIrq, ArmStep

UndrawnIs == Undrawn = Wired \o (Prepared \o AllPackets(queue))

LEMMA UndrawnNext == TypeOK' /\ PacketsKnown' => UndrawnIs'
  <1>1. TypeOK /\ PacketsKnown => UndrawnIs
    BY UndrawnFact DEF PacketsKnown, UndrawnIs
  <1>2. QED
    BY <1>1, PTL

LEMMA UndrawnSame ==
  ASSUME TypeOK, PacketsKnown, UNCHANGED <<queue, ready, announced>>, UNCHANGED Wired
  PROVE  Drawn
  <1>1. Undrawn \in Seq(Packets)
    BY UndrawnFact DEF PacketsKnown
  <1>2. Undrawn' = Undrawn
    BY DEF Undrawn, Queued, Wired
  <1>3. Extends(Undrawn, Undrawn)
    BY <1>1, ExtendsFact
  <1>4. QED
    BY <1>2, <1>3 DEF Drawn

LEMMA DrawnStep == ASSUME Patient, QueueInv, QueueInv', PacketsKnown, PacketsKnown', [Next]_vars
                   PROVE  Drawn
  <1> USE DEF PacketsKnown
  <1> DEFINE A == AllPackets(queue)
             U == Undrawn
  <1>1. TypeOK /\ TypeOK' /\ OneEach(queue, busy) /\ queue \in Seq(Entries) /\ Len(queue) <= 4
    <2>1. TypeOK /\ TypeOK' /\ OneEach(queue, busy) /\ queue \in Seq(Entries)
      BY DEF QueueInv, OneEntryPerScreen, OneEach, TypeOK
    <2>2. QED
      BY <2>1, FourFact
  <1>2. /\ Wired \in Seq(Packets) /\ Prepared \in Seq(Packets) /\ A \in Seq(Packets)
        /\ U = Wired \o (Prepared \o A) /\ U \in Seq(Packets)
    BY <1>1, UndrawnFact
  <1>3. U' = Wired' \o (Prepared' \o AllPackets(queue'))
    <2>1. UndrawnIs'
      BY <1>1, UndrawnNext
    <2>2. QED
      BY <2>1 DEF UndrawnIs, AllPackets, PacketsAt, PacketsOf
  <1> HIDE DEF U, A
  <1>4. CASE SendVideo
    <2>1. announced /\ Wired = <<>> /\ Prepared = <<ready>> /\ Wired' = <<ready>>
          /\ ready \in Packets
      BY <1>4 DEF SendVideo, Wired, Prepared
    <2>2. U = <<ready>> \o A
      BY ONLY <1>2, <2>1, ConcatFact
    <2>3. Prepared' \o AllPackets(queue') = A
      <3>1. CASE queue = <<>>
        <4>1. Prepared' = <<>> /\ queue' = queue
          BY <1>4, <3>1 DEF SendVideo, Prepared
        <4>2. QED
          BY ONLY <1>2, <4>1, ConcatFact DEF A
      <3>2. CASE queue # <<>>
        <4>1. /\ announced' /\ ready' = HeadPacket(Head(queue))
              /\ queue' = Remainder(Head(queue)) \o Tail(queue)
          BY <1>4, <3>2 DEF SendVideo, Dequeue
        <4>2. Prepared' = <<HeadPacket(Head(queue))>>
          BY <4>1 DEF Prepared
        <4>3. QED
          BY ONLY <1>1, <3>2, <4>1, <4>2, AllDequeued DEF A
      <3>3. QED
        BY <3>1, <3>2
    <2>4. U' = U
      BY ONLY <1>3, <2>1, <2>2, <2>3
    <2>5. QED
      BY <1>2, <2>4, ExtendsFact DEF Drawn, U
  <1>5. CASE Draw
    <2>1. Wired = <<wire>> /\ Wired' = <<>> /\ wire \in Packets /\ Prepared' = Prepared
          /\ queue' = queue
      BY <1>5 DEF Draw, Wired, Prepared, queueVars
    <2> DEFINE R == Prepared \o A
    <2>2. R \in Seq(Packets)
      BY ONLY <1>2, ConcatFact
    <2>3. U = <<wire>> \o R /\ U' = <<>> \o R
      BY ONLY <1>2, <1>3, <2>1 DEF A
    <2> HIDE DEF R
    <2>4. U' = R
      BY ONLY <2>2, <2>3, ConcatFact
    <2>5. U # <<>> /\ Tail(U) = R
      BY ONLY <2>1, <2>2, <2>3
    <2>6. QED
      BY <2>4, <2>5 DEF Drawn, U
  <1>6. ASSUME NEW palette \in BOOLEAN, NEW rows \in 1..FullScreen, Enqueue(palette, rows)
        PROVE  Drawn
    <2> DEFINE whole == call.whole \/ wasPal[current] \/ palette
               entry == [screen |-> Target(call),
                         left |-> IF whole THEN FullScreen ELSE rows,
                         palette |-> palette, paletteSent |-> FALSE,
                         hidden |-> call.screen = "main" /\ wasFlip,
                         part |-> ~whole]
               tail == Append(queue, entry)
    <2>1. call \in Calls /\ Target(call) \in Screens /\ Target(call) \notin busy
      BY <1>6 DEF QueueInv, TargetIsFree, Enqueue, TypeOK, Target, Screens, Sub
    <2>2. entry \in Entries /\ entry.screen \notin busy
      BY <2>1, VideoAssumption DEF Entries, Calls, QueueInv, TypeOK
    <2>3. /\ UNCHANGED armVars /\ (~announced \/ queue # <<>>)
          /\ IF Len(tail) = 1 THEN Dequeue(tail, busy \cup {entry.screen})
             ELSE queue' = tail /\ UNCHANGED <<ready, announced>>
      BY <1>6 DEF Enqueue
    <2> HIDE DEF entry
    <2>4. busy \in SUBSET Screens
      BY <1>1 DEF TypeOK
    <2>5. /\ tail \in Seq(Entries) /\ tail # <<>> /\ Len(tail) = Len(queue) + 1
          /\ Len(queue) \in Nat /\ (Len(queue) = 0 <=> queue = <<>>)
      BY <1>1, <2>2
    <2>6. Len(tail) <= 4
      <3>1. OneEach(tail, busy \cup {entry.screen})
        BY ONLY <1>1, <2>2, <2>4, AppendKeeps
      <3>2. QED
        BY ONLY <2>5, <3>1, FourFact
    <2> DEFINE p == PacketsOf(entry)
    <2>7. AllPackets(tail) = A \o p /\ p \in Seq(Packets)
      <3>1. Len(queue) <= 3
        BY <2>5, <2>6
      <3>2. QED
        BY <1>1, <2>2, <3>1, AllAppended, PacketsFact DEF A
    <2> HIDE DEF tail, p
    <2>8. Wired' = Wired
      BY <2>3 DEF Wired, armVars
    <2>9. Prepared' \o AllPackets(queue') = Prepared \o (A \o p)
      <3>1. CASE Len(tail) = 1
        <4>1. /\ announced' /\ ready' = HeadPacket(Head(tail))
              /\ queue' = Remainder(Head(tail)) \o Tail(tail)
          BY <2>3, <3>1 DEF Dequeue
        <4>2. queue = <<>> /\ ~announced
          <5>1. Len(queue) = 0
            <6>1. \A n \in Nat : 1 = n + 1 => n = 0
              OBVIOUS
            <6>2. Len(queue) \in Nat /\ 1 = Len(queue) + 1
              BY ONLY <2>5, <3>1
            <6>3. QED
              BY ONLY <6>1, <6>2
          <5>2. queue = <<>>
            BY ONLY <2>5, <5>1
          <5>3. QED
            BY ONLY <2>3, <5>2
        <4>3. Prepared' = <<HeadPacket(Head(tail))>> /\ Prepared = <<>>
          BY <4>1, <4>2 DEF Prepared
        <4>4. Prepared' \o AllPackets(queue') = A \o p
          BY ONLY <2>5, <2>6, <2>7, <4>1, <4>3, AllDequeued
        <4>5. A \o p \in Seq(Packets)
          BY ONLY <1>2, <2>7, ConcatFact
        <4>6. <<>> \o (A \o p) = A \o p
          BY ONLY <4>5, ConcatFact
        <4>7. QED
          BY ONLY <4>3, <4>4, <4>6
      <3>2. CASE Len(tail) # 1
        <4>1. queue' = tail /\ Prepared' = Prepared
          BY <2>3, <3>2 DEF Prepared
        <4>2. QED
          BY ONLY <2>7, <4>1
      <3>3. QED
        BY <3>1, <3>2
    <2>10. U' = U \o p
      <3> DEFINE w == Wired
                 r == Prepared
      <3>1. U' = w \o (r \o (A \o p)) /\ U = w \o (r \o A) /\ w \in Seq(Packets)
            /\ r \in Seq(Packets) /\ A \in Seq(Packets) /\ p \in Seq(Packets)
        BY ONLY <1>2, <1>3, <2>7, <2>8, <2>9
      <3>2. \A x, y, z \in Seq(Packets) : (x \o y) \o z = x \o (y \o z)
        BY ConcatFact
      <3> DEFINE u == r \o A
      <3>3. u \in Seq(Packets)
        BY ONLY <3>1, ConcatFact
      <3>4. u \o p = r \o (A \o p)
        BY ONLY <3>1, <3>2
      <3>5. U = w \o u
        BY <3>1
      <3> HIDE DEF u, w, r
      <3>6. (w \o u) \o p = w \o (u \o p)
        BY ONLY <3>1, <3>2, <3>3
      <3>7. QED
        BY ONLY <3>1, <3>4, <3>5, <3>6
    <2>11. Extends(U \o p, U)
      BY ONLY <1>2, <2>7, ExtendsFact
    <2>12. QED
      BY <2>10, <2>11 DEF Drawn, U
  <1>7. CASE (\E c \in Calls : Call(c)) \/ NotBusy \/ NotShown \/ UNCHANGED vars
    <2>1. UNCHANGED <<queue, ready, announced>> /\ UNCHANGED Wired
      BY <1>7 DEF Call, NotBusy, NotShown, vars, queueVars, armVars, Wired
    <2>2. QED
      BY <1>1, <2>1, UndrawnSame
  <1>8. CASE Displayed \/ Tell \/ Ask \/ VBlank
    <2>1. UNCHANGED <<queue, ready, announced>> /\ UNCHANGED Wired
      BY <1>8 DEF Displayed, Tell, Ask, VBlank, queueVars, Wired
    <2>2. QED
      BY <1>1, <2>1, UndrawnSame
  <1>9. QED
    BY <1>4, <1>5, <1>6, <1>7, <1>8 DEF Next, AppStep, MipsIrq, ArmStep

-----------------------------------------------------------------------------
(* The theorems.                                                              *)

(* The inductive invariant of the queue, for screens of any size and          *)
(* applications of any kind.                                                  *)
THEOREM QueueInvariant == Spec => []QueueInv
  <1>1. QueueInv /\ [Next]_vars => QueueInv'
    BY CallStep, EnqueueStep, SendVideoStep, OtherStep DEF Next, AppStep, MipsIrq, ArmStep
  <1>2. QED
    BY InitInv, <1>1, PTL DEF Spec

(* The variables of the queue keep their types (video_enqueue,                *)
(* _video_dequeue, and the ARM9's handling of a packet).                      *)
THEOREM VideoTypes == Spec => []TypeOK
  <1>1. QueueInv => TypeOK
    BY DEF QueueInv
  <1>2. QED
    BY QueueInvariant, <1>1, PTL

(* vid_queue, which video_enqueue appends to without a test, never holds a    *)
(* screen twice: one entry per screen is enough.                              *)
THEOREM QueueFits == Spec => []OneEntryPerScreen
  <1>1. QueueInv => OneEntryPerScreen
    BY DEF QueueInv
  <1>2. QED
    BY QueueInvariant, <1>1, PTL

(* A packet to be sent straight from a screen buffer belongs to a busy        *)
(* screen, which the application may not write to (_video_dequeue).           *)
THEOREM SourcesAreBusy == Spec => []SourceIsBusy
  <1>1. QueueInv => SourceIsBusy
    BY DEF QueueInv
  <1>2. QED
    BY QueueInvariant, <1>1, PTL

(* The order of frames, from the one that the MIPS knows to be displayed to   *)
(* the newest, holds for screens of any size and whatever the application     *)
(* does, even when a frame gets lost underway.                                *)
THEOREM FlipInvariant == Spec => []FlipInv
  <1>1. Init => FlipInv
    BY DEF Init, FlipInv, RoomForFlip, FlipsLine, FlipLine, PacketsLine, Line, Newest, Pos, NoCall
  <1>2. QueueInv /\ FlipInv /\ [Next]_vars => FlipInv'
    BY FlipCallStep, FlipEnqueueStep, FlipSendStep, FlipShownStep, FlipDrawStep, FlipArmStep
    DEF Next, AppStep, MipsIrq, ArmStep
  <1>3. QED
    BY QueueInvariant, <1>1, <1>2, PTL DEF Spec

(* A frame for which video_enqueue waited is not drawn into the buffer being  *)
(* displayed (process_send_queue), and the three places of flip_target_buffer *)
(* are never taken when a flip is added (add_pending_flip).                   *)
THEOREM FlipsKeepOff == Spec => []FlipsAreSafe
  <1>1. QueueInv /\ FlipInv => FlipsAreSafe
    <2> SUFFICES ASSUME QueueInv, FlipInv PROVE FlipsAreSafe
      OBVIOUS
    <2>1. /\ shown \in Buffers /\ display \in Buffers /\ last \in Buffers
          /\ flips \in Seq(Buffers)
      BY DEF QueueInv, TypeOK
    <2>2. \A b \in Buffers : Pos(shown, b) \in 0..2
      BY <2>1, PosFact
    <2>3. FlipLine(shown, display, last, flips)
      BY DEF FlipInv, FlipsLine
    <2>4. arm = "draw" /\ wire.hidden => wire.screen # display
      <3> SUFFICES ASSUME arm = "draw", wire.hidden, wire.screen = display PROVE FALSE
        OBVIOUS
      <3>1. display # Sub
        BY <2>1 DEF Buffers, Sub
      <3>2. Pos(shown, last) < Pos(shown, display)
        BY <3>1 DEF FlipInv, PacketsLine, InWindow
      <3>3. QED
        BY <2>1, <2>2, <2>3, <3>2 DEF FlipLine
    <2>5. Len(flips) < 3
      <3> SUFFICES ASSUME Len(flips) >= 3 PROVE FALSE
        BY <2>1
      <3>1. /\ {1, 2, 3} \subseteq DOMAIN flips
            /\ flips[1] \in Buffers /\ flips[2] \in Buffers /\ flips[3] \in Buffers
        BY <2>1
      <3>2. /\ Pos(shown, display) < Pos(shown, flips[1])
            /\ Pos(shown, flips[1]) < Pos(shown, flips[2])
            /\ Pos(shown, flips[2]) < Pos(shown, flips[3])
        BY <2>3, <3>1 DEF FlipLine
      <3>3. QED
        BY <2>1, <2>2, <3>1, <3>2
    <2>6. QED
      BY <2>4, <2>5 DEF FlipsAreSafe
  <1>2. QED
    BY QueueInvariant, FlipInvariant, <1>1, PTL

(* With an application that leaves the queue alone while the last packet of a *)
(* screen is prepared, nothing that was asked for is lost, drawn twice or     *)
(* drawn before what came earlier (video_enqueue, _video_dequeue,             *)
(* process_send_queue): for screens of any number of packets.                 *)
THEOREM UpdatesInOrder == Patient => (Spec => DrawnInOrder)
  <1>1. ASSUME Patient PROVE Spec => DrawnInOrder
    <2>1. Init => PacketsKnown
      BY DEF Init, PacketsKnown
    <2>2. QueueInv /\ PacketsKnown /\ [Next]_vars => PacketsKnown'
      BY KnownStep
    <2>3. /\ QueueInv /\ QueueInv' /\ PacketsKnown /\ PacketsKnown' /\ [Next]_vars
          => [ \/ Extends(Undrawn', Undrawn)
               \/ Undrawn # <<>> /\ Undrawn' = Tail(Undrawn) ]_vars
      BY <1>1, DrawnStep DEF Drawn
    <2>4. QED
      BY <2>1, <2>2, <2>3, QueueInvariant, PTL DEF Spec, DrawnInOrder
  <1>2. QED
    BY <1>1
=============================================================================
