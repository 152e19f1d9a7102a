-------------------------- MODULE AudioStream_proofs --------------------------
(***************************************************************************)
(* Proofs about AudioStream, for rings and packets of any size and a mixer *)
(* that asks for any number of samples: both sides agree on the samples    *)
(* that are under way, the ring of the ARM9 never overruns, and samples    *)
(* are played in the order in which they were submitted.                   *)
(***************************************************************************)
EXTENDS AudioStream, TLAPS

(* Samples in the ring of the MIPS are unsent, on the wire, in the ring of    *)
(* the ARM9, or played and not yet reported.                                  *)
Balance ==
    Fullness(sndRead, sndWrite) =
        Fullness(sndSend, sndWrite) + Len(wire) + Fullness(armRead, armWrite)
        + consumed + (IF arm = "consumed" THEN note ELSE 0)

Flowing ==
    /\ started /\ order = {} /\ notices \subseteq {"CONSUMED"}
    /\ arm \in {"loop", "consumed", "ask", "audio"}
    /\ wire # <<>> => arm = "audio"
    /\ Balance

(* No sample is under way, and none is announced.                             *)
Still == wire = <<>> /\ consumed = 0 /\ ~announced

(* The phases that a stream goes through, one after the other.                *)
Stopped ==
    /\ status = "STOPPED" /\ Still /\ ~started
    /\ requests = {} /\ order = {} /\ notices = {} /\ arm = "loop"

Starting ==
    /\ status = "STARTING" /\ Still /\ sndRead = 0 /\ sndSend = 0 /\ sndWrite = 0
    /\ \/ /\ ~started /\ notices = {}
          /\ \/ requests = {"start"} /\ order = {} /\ arm \in {"loop", "ask"}
             \/ requests = {} /\ order = {"start"} /\ arm = "requests"
       \/ /\ started /\ armRead = 0 /\ armWrite = 0 /\ requests = {} /\ order = {}
          /\ \/ notices = {"STATUS"} /\ arm = "loop"
             \/ notices = {} /\ arm = "status" /\ note = 1

Started ==
    /\ status = "STARTED" /\ requests = {} /\ Flowing
    /\ announced <=> sndSend # sndWrite

Stopping ==
    /\ status = "STOPPING" /\ ~announced
    /\ \/ requests = {"stop"} /\ Flowing
       \/ /\ requests = {} /\ order = {"stop"} /\ arm = "requests"
          /\ started /\ wire = <<>> /\ notices \subseteq {"CONSUMED"} /\ Balance
       \/ /\ Still /\ ~started /\ requests = {} /\ order = {}
          /\ \/ notices = {"STATUS"} /\ arm = "loop"
             \/ notices = {} /\ arm = "status" /\ note = 0

InPhase == Stopped \/ Starting \/ Started \/ Stopping

(* A call that has waited for a status finds it still there: only the calls   *)
(* themselves, one at a time, lead away from it.                              *)
CallMatches ==
    /\ pc = "start" => status \in {"STOPPED", "STOPPING"}
    /\ pc \in {"fill", "full"} => status = "STARTED"

Numbered == submitted \in 0..Size /\ played \in 0..Size

AudioInv == TypeOK /\ Numbered /\ CallMatches /\ InPhase

-----------------------------------------------------------------------------
(* Rings.                                                                     *)

LEMMA FullnessFact ==
  ASSUME NEW r \in Indices, NEW w \in Indices
  PROVE  /\ Fullness(r, w) \in Indices /\ Fullness(r, w) \in Nat
         /\ Fullness(r, w) = 0 <=> r = w
  BY SizeAssumption DEF Fullness, Indices

LEMMA WriteFact ==
  ASSUME NEW r \in Indices, NEW w \in Indices, NEW n \in Nat,
         Fullness(r, w) + n <= Size - 1
  PROVE  /\ AddWrap(w, n) \in Indices
         /\ Fullness(r, AddWrap(w, n)) = Fullness(r, w) + n
  BY SizeAssumption DEF Fullness, Indices, AddWrap

LEMMA ReadFact ==
  ASSUME NEW r \in Indices, NEW w \in Indices, NEW n \in Nat, n <= Fullness(r, w)
  PROVE  /\ AddWrap(r, n) \in Indices
         /\ Fullness(AddWrap(r, n), w) = Fullness(r, w) - n
  BY SizeAssumption DEF Fullness, Indices, AddWrap

(* What fits in one piece fits.                                               *)
LEMMA RoomFact ==
  ASSUME NEW r \in Indices, NEW w \in Indices, NEW m \in Nat
  PROVE  /\ Smaller(m, Room(r, w)) \in Nat /\ Smaller(m, Room(r, w)) <= m
         /\ Fullness(r, w) + Smaller(m, Room(r, w)) <= Size - 1
  BY SizeAssumption DEF Fullness, Indices, Room, Smaller

(* A packet holds some of the samples to be sent.                             *)
LEMMA ToSendFact ==
  ASSUME sndSend \in Indices, sndWrite \in Indices, sndSend # sndWrite
  PROVE  ToSend \in 1..PacketMax /\ ToSend <= Fullness(sndSend, sndWrite)
  BY SizeAssumption, BurstAssumption DEF Fullness, Indices, ToSend, Smaller

(* Two pieces that fit in the ring of the ARM9 pass the check of              *)
(* audio_encoding_0.                                                          *)
LEMMA PiecesFact ==
  ASSUME NEW n \in Nat, armRead \in Indices, armWrite \in Indices,
         Fullness(armRead, armWrite) + n <= Size - 1
  PROVE  LET one == Smaller(Size - armWrite, n)
             two == n - one
         IN  /\ ~Overrun(armWrite, one) /\ ~(two > 0 /\ Overrun(0, two))
             /\ AddWrap(AddWrap(armWrite, one), two) \in Indices
             /\ Fullness(armRead, AddWrap(AddWrap(armWrite, one), two))
                    = Fullness(armRead, armWrite) + n
  BY SizeAssumption DEF Fullness, Indices, AddWrap, Smaller, Overrun

(* Contents of rings and packets.                                             *)
LEMMA StoreFact ==
  ASSUME NEW ring \in [Indices -> Samples], NEW w \in Indices, NEW s \in Seq(Samples)
  PROVE  Store(ring, w, s) \in [Indices -> Samples]
  <1>1. \A i \in Indices : Fullness(w, i) \in Nat
    BY FullnessFact
  <1>2. \A k \in Nat : k + 1 <= Len(s) => s[k + 1] \in Samples
    OBVIOUS
  <1>3. QED
    BY <1>1, <1>2 DEF Store

LEMMA CopyFact ==
  ASSUME NEW ring \in [Indices -> Samples], NEW r \in Indices, NEW n \in Indices
  PROVE  Copy(ring, r, n) \in Seq(Samples) /\ Len(Copy(ring, r, n)) = n
  <1>1. \A i \in 1..n : /\ r + i <= Size => r + i - 1 \in Indices
                        /\ ~(r + i <= Size) => r + i - 1 - Size \in Indices
    BY SizeAssumption DEF Indices
  <1>2. Copy(ring, r, n) \in [1..n -> Samples]
    BY <1>1 DEF Copy
  <1>3. n \in Nat
    BY DEF Indices
  <1>4. QED
    BY <1>2, <1>3

LEMMA NumbersFact ==
  ASSUME NEW k \in Nat
  PROVE  k % Numbers \in 0..Size /\ k % Numbers \in Samples
  BY SizeAssumption DEF Numbers, Samples

-----------------------------------------------------------------------------
LEMMA InitInv == ASSUME Init PROVE AudioInv
  <1>1. Unwritten \in [Indices -> Samples] /\ 0 \in Indices
    BY SizeAssumption DEF Unwritten, Indices, Samples, Junk, Numbers
  <1>2. Init => TypeOK
    BY <1>1, BurstAssumption DEF Init, TypeOK
  <1>3. QED
    BY <1>2, SizeAssumption DEF Init, AudioInv, Numbered, CallMatches, InPhase, Stopped, Still

(* The phase depends on what the following tuple holds.                       *)
linkVars == <<status, sndRead, sndSend, sndWrite, announced, requests, arm, note, order, wire,
              notices, started, armRead, armWrite, consumed>>

LEMMA SamePhase == ASSUME InPhase, UNCHANGED linkVars PROVE InPhase'
  BY DEF InPhase, Stopped, Starting, Started, Stopping, Still, Flowing, Balance, Fullness, linkVars

(* Steps of the application that change no more than its wait.                *)
LEMMA WaitStep ==
  ASSUME AudioInv,
         \/ CallStart \/ CallStop \/ (\E n \in 1..MaxSubmit : CallSubmit(n))
         \/ StartFails \/ Submit \/ Drained
  PROVE  AudioInv'
  <1> USE DEF AudioInv, armVars, streamVars, ringVars, appVars
  <1>1. UNCHANGED linkVars /\ UNCHANGED <<buffer, armBuffer, submitted, played>>
    BY DEF CallStart, CallStop, CallSubmit, StartFails, Submit, Drained, linkVars
  <1>2. InPhase'
    BY <1>1, SamePhase
  <1>3. /\ pc' \in {"idle", "restart", "start", "stop", "submit", "fill", "full"}
        /\ todo' \in 0..MaxSubmit /\ UNCHANGED seen
    BY BurstAssumption DEF CallStart, CallStop, CallSubmit, StartFails, Submit, Drained, TypeOK
  <1>4. TypeOK' /\ Numbered'
    BY <1>1, <1>3 DEF TypeOK, Numbered, linkVars
  <1>5. CallMatches'
    BY DEF CallStart, CallStop, CallSubmit, StartFails, Submit, Drained, CallMatches
  <1>6. QED
    BY <1>2, <1>4, <1>5

(* DS2_StopAudio, and its part in DS2_StartAudio.                             *)
LEMMA StopStep == ASSUME AudioInv, Restart \/ Stop PROVE AudioInv'
  <1> USE DEF AudioInv, armVars, streamVars
  <1>1. /\ status \in {"STOPPED", "STARTED", "STOPPING"}
        /\ pc' \in {"idle", "start"}
        /\ UNCHANGED <<armVars, todo, seen, sndRead, sndSend, sndWrite, submitted>>
    BY DEF Restart, Stop, TypeOK
  <1>2. CASE status = "STARTED"
    <2>1. StopNow
      BY <1>2 DEF Restart, Stop
    <2>2. Unwritten \in [Indices -> Samples]
      BY SizeAssumption DEF Unwritten, Samples, Junk, Numbers
    <2>3. requests = {} /\ Flowing
      BY <1>2 DEF InPhase, Stopped, Starting, Started, Stopping
    <2>4. Stopping'
      BY <1>1, <2>1, <2>3 DEF StopNow, Stopping, Flowing, Balance, Fullness
    <2>5. TypeOK' /\ Numbered'
      BY <1>1, <2>1, <2>2, <2>3 DEF StopNow, TypeOK, Numbered
    <2>6. CallMatches'
      BY <1>1, <2>1 DEF StopNow, CallMatches
    <2>7. QED
      BY <2>4, <2>5, <2>6 DEF InPhase
  <1>3. CASE status # "STARTED"
    <2>1. UNCHANGED linkVars /\ UNCHANGED buffer
      BY <1>1, <1>3 DEF Restart, Stop, linkVars
    <2>2. InPhase'
      BY <2>1, SamePhase
    <2>3. TypeOK' /\ Numbered' /\ CallMatches'
      BY <1>1, <1>3, <2>1 DEF TypeOK, Numbered, CallMatches, linkVars
    <2>4. QED
      BY <2>2, <2>3
  <1>4. QED
    BY <1>2, <1>3

(* DS2_StartAudio finds that nothing of an old stream is left.                *)
LEMMA StartStep == ASSUME AudioInv, Start PROVE AudioInv'
  <1> USE DEF AudioInv, armVars, streamVars
  <1>1. status = "STOPPED" /\ Stopped
    BY DEF Start, CallMatches, InPhase, Starting, Started, Stopping
  <1>2. Starting'
    BY <1>1 DEF Start, Stopped, Starting, Still
  <1>3. TypeOK' /\ Numbered'
    BY <1>1, SizeAssumption DEF Start, Stopped, TypeOK, Numbered, Indices
  <1>4. CallMatches'
    BY DEF Start, CallMatches
  <1>5. QED
    BY <1>2, <1>3, <1>4 DEF InPhase

(* DS2_SubmitAudio puts no more in the ring than there is room for.           *)
LEMMA FillFact ==
  ASSUME AudioInv, Fill
  PROVE  \E n \in Nat :
            /\ Started /\ n <= todo
            /\ sndWrite' \in Indices
            /\ Fullness(sndRead, sndWrite') = Fullness(sndRead, sndWrite) + n
            /\ Fullness(sndSend, sndWrite') = Fullness(sndSend, sndWrite) + n
            /\ Fullness(sndSend, sndWrite) + n <= Size - 1
            /\ buffer' = Store(buffer, sndWrite, [i \in 1..n |-> (submitted + i - 1) % Numbers])
            /\ submitted' = (submitted + n) % Numbers /\ todo' = todo - n
            /\ announced' = (announced \/ n > 0)
            /\ UNCHANGED <<status, sndRead, sndSend, requests, armVars>>
            /\ pc' \in {"idle", "full"} /\ seen' \in {seen, sndRead}
  <1> DEFINE one == Smaller(todo, Room(sndRead, sndWrite))
             mid == AddWrap(sndWrite, one)
             two == Smaller(todo - one, Room(sndRead, mid))
             n == one + two
             s == [i \in 1..n |-> (submitted + i - 1) % Numbers]
  <1> USE DEF AudioInv
  <1>1. /\ sndRead \in Indices /\ sndWrite \in Indices /\ sndSend \in Indices
        /\ armRead \in Indices /\ armWrite \in Indices
        /\ todo \in Nat /\ todo <= MaxSubmit /\ Len(wire) \in Nat /\ consumed \in Nat
        /\ note \in Nat /\ submitted \in Nat
    BY SizeAssumption, BurstAssumption DEF TypeOK, Numbered, Indices
  <1>2. /\ one \in Nat /\ one <= todo /\ Fullness(sndRead, sndWrite) + one <= Size - 1
        /\ mid \in Indices /\ Fullness(sndRead, mid) = Fullness(sndRead, sndWrite) + one
    <2>1. one \in Nat /\ one <= todo /\ Fullness(sndRead, sndWrite) + one <= Size - 1
      BY <1>1, RoomFact
    <2>2. QED
      BY ONLY <1>1, <2>1, WriteFact
  <1>3. /\ two \in Nat /\ two <= todo - one /\ Fullness(sndRead, mid) + two <= Size - 1
        /\ AddWrap(mid, two) \in Indices
        /\ Fullness(sndRead, AddWrap(mid, two)) = Fullness(sndRead, mid) + two
    <2>1. todo - one \in Nat
      BY <1>1, <1>2
    <2>2. two \in Nat /\ two <= todo - one /\ Fullness(sndRead, mid) + two <= Size - 1
      BY <1>1, <1>2, <2>1, RoomFact
    <2>3. QED
      BY ONLY <1>1, <1>2, <2>2, WriteFact
  <1>4. /\ sndWrite' = AddWrap(mid, two) /\ buffer' = Store(buffer, sndWrite, s)
        /\ submitted' = (submitted + n) % Numbers /\ todo' = todo - n
        /\ announced' = (announced \/ n > 0)
        /\ UNCHANGED <<status, sndRead, sndSend, requests, armVars>>
        /\ pc' \in {"idle", "full"} /\ seen' \in {seen, sndRead}
    BY DEF Fill
  <1>5. status = "STARTED" /\ Started
    BY DEF Fill, CallMatches, InPhase, Stopped, Starting, Stopping
  <1>6. /\ Fullness(sndSend, sndWrite) \in Nat /\ Fullness(armRead, armWrite) \in Nat
        /\ Fullness(sndRead, sndWrite) \in Nat
    BY <1>1, FullnessFact
  <1>7. Fullness(sndSend, sndWrite) <= Fullness(sndRead, sndWrite)
    BY <1>1, <1>5, <1>6 DEF Started, Flowing, Balance
  <1>8. /\ Fullness(sndSend, sndWrite') = Fullness(sndSend, sndWrite) + n
        /\ Fullness(sndSend, sndWrite) + n <= Size - 1
    <2>1. /\ Fullness(sndSend, sndWrite) + one <= Size - 1
          /\ Fullness(sndSend, mid) = Fullness(sndSend, sndWrite) + one
      BY <1>1, <1>2, <1>6, <1>7, WriteFact, SizeAssumption
    <2>2. Fullness(sndSend, mid) + two <= Size - 1
      BY <1>2, <1>3, <1>6, <1>7, <2>1, SizeAssumption
    <2>3. Fullness(sndSend, sndWrite') = Fullness(sndSend, mid) + two
      BY <1>1, <1>2, <1>3, <1>4, <2>2, WriteFact
    <2>4. QED
      BY <1>2, <1>3, <1>6, <2>1, <2>2, <2>3
  <1>9. n \in Nat /\ n <= todo
    BY <1>1, <1>2, <1>3
  <1>10. /\ sndWrite' \in Indices
         /\ Fullness(sndRead, sndWrite') = Fullness(sndRead, sndWrite) + n
    BY <1>2, <1>3, <1>4, <1>6
  <1> HIDE DEF n
  <1>11. QED
    BY <1>4, <1>5, <1>8, <1>9, <1>10

LEMMA FillStep == ASSUME AudioInv, Fill PROVE AudioInv'
  <1> USE DEF AudioInv
  <1>1. /\ sndRead \in Indices /\ sndWrite \in Indices /\ sndSend \in Indices
        /\ armRead \in Indices /\ armWrite \in Indices
        /\ todo \in Nat /\ todo <= MaxSubmit /\ Len(wire) \in Nat /\ consumed \in Nat
        /\ note \in Nat /\ submitted \in Nat
    BY SizeAssumption, BurstAssumption DEF TypeOK, Numbered, Indices
  <1>2. PICK n \in Nat :
           /\ Started /\ n <= todo
           /\ sndWrite' \in Indices
           /\ Fullness(sndRead, sndWrite') = Fullness(sndRead, sndWrite) + n
           /\ Fullness(sndSend, sndWrite') = Fullness(sndSend, sndWrite) + n
           /\ buffer' = Store(buffer, sndWrite, [i \in 1..n |-> (submitted + i - 1) % Numbers])
           /\ submitted' = (submitted + n) % Numbers /\ todo' = todo - n
           /\ announced' = (announced \/ n > 0)
           /\ UNCHANGED <<status, sndRead, sndSend, requests, armVars>>
           /\ pc' \in {"idle", "full"} /\ seen' \in {seen, sndRead}
    BY FillFact
  <1> DEFINE s == [i \in 1..n |-> (submitted + i - 1) % Numbers]
  <1>3. /\ Fullness(sndSend, sndWrite) \in Nat /\ Fullness(armRead, armWrite) \in Nat
        /\ Fullness(sndRead, sndWrite) \in Nat
    BY <1>1, FullnessFact
  <1>4. status = "STARTED"
    BY <1>2 DEF Started
  <1>5. Balance'
    <2>1. /\ UNCHANGED <<arm, note, wire, consumed>>
          /\ Fullness(armRead', armWrite') = Fullness(armRead, armWrite)
      BY <1>2 DEF armVars, streamVars
    <2>2. Balance
      BY <1>2 DEF Started, Flowing
    <2>3. /\ Fullness(sndRead', sndWrite') = Fullness(sndRead, sndWrite) + n
          /\ Fullness(sndSend', sndWrite') = Fullness(sndSend, sndWrite) + n
      BY <1>2
    <2>4. QED
      BY ONLY <1>1, <1>3, <2>1, <2>2, <2>3, n \in Nat DEF Balance
  <1>6. announced' <=> sndSend' # sndWrite'
    <2>1. Fullness(sndSend, sndWrite') = 0 <=> sndSend = sndWrite'
      BY <1>1, <1>2, FullnessFact
    <2>2. Fullness(sndSend, sndWrite) = 0 <=> sndSend = sndWrite
      BY <1>1, FullnessFact
    <2>3. announced <=> sndSend # sndWrite
      BY <1>2 DEF Started
    <2>4. sndSend # sndWrite' <=> (sndSend # sndWrite \/ n > 0)
      BY <1>2, <1>3, <2>1, <2>2
    <2>5. QED
      BY <1>2, <2>3, <2>4
  <1>7. Started'
    BY <1>2, <1>4, <1>5, <1>6 DEF Started, Flowing, armVars, streamVars
  <1>8. TypeOK' /\ Numbered'
    <2>1. s \in Seq(Samples)
      <3>1. \A i \in 1..n : (submitted + i - 1) % Numbers \in Samples
        BY <1>1, NumbersFact
      <3>2. QED
        BY <3>1
    <2>2. buffer' \in [Indices -> Samples]
      BY <1>1, <1>2, <2>1, StoreFact DEF TypeOK
    <2>3. submitted' \in 0..Size
      <3>1. submitted + n \in Nat
        BY <1>1
      <3>2. QED
        BY <1>2, <3>1, NumbersFact
    <2>4. todo' \in 0..MaxSubmit /\ seen' \in Indices
      <3>1. todo' \in 0..MaxSubmit
        BY <1>1, <1>2, BurstAssumption
      <3>2. seen \in Indices
        BY DEF TypeOK
      <3>3. QED
        BY <1>1, <1>2, <3>1, <3>2
    <2>5. announced' \in BOOLEAN
      BY <1>2
    <2>6. QED
      BY <1>2, <2>2, <2>3, <2>4, <2>5 DEF TypeOK, Numbered, armVars, streamVars
  <1>9. CallMatches'
    BY <1>2, <1>4 DEF CallMatches
  <1>10. QED
    BY <1>7, <1>8, <1>9 DEF InPhase

(* The card command interrupt of the MIPS.                                    *)
LEMMA ConsumedStep == ASSUME AudioInv, AudioConsumed PROVE AudioInv'
  <1> USE DEF AudioInv, appVars, streamVars
  <1>1. /\ sndRead \in Indices /\ sndWrite \in Indices /\ sndSend \in Indices
        /\ armRead \in Indices /\ armWrite \in Indices
        /\ Len(wire) \in Nat /\ consumed \in Nat /\ note \in Nat
    BY SizeAssumption DEF TypeOK, Indices
  <1>2. /\ sndRead' = AddWrap(sndRead, note) /\ arm = "consumed" /\ arm' = "loop" /\ note' = 0
        /\ UNCHANGED <<appVars, status, sndSend, sndWrite, buffer, announced, requests, submitted,
                       order, wire, notices, streamVars>>
    BY DEF AudioConsumed
  <1>3. Balance /\ wire = <<>> /\ (Started \/ Stopping)
    BY <1>2 DEF InPhase, Stopped, Starting, Started, Stopping, Flowing
  <1>4. note <= Fullness(sndRead, sndWrite)
    BY <1>1, <1>2, <1>3, FullnessFact DEF Balance
  <1>5. /\ sndRead' \in Indices
        /\ Fullness(sndRead', sndWrite) = Fullness(sndRead, sndWrite) - note
    BY ONLY <1>1, <1>2, <1>4, ReadFact
  <1>6. Balance'
    <2>1. /\ Fullness(sndRead', sndWrite') = Fullness(sndRead, sndWrite) - note
          /\ Fullness(sndSend', sndWrite') = Fullness(sndSend, sndWrite)
          /\ Fullness(armRead', armWrite') = Fullness(armRead, armWrite)
          /\ UNCHANGED <<wire, consumed>>
      BY <1>2, <1>5
    <2>2. /\ Fullness(sndSend, sndWrite) \in Nat /\ Fullness(armRead, armWrite) \in Nat
          /\ Fullness(sndRead, sndWrite) \in Nat
      BY <1>1, FullnessFact
    <2>3. QED
      BY <1>1, <1>2, <1>3, <2>1, <2>2 DEF Balance
  <1>7. InPhase'
    BY <1>2, <1>3, <1>6 DEF InPhase, Started, Stopping, Still, Flowing
  <1>8. TypeOK' /\ Numbered' /\ CallMatches'
    BY <1>2, <1>5, SizeAssumption DEF TypeOK, Numbered, CallMatches, Indices
  <1>9. QED
    BY <1>7, <1>8

LEMMA StatusStep == ASSUME AudioInv, AudioStatus PROVE AudioInv'
  <1> USE DEF AudioInv, appVars, ringVars, streamVars
  <1>1. /\ status' = IF note # 0 THEN "STARTED" ELSE "STOPPED"
        /\ arm = "status" /\ arm' = "loop" /\ note' = 0
        /\ UNCHANGED <<appVars, ringVars, announced, requests, submitted, order, wire, notices,
                       streamVars>>
    BY DEF AudioStatus
  <1>2. CASE Starting
    <2>1. Balance'
      BY <1>1, <1>2, SizeAssumption DEF Starting, Still, Balance, Fullness
    <2>2. Started'
      BY <1>1, <1>2, <2>1 DEF Starting, Still, Started, Flowing
    <2>3. QED
      BY <1>1, <1>2, <2>2, SizeAssumption
      DEF InPhase, TypeOK, Numbered, CallMatches, Starting, Started, Indices
  <1>3. CASE Stopping
    <2>1. Stopped'
      BY <1>1, <1>3 DEF Stopping, Flowing, Still, Stopped
    <2>2. QED
      BY <1>1, <1>3, <2>1, SizeAssumption
      DEF InPhase, TypeOK, Numbered, CallMatches, Stopping, Stopped, Indices
  <1>4. QED
    BY <1>1, <1>2, <1>3 DEF InPhase, Stopped, Started, Flowing

LEMMA RequestsStep == ASSUME AudioInv, SendRequests PROVE AudioInv'
  <1> USE DEF AudioInv, appVars, ringVars, streamVars
  <1>1. /\ arm = "ask" /\ arm' = "requests" /\ order' = requests /\ requests' = {}
        /\ requests # {}
        /\ UNCHANGED <<appVars, status, ringVars, announced, submitted, note, wire, notices,
                       streamVars>>
    BY DEF SendRequests
  <1>2. CASE Starting
    BY <1>1, <1>2 DEF InPhase, Starting, Still, TypeOK, Numbered, CallMatches
  <1>3. CASE Stopping
    <2>1. Stopping'
      BY <1>1, <1>3 DEF Stopping, Still, Flowing, Balance, Fullness
    <2>2. QED
      BY <1>1, <2>1 DEF InPhase, TypeOK, Numbered, CallMatches
  <1>4. QED
    BY <1>1, <1>2, <1>3 DEF InPhase, Stopped, Started

LEMMA DequeueStep == ASSUME AudioInv, AudioDequeue PROVE AudioInv'
  <1> USE DEF AudioInv, appVars, streamVars
  <1>1. /\ sndRead \in Indices /\ sndWrite \in Indices /\ sndSend \in Indices
        /\ armRead \in Indices /\ armWrite \in Indices /\ consumed \in Nat
    BY SizeAssumption DEF TypeOK, Indices
  <1>2. /\ arm = "ask" /\ arm' = "audio" /\ announced
        /\ wire' = Copy(buffer, sndSend, ToSend) /\ sndSend' = AddWrap(sndSend, ToSend)
        /\ announced' = (sndSend' # sndWrite)
        /\ UNCHANGED <<appVars, status, sndRead, sndWrite, buffer, requests, submitted, note,
                       order, notices, streamVars>>
    BY DEF AudioDequeue
  <1>3. Started /\ sndSend # sndWrite /\ wire = <<>>
    BY <1>2 DEF InPhase, Stopped, Starting, Started, Stopping, Still, Flowing
  <1>4. ToSend \in 1..PacketMax /\ ToSend <= Fullness(sndSend, sndWrite)
    BY <1>1, <1>3, ToSendFact
  <1>5. ToSend \in Nat /\ ToSend \in Indices
    BY <1>1, <1>4, FullnessFact, BurstAssumption, SizeAssumption DEF Indices
  <1>6. wire' \in Seq(Samples) /\ Len(wire') = ToSend
    BY <1>1, <1>2, <1>5, CopyFact DEF TypeOK
  <1>7. /\ sndSend' \in Indices
        /\ Fullness(sndSend', sndWrite) = Fullness(sndSend, sndWrite) - ToSend
    BY ONLY <1>1, <1>2, <1>4, <1>5, ReadFact
  <1>8. Balance'
    <2>1. /\ Fullness(sndRead', sndWrite') = Fullness(sndRead, sndWrite)
          /\ Fullness(sndSend', sndWrite') = Fullness(sndSend, sndWrite) - ToSend
          /\ Fullness(armRead', armWrite') = Fullness(armRead, armWrite)
          /\ consumed' = consumed /\ Len(wire) = 0
      BY <1>2, <1>3, <1>7
    <2>2. /\ Fullness(sndSend, sndWrite) \in Nat /\ Fullness(armRead, armWrite) \in Nat
          /\ Fullness(sndRead, sndWrite) \in Nat
      BY <1>1, FullnessFact
    <2>3. QED
      BY <1>1, <1>2, <1>3, <1>5, <1>6, <2>1, <2>2 DEF Balance, Started, Flowing
  <1>9. Started'
    BY <1>2, <1>3, <1>8 DEF Started, Flowing
  <1>10. announced' \in BOOLEAN
    BY <1>2
  <1>11. TypeOK' /\ Numbered' /\ CallMatches'
    BY <1>2, <1>4, <1>6, <1>7, <1>10, BurstAssumption DEF TypeOK, Numbered, CallMatches
  <1>12. QED
    BY <1>9, <1>11 DEF InPhase

(* The mixer of the ARM9.                                                     *)
LEMMA UpdateStep == ASSUME AudioInv, AudioUpdate PROVE AudioInv'
  <1> DEFINE n == Smaller(Fullness(armRead, armWrite), Length)
  <1> USE DEF AudioInv, mipsVars, appVars, ringVars
  <1>1. /\ sndRead \in Indices /\ sndWrite \in Indices /\ sndSend \in Indices
        /\ armRead \in Indices /\ armWrite \in Indices
        /\ Len(wire) \in Nat /\ consumed \in Nat /\ note \in Nat /\ played \in Nat
    BY SizeAssumption DEF TypeOK, Numbered, Indices
  <1>2. /\ started /\ armRead # armWrite /\ armRead' = AddWrap(armRead, n)
        /\ consumed' = consumed + n /\ notices' = notices \cup {"CONSUMED"}
        /\ played' = (played + n) % Numbers
        /\ UNCHANGED <<mipsVars, arm, note, order, wire, started, armWrite, armBuffer>>
    BY DEF AudioUpdate
  <1>3. /\ Fullness(sndSend, sndWrite) \in Nat /\ Fullness(armRead, armWrite) \in Nat
        /\ Fullness(sndRead, sndWrite) \in Nat /\ Fullness(sndRead, sndWrite) \in Indices
    BY <1>1, FullnessFact
  <1>4. n \in Nat /\ n <= Fullness(armRead, armWrite)
    BY <1>3, BurstAssumption DEF Smaller
  <1>5. /\ armRead' \in Indices
        /\ Fullness(armRead', armWrite) = Fullness(armRead, armWrite) - n
    BY ONLY <1>1, <1>2, <1>4, ReadFact
  <1>6. Balance /\ (Started \/ Stopping)
    BY <1>2 DEF InPhase, Stopped, Starting, Started, Stopping, Flowing
  <1>7. Balance'
    <2>1. /\ Fullness(sndRead', sndWrite') = Fullness(sndRead, sndWrite)
          /\ Fullness(sndSend', sndWrite') = Fullness(sndSend, sndWrite)
          /\ Fullness(armRead', armWrite') = Fullness(armRead, armWrite) - n
          /\ UNCHANGED <<wire, arm, note>> /\ consumed' = consumed + n
      BY <1>2, <1>5
    <2>2. QED
      BY <1>1, <1>3, <1>4, <1>6, <2>1 DEF Balance
  <1>8. InPhase'
    BY <1>2, <1>6, <1>7 DEF InPhase, Started, Stopping, Still, Flowing
  <1>9. consumed' \in 0..Size - 1
    <2>1. consumed + Fullness(armRead, armWrite) <= Fullness(sndRead, sndWrite)
      BY <1>1, <1>3, <1>6 DEF Balance
    <2>2. Fullness(sndRead, sndWrite) <= Size - 1
      BY <1>3, SizeAssumption DEF Indices
    <2>3. consumed' \in Nat /\ consumed' <= Size - 1
      BY <1>1, <1>2, <1>3, <1>4, <2>1, <2>2, SizeAssumption
    <2>4. QED
      BY <2>3, SizeAssumption
  <1>10. played' \in 0..Size
    <2>1. played + n \in Nat
      BY <1>1, <1>4
    <2>2. QED
      BY <1>2, <2>1, NumbersFact
  <1>11. TypeOK' /\ Numbered' /\ CallMatches'
    BY <1>2, <1>5, <1>9, <1>10 DEF TypeOK, Numbered, CallMatches
  <1>12. QED
    BY <1>8, <1>11

(* Notices of the ARM9, and its question for the queue.                       *)
LEMMA NoticeStep == ASSUME AudioInv, SendConsumed \/ SendStatus \/ Ask PROVE AudioInv'
  <1> USE DEF AudioInv, mipsVars, appVars, ringVars, streamVars
  <1>1. CASE SendConsumed
    <2>1. Balance /\ (Started \/ Stopping) /\ started
      BY <1>1 DEF SendConsumed, InPhase, Stopped, Starting, Started, Stopping, Flowing
    <2>2. consumed \in Nat /\ consumed \in Indices /\ Len(wire) \in Nat
      BY SizeAssumption DEF TypeOK, Indices
    <2>3. /\ Fullness(sndSend, sndWrite) \in Nat /\ Fullness(armRead, armWrite) \in Nat
          /\ Fullness(sndRead, sndWrite) \in Nat
      BY FullnessFact DEF TypeOK
    <2>4. Balance'
      BY <1>1, <2>1, <2>2, <2>3 DEF SendConsumed, Balance, Fullness
    <2>5. InPhase'
      BY <1>1, <2>1, <2>4 DEF SendConsumed, InPhase, Started, Stopping, Still, Flowing
    <2>6. TypeOK' /\ Numbered' /\ CallMatches'
      BY <1>1, <2>2, SizeAssumption DEF SendConsumed, TypeOK, Numbered, CallMatches
    <2>7. QED
      BY <2>5, <2>6
  <1>2. CASE SendStatus
    <2>1. Starting \/ Stopping
      BY <1>2 DEF SendStatus, InPhase, Stopped, Started, Flowing
    <2>2. InPhase'
      BY <1>2, <2>1 DEF SendStatus, InPhase, Starting, Stopping, Still, Flowing
    <2>3. TypeOK' /\ Numbered' /\ CallMatches'
      BY <1>2, SizeAssumption DEF SendStatus, TypeOK, Numbered, CallMatches, Indices
    <2>4. QED
      BY <2>2, <2>3
  <1>3. CASE Ask
    <2>1. InPhase'
      BY <1>3
      DEF Ask, InPhase, Stopped, Starting, Started, Stopping, Still, Flowing, Balance, Fullness
    <2>2. TypeOK' /\ Numbered' /\ CallMatches'
      BY <1>3 DEF Ask, TypeOK, Numbered, CallMatches
    <2>3. QED
      BY <2>1, <2>2
  <1>4. QED
    BY <1>1, <1>2, <1>3

LEMMA ProcessStep == ASSUME AudioInv, ProcessRequests PROVE AudioInv'
  <1> USE DEF AudioInv, mipsVars, appVars, ringVars
  <1>1. Unwritten \in [Indices -> Samples] /\ 0 \in Indices
    BY SizeAssumption DEF Unwritten, Indices, Samples, Junk, Numbers
  <1>2. Starting \/ Stopping
    BY DEF ProcessRequests, InPhase, Stopped, Started, Flowing
  <1>3. CASE Starting
    <2>1. Starting'
      BY <1>3 DEF ProcessRequests, Starting, Still, CountLeft, StatusChanged
    <2>2. TypeOK' /\ Numbered' /\ CallMatches'
      BY <1>1, <1>3, SizeAssumption
      DEF ProcessRequests, Starting, Still, TypeOK, Numbered, CallMatches, CountLeft,
          StatusChanged
    <2>3. QED
      BY <2>1, <2>2 DEF InPhase
  <1>4. CASE Stopping
    <2>1. Stopping'
      BY <1>4 DEF ProcessRequests, Stopping, Still, Flowing, CountLeft, StatusChanged
    <2>2. TypeOK' /\ Numbered' /\ CallMatches'
      BY <1>1, <1>4, SizeAssumption
      DEF ProcessRequests, Stopping, Flowing, TypeOK, Numbered, CallMatches, CountLeft,
          StatusChanged
    <2>3. QED
      BY <2>1, <2>2 DEF InPhase
  <1>5. QED
    BY <1>2, <1>3, <1>4

(* The samples on the wire fit in the ring of the ARM9: they and the samples  *)
(* in it take up room in that of the MIPS.                                    *)
LEMMA AudioFits ==
  ASSUME AudioInv, arm = "audio"
  PROVE  /\ Balance /\ started /\ (Started \/ Stopping)
         /\ Fullness(armRead, armWrite) + Len(wire) <= Size - 1
  <1> USE DEF AudioInv
  <1>1. Balance /\ started /\ (Started \/ Stopping)
    BY DEF InPhase, Stopped, Starting, Started, Stopping, Flowing
  <1>2. /\ Fullness(sndSend, sndWrite) \in Nat /\ Fullness(armRead, armWrite) \in Nat
        /\ Fullness(sndRead, sndWrite) \in Indices
    BY FullnessFact DEF TypeOK
  <1>3. Len(wire) \in Nat /\ consumed \in Nat
    BY SizeAssumption DEF TypeOK
  <1>4. QED
    BY <1>1, <1>2, <1>3, SizeAssumption DEF Balance, Indices

LEMMA ReadAudioStep == ASSUME AudioInv, ReadAudio PROVE AudioInv'
  <1> DEFINE one == Smaller(Size - armWrite, Len(wire))
             two == Len(wire) - one
  <1> USE DEF AudioInv, mipsVars, appVars, ringVars
  <1>1. /\ arm = "audio" /\ wire' = <<>>
        /\ UNCHANGED <<mipsVars, note, order, notices, started, armRead, consumed, played>>
    BY DEF ReadAudio
  <1>2. /\ Balance /\ started /\ (Started \/ Stopping)
        /\ Fullness(armRead, armWrite) + Len(wire) <= Size - 1
    BY <1>1, AudioFits
  <1>3. Len(wire) \in Nat /\ armRead \in Indices /\ armWrite \in Indices /\ consumed \in Nat
    BY SizeAssumption DEF TypeOK
  <1>4. /\ ~Overrun(armWrite, one) /\ ~(two > 0 /\ Overrun(0, two))
        /\ AddWrap(AddWrap(armWrite, one), two) \in Indices
        /\ Fullness(armRead, AddWrap(AddWrap(armWrite, one), two))
              = Fullness(armRead, armWrite) + Len(wire)
    BY <1>2, <1>3, PiecesFact
  <1>5. /\ arm' = "loop" /\ armBuffer' = Store(armBuffer, armWrite, wire)
        /\ armWrite' = AddWrap(AddWrap(armWrite, one), two)
    BY <1>4 DEF ReadAudio
  <1>6. Balance'
    <2>1. /\ Fullness(sndRead', sndWrite') = Fullness(sndRead, sndWrite)
          /\ Fullness(sndSend', sndWrite') = Fullness(sndSend, sndWrite)
          /\ Fullness(armRead', armWrite') = Fullness(armRead, armWrite) + Len(wire)
          /\ consumed' = consumed /\ Len(wire') = 0
      BY <1>1, <1>4, <1>5
    <2>2. /\ Fullness(sndSend, sndWrite) \in Nat /\ Fullness(armRead, armWrite) \in Nat
          /\ Fullness(sndRead, sndWrite) \in Nat
      BY FullnessFact DEF TypeOK
    <2>3. QED
      BY <1>1, <1>2, <1>3, <1>5, <2>1, <2>2 DEF Balance
  <1>7. InPhase'
    BY <1>1, <1>2, <1>5, <1>6 DEF InPhase, Started, Stopping, Still, Flowing
  <1>8. armBuffer' \in [Indices -> Samples]
    BY <1>3, <1>5, StoreFact DEF TypeOK
  <1>9. TypeOK' /\ Numbered' /\ CallMatches'
    BY <1>1, <1>4, <1>5, <1>8, BurstAssumption DEF TypeOK, Numbered, CallMatches
  <1>10. QED
    BY <1>7, <1>9

LEMMA StutterStep == ASSUME AudioInv, UNCHANGED vars PROVE AudioInv'
  <1>1. UNCHANGED linkVars
    BY DEF vars, mipsVars, armVars, ringVars, streamVars, linkVars
  <1>2. QED
    BY <1>1, SamePhase
    DEF AudioInv, TypeOK, Numbered, CallMatches, vars, mipsVars, appVars, armVars, ringVars,
        streamVars

-----------------------------------------------------------------------------
(* The order of the samples.                                                  *)

(* n samples of a ring are those numbered from k on.                          *)
Held(ring, read, n, k) == \A i \in 0..n - 1 : ring[AddWrap(read, i)] = (k + i) % Numbers

InArm == Fullness(armRead, armWrite)
Unsent == Fullness(sndSend, sndWrite)

(* The ring of the ARM9, the wire and the unsent part of the ring of the MIPS *)
(* continue each other, from the next sample to be played to the last one     *)
(* that was submitted.                                                        *)
InOrder ==
    /\ started =>
          /\ Held(armBuffer, armRead, InArm, played)
          /\ \A i \in 1..Len(wire) : wire[i] = (played + InArm + i - 1) % Numbers
    /\ status = "STARTING" => submitted = 0 /\ (started => played = 0)
    /\ status = "STARTED" =>
          /\ Held(buffer, sndSend, Unsent, played + InArm + Len(wire))
          /\ submitted = (played + InArm + Len(wire) + Unsent) % Numbers

LEMMA RemainderFact ==
  ASSUME NEW q \in Nat, NEW r \in Nat, r < Numbers
  PROVE  (q * Numbers + r) % Numbers = r
  <1> DEFINE t == q * Numbers + r
             d == t \div Numbers
             m == t % Numbers
  <1>1. Numbers \in Nat \ {0}
    BY SizeAssumption DEF Numbers
  <1>2. q * Numbers \in Nat /\ t \in Nat
    BY <1>1
  <1>3. d \in Nat /\ m \in Nat /\ m < Numbers /\ t = d * Numbers + m /\ d * Numbers \in Nat
    BY <1>1, <1>2
  <1> HIDE DEF d, m
  <1>4. ASSUME NEW a \in Nat, NEW b \in Nat, a < b
        PROVE  a * Numbers + Numbers <= b * Numbers
    <2>1. b - a - 1 \in Nat /\ (b - a - 1) * Numbers \in Nat
      BY <1>1, <1>4
    <2>2. b * Numbers = a * Numbers + Numbers + (b - a - 1) * Numbers
      BY <1>1
    <2>3. QED
      BY <1>1, <2>1, <2>2
  <1>5. ~(d < q) /\ ~(q < d)
    BY <1>1, <1>2, <1>3, <1>4
  <1>6. d = q
    BY <1>3, <1>5
  <1>7. m = r
    BY <1>2, <1>3, <1>6
  <1>8. QED
    BY <1>7 DEF m

(* Counting on from a number that has wrapped.                                *)
LEMMA WrapFact ==
  ASSUME NEW a \in Nat, NEW b \in Nat
  PROVE  ((a % Numbers) + b) % Numbers = (a + b) % Numbers
  <1> DEFINE q == a \div Numbers
             r == a % Numbers
             p == (r + b) \div Numbers
             s == (r + b) % Numbers
  <1>1. Numbers \in Nat \ {0}
    BY SizeAssumption DEF Numbers
  <1>2. q \in Nat /\ r \in Nat /\ r < Numbers /\ a = q * Numbers + r
    BY <1>1
  <1> HIDE DEF q, r
  <1>3. p \in Nat /\ s \in Nat /\ s < Numbers /\ r + b = p * Numbers + s
    BY <1>1, <1>2
  <1> HIDE DEF p, s
  <1>4. a + b = (q + p) * Numbers + s /\ q + p \in Nat
    BY <1>1, <1>2, <1>3
  <1>5. (a + b) % Numbers = s
    BY <1>3, <1>4, RemainderFact
  <1>6. QED
    BY <1>5 DEF r, s

LEMMA IndexFact ==
  ASSUME NEW r \in Indices, NEW i \in Nat, NEW j \in Nat, i + j < Size
  PROVE  AddWrap(r, i) \in Indices /\ AddWrap(AddWrap(r, i), j) = AddWrap(r, i + j)
  BY SizeAssumption DEF AddWrap, Indices

(* What a copy holds.                                                         *)
LEMMA CopyAtFact ==
  ASSUME NEW ring, NEW r \in Indices, NEW n \in Indices, NEW i \in 1..n
  PROVE  Copy(ring, r, n)[i] = ring[AddWrap(r, i - 1)]
  BY SizeAssumption DEF Copy, AddWrap, Indices

(* Samples that are stored in a ring follow those in it.                      *)
LEMMA StoreAtFact ==
  ASSUME NEW ring, NEW r \in Indices, NEW w \in Indices, NEW s, Len(s) \in Nat,
         Fullness(r, w) + Len(s) <= Size - 1, NEW i \in 0..Fullness(r, w) + Len(s) - 1
  PROVE  Store(ring, w, s)[AddWrap(r, i)] =
            IF i < Fullness(r, w) THEN ring[AddWrap(r, i)] ELSE s[i - Fullness(r, w) + 1]
  <1> DEFINE n == Len(s)
             f == Fullness(r, w)
             x == AddWrap(r, i)
             k == Fullness(w, x) + 1
  <1>1. f \in Nat /\ n \in Nat /\ i \in Nat /\ i < f + n /\ f + n <= Size - 1
    BY FullnessFact
  <1>2. x \in Indices
    BY <1>1, SizeAssumption DEF AddWrap, Indices
  <1>3. k = IF i < f THEN Size - f + i + 1 ELSE i - f + 1
    BY <1>1, SizeAssumption DEF AddWrap, Indices, Fullness
  <1>4. Store(ring, w, s)[x] = IF k <= n THEN s[k] ELSE ring[x]
    BY <1>2 DEF Store
  <1> HIDE DEF n, f, x, k
  <1>5. CASE i < f
    <2>1. ~(k <= n)
      BY <1>1, <1>3, <1>5, SizeAssumption
    <2>2. QED
      BY <1>4, <1>5, <2>1 DEF f, x
  <1>6. CASE ~(i < f)
    <2>1. k <= n /\ k = i - f + 1
      BY <1>1, <1>3, <1>6, SizeAssumption
    <2>2. QED
      BY <1>4, <1>6, <2>1 DEF f, x
  <1>7. QED
    BY <1>5, <1>6

(* Steps that neither move a sample nor change the phase of the stream.       *)
orderVars == <<status, submitted, buffer, sndSend, sndWrite, started, armBuffer, armRead,
               armWrite, played, wire>>

LEMMA SameOrder == ASSUME InOrder, UNCHANGED orderVars PROVE InOrder'
  BY DEF InOrder, Held, InArm, Unsent, Fullness, orderVars

LEMMA IdleOrder ==
  ASSUME InOrder, AppStep \/ AudioConsumed \/ SendRequests \/ SendConsumed \/ SendStatus \/ Ask,
         ~Start, ~Fill, ~((Restart \/ Stop) /\ status = "STARTED")
  PROVE  InOrder'
  <1>1. UNCHANGED orderVars
    BY DEF AppStep, InCall, CallStart, CallStop, CallSubmit, StartFails, Submit, Drained, Restart,
           Stop, AudioConsumed, SendRequests, SendConsumed, SendStatus, Ask, orderVars, appVars,
           ringVars, mipsVars, armVars, streamVars
  <1>2. QED
    BY <1>1, SameOrder

(* A stream ends, and with it what is unsent; or another one begins.          *)
LEMMA CallOrder ==
  ASSUME AudioInv, InOrder, Start \/ ((Restart \/ Stop) /\ status = "STARTED")
  PROVE  InOrder'
  <1>1. UNCHANGED <<started, armBuffer, armRead, armWrite, played, wire>>
    BY DEF Start, Restart, Stop, armVars, streamVars
  <1>2. status' # "STARTED" /\ (status' = "STARTING" => submitted' = 0 /\ ~started')
    BY <1>1 DEF Start, Restart, Stop, StopNow, AudioInv, CallMatches, InPhase, Stopped, Starting,
                Started, Stopping
  <1>3. QED
    BY <1>1, <1>2 DEF InOrder, InArm

(* The samples of DS2_SubmitAudio follow those submitted before.              *)
LEMMA FillOrder == ASSUME AudioInv, InOrder, Fill PROVE InOrder'
  <1>1. PICK n \in Nat :
           /\ Started
           /\ Fullness(sndSend, sndWrite') = Fullness(sndSend, sndWrite) + n
           /\ Fullness(sndSend, sndWrite) + n <= Size - 1
           /\ buffer' = Store(buffer, sndWrite, [i \in 1..n |-> (submitted + i - 1) % Numbers])
           /\ submitted' = (submitted + n) % Numbers
           /\ UNCHANGED <<status, sndSend, armVars>>
    BY FillFact
  <1> DEFINE s == [i \in 1..n |-> (submitted + i - 1) % Numbers]
             next == played + InArm + Len(wire)
  <1>2. sndSend \in Indices /\ sndWrite \in Indices /\ Unsent \in Nat /\ next \in Nat
    BY FullnessFact, SizeAssumption DEF AudioInv, TypeOK, Numbered, Unsent, InArm
  <1>3. /\ Held(buffer, sndSend, Unsent, next) /\ submitted = (next + Unsent) % Numbers
        /\ Unsent' = Unsent + n /\ next' = next
    BY <1>1 DEF InOrder, Started, InArm, Unsent, armVars, streamVars
  <1>4. s \in Seq(Nat) /\ Len(s) = n
    <2>1. \A i \in 1..n : (submitted + i - 1) % Numbers \in Nat
      <3>1. submitted \in Nat
        BY SizeAssumption DEF AudioInv, Numbered
      <3>2. Numbers \in Nat \ {0}
        BY SizeAssumption DEF Numbers
      <3>3. QED
        BY <3>1, <3>2
    <2>2. QED
      BY <2>1
  <1>5. buffer' = Store(buffer, sndWrite, s) /\ \A i \in 1..n : s[i] = (submitted + i - 1) % Numbers
    BY <1>1
  <1> HIDE DEF s, next
  <1>6. next + Unsent \in Nat
    BY <1>2
  <1>7. ASSUME NEW i \in 0..Unsent + n - 1 PROVE buffer'[AddWrap(sndSend, i)] = (next + i) % Numbers
    <2>1. buffer'[AddWrap(sndSend, i)] =
             IF i < Unsent THEN buffer[AddWrap(sndSend, i)] ELSE s[i - Unsent + 1]
      <3>1. /\ Len(s) \in Nat /\ Fullness(sndSend, sndWrite) + Len(s) <= Size - 1
            /\ i \in 0..Fullness(sndSend, sndWrite) + Len(s) - 1
        BY <1>1, <1>4 DEF Unsent
      <3>2. Store(buffer, sndWrite, s)[AddWrap(sndSend, i)] =
               IF i < Fullness(sndSend, sndWrite) THEN buffer[AddWrap(sndSend, i)]
               ELSE s[i - Fullness(sndSend, sndWrite) + 1]
        BY ONLY <1>2, <3>1, StoreAtFact
      <3>3. QED
        BY <1>5, <3>2 DEF Unsent
    <2>2. CASE i < Unsent
      BY <1>2, <1>3, <2>1, <2>2 DEF Held
    <2>3. CASE ~(i < Unsent)
      <3>1. i - Unsent + 1 \in 1..n /\ i - Unsent \in Nat /\ submitted \in Nat
        BY <1>2, <2>3, SizeAssumption DEF AudioInv, Numbered
      <3>2. s[i - Unsent + 1] = (submitted + (i - Unsent)) % Numbers
        <4>1. submitted + (i - Unsent + 1) - 1 = submitted + (i - Unsent)
          BY <1>2, <3>1
        <4>2. QED
          BY <1>5, <3>1, <4>1
      <3>3. (submitted + (i - Unsent)) % Numbers = ((next + Unsent) + (i - Unsent)) % Numbers
        BY <1>3, <1>6, <3>1, WrapFact
      <3>4. (next + Unsent) + (i - Unsent) = next + i
        BY <1>2
      <3>5. QED
        BY <2>1, <2>3, <3>2, <3>3, <3>4
    <2>4. QED
      BY <2>2, <2>3
  <1>8. submitted' = (next + Unsent') % Numbers
    <2>1. submitted' = ((next + Unsent) + n) % Numbers
      BY <1>1, <1>3, <1>6, WrapFact
    <2>2. (next + Unsent) + n = next + Unsent'
      BY <1>2, <1>3
    <2>3. QED
      BY <2>1, <2>2
  <1>9. Held(buffer', sndSend', Unsent', next')
    <2>1. Held(buffer', sndSend, Unsent + n, next)
      BY <1>2, <1>7 DEF Held
    <2>2. sndSend' = sndSend
      BY <1>1
    <2>3. QED
      BY ONLY <1>3, <2>1, <2>2
  <1>10. QED
    BY <1>1, <1>3, <1>8, <1>9 DEF InOrder, Started, InArm, armVars, streamVars, next

(* A stream that starts has no samples.                                       *)
LEMMA StatusOrder == ASSUME AudioInv, InOrder, AudioStatus PROVE InOrder'
  <1>1. /\ status' = IF note # 0 THEN "STARTED" ELSE "STOPPED"
        /\ arm = "status"
        /\ UNCHANGED <<buffer, sndSend, sndWrite, submitted, wire, streamVars>>
    BY DEF AudioStatus, ringVars
  <1>2. CASE Starting
    <2>1. /\ InArm' = 0 /\ Unsent' = 0 /\ Len(wire') = 0 /\ submitted' = 0 /\ played' = 0
          /\ status' = "STARTED" /\ started
      BY <1>1, <1>2, FullnessFact, SizeAssumption
      DEF Starting, Still, InArm, Unsent, InOrder, streamVars, AudioInv, TypeOK
    <2>2. 0 % Numbers = 0
      BY RemainderFact, SizeAssumption DEF Numbers
    <2>3. Held(buffer', sndSend', 0, 0) /\ Held(armBuffer', armRead', 0, 0)
      BY DEF Held
    <2>4. QED
      BY <2>1, <2>2, <2>3 DEF InOrder
  <1>3. CASE Stopping
    BY <1>1, <1>3 DEF Stopping, Flowing, InOrder, streamVars
  <1>4. QED
    BY <1>1, <1>2, <1>3 DEF AudioInv, InPhase, Stopped, Started, Flowing

(* A packet holds the unsent samples that come next.                          *)
LEMMA DequeueOrder == ASSUME AudioInv, InOrder, AudioDequeue PROVE InOrder'
  <1> DEFINE n == ToSend
             k == played + InArm
  <1>1. /\ sndSend \in Indices /\ sndWrite \in Indices /\ Unsent \in Nat /\ Unsent \in Indices
        /\ k \in Nat
    BY FullnessFact, SizeAssumption DEF AudioInv, TypeOK, Numbered, Unsent, InArm
  <1>2. /\ arm = "ask" /\ announced
        /\ wire' = Copy(buffer, sndSend, n) /\ sndSend' = AddWrap(sndSend, n)
        /\ UNCHANGED <<status, sndWrite, buffer, submitted, streamVars>>
    BY DEF AudioDequeue
  <1>3. Started /\ sndSend # sndWrite /\ wire = <<>> /\ started
    BY <1>2 DEF AudioInv, InPhase, Stopped, Starting, Started, Stopping, Still, Flowing
  <1>4. n \in Nat /\ n \in Indices /\ n <= Unsent
    <2>1. n \in 1..PacketMax /\ n <= Unsent
      BY <1>1, <1>3, ToSendFact DEF Unsent
    <2>2. QED
      BY <1>1, <2>1, BurstAssumption, SizeAssumption DEF Indices
  <1>5. Len(wire') = n
    BY <1>1, <1>2, <1>4, CopyFact DEF AudioInv, TypeOK
  <1>6. Unsent' = Unsent - n
    BY ONLY <1>1, <1>2, <1>4, ReadFact DEF Unsent
  <1>7. /\ Held(buffer, sndSend, Unsent, k) /\ submitted = (k + Unsent) % Numbers /\ k' = k
    <2>1. played + InArm + Len(wire) = k
      BY <1>1, <1>3
    <2>2. QED
      BY <1>2, <1>3, <2>1 DEF InOrder, Started, InArm, streamVars
  <1> HIDE DEF n, k
  <1>8. \A i \in 1..Len(wire') : wire'[i] = (k + i - 1) % Numbers
    <2> SUFFICES ASSUME NEW i \in 1..n PROVE wire'[i] = (k + i - 1) % Numbers
      BY <1>5
    <2>1. wire'[i] = buffer[AddWrap(sndSend, i - 1)]
      BY <1>1, <1>2, <1>4, CopyAtFact DEF n
    <2>2. i - 1 \in 0..Unsent - 1 /\ k + (i - 1) = k + i - 1
      BY <1>1, <1>4
    <2>3. QED
      BY <1>7, <2>1, <2>2 DEF Held
  <1>9. Held(buffer', sndSend', Unsent', k + n)
    <2> SUFFICES ASSUME NEW i \in 0..Unsent' - 1
                 PROVE  buffer'[AddWrap(sndSend', i)] = (k + n + i) % Numbers
      BY DEF Held
    <2>1. n + i \in 0..Unsent - 1 /\ i \in Nat /\ n + i < Size /\ k + n + i = k + (n + i)
      BY <1>1, <1>4, <1>6, SizeAssumption DEF Indices
    <2>2. AddWrap(sndSend', i) = AddWrap(sndSend, n + i)
      BY <1>1, <1>2, <1>4, <2>1, IndexFact DEF n
    <2>3. buffer[AddWrap(sndSend, n + i)] = (k + (n + i)) % Numbers
      BY <1>7, <2>1 DEF Held
    <2>4. QED
      BY <1>2, <2>1, <2>2, <2>3
  <1>10. submitted' = (k + n + Unsent') % Numbers
    <2>1. k + n + Unsent' = k + Unsent
      BY <1>1, <1>4, <1>6
    <2>2. QED
      BY <1>2, <1>7, <2>1
  <1>11. played' + InArm' = k /\ started' /\ status' = "STARTED"
    BY <1>2, <1>3 DEF InArm, streamVars, Started, k
  <1>12. Held(armBuffer', armRead', InArm', played')
    BY <1>2, <1>3 DEF InOrder, InArm, streamVars
  <1>13. QED
    BY <1>5, <1>8, <1>9, <1>10, <1>11, <1>12 DEF InOrder

(* What the mixer takes are the samples that come next.                       *)
LEMMA UpdateOrder == ASSUME AudioInv, InOrder, AudioUpdate PROVE InOrder'
  <1> DEFINE n == Smaller(Fullness(armRead, armWrite), Length)
  <1>1. /\ armRead \in Indices /\ armWrite \in Indices /\ InArm \in Nat /\ InArm \in Indices
        /\ played \in Nat /\ Len(wire) \in Nat /\ Unsent \in Nat
    BY FullnessFact, SizeAssumption DEF AudioInv, TypeOK, Numbered, InArm, Unsent
  <1>2. /\ started /\ armRead' = AddWrap(armRead, n)
        /\ played' = (played + n) % Numbers
        /\ UNCHANGED <<status, buffer, sndSend, sndWrite, submitted, wire, started, armWrite,
                       armBuffer>>
    BY DEF AudioUpdate, mipsVars, ringVars
  <1>3. n \in Nat /\ n <= InArm
    BY <1>1, BurstAssumption DEF Smaller, InArm
  <1> HIDE DEF n
  <1>4. InArm' = InArm - n
    BY ONLY <1>1, <1>2, <1>3, ReadFact DEF InArm
  <1>5. \A j \in Nat : (played' + j) % Numbers = (played + n + j) % Numbers
    <2>1. played + n \in Nat
      BY <1>1, <1>3
    <2>2. \A j \in Nat : (((played + n) % Numbers) + j) % Numbers = (played + n + j) % Numbers
      BY ONLY <2>1, WrapFact
    <2>3. QED
      BY <1>2, <2>2
  <1>6. Held(armBuffer', armRead', InArm', played')
    <2>1. ASSUME NEW i \in 0..InArm - n - 1
          PROVE  armBuffer[AddWrap(armRead', i)] = (played' + i) % Numbers
      <3>1. n + i \in 0..InArm - 1 /\ i \in Nat /\ n + i < Size /\ played + n + i = played + (n + i)
        BY <1>1, <1>3, SizeAssumption DEF Indices
      <3>2. AddWrap(armRead', i) = AddWrap(armRead, n + i)
        BY <1>1, <1>2, <1>3, <3>1, IndexFact
      <3>3. armBuffer[AddWrap(armRead, n + i)] = (played + (n + i)) % Numbers
        BY <1>2, <3>1 DEF InOrder, Held
      <3>4. QED
        BY <1>5, <3>1, <3>2, <3>3
    <2>2. Held(armBuffer, armRead', InArm - n, played')
      BY <1>1, <1>3, <2>1 DEF Held
    <2>3. QED
      BY <1>2, <1>4, <2>2
  <1>7. \A i \in 1..Len(wire) : wire[i] = (played' + InArm' + i - 1) % Numbers
    <2> SUFFICES ASSUME NEW i \in 1..Len(wire)
                 PROVE  wire[i] = (played' + InArm' + i - 1) % Numbers
      OBVIOUS
    <2>1. wire[i] = (played + InArm + i - 1) % Numbers
      BY <1>2 DEF InOrder
    <2>2. InArm' + i - 1 \in Nat /\ played + n + (InArm' + i - 1) = played + InArm + i - 1
      BY <1>1, <1>3, <1>4
    <2>3. played' \in Nat
      <3>1. played + n \in Nat
        BY <1>1, <1>3
      <3>2. QED
        BY <1>2, <3>1, NumbersFact, SizeAssumption
    <2>4. played' + (InArm' + i - 1) = played' + InArm' + i - 1
      BY <1>1, <1>3, <1>4, <2>3
    <2>5. QED
      BY <1>5, <2>1, <2>2, <2>4
  <1>8. ASSUME status = "STARTED"
        PROVE  /\ Held(buffer, sndSend, Unsent, played' + InArm' + Len(wire))
               /\ submitted = (played' + InArm' + Len(wire) + Unsent) % Numbers
    <2> DEFINE first == played + InArm + Len(wire)
    <2>1. Held(buffer, sndSend, Unsent, first) /\ submitted = (first + Unsent) % Numbers
      BY <1>8 DEF InOrder
    <2>2. ASSUME NEW i \in Nat
          PROVE  (played' + InArm' + Len(wire) + i) % Numbers = (first + i) % Numbers
      <3>1. /\ InArm' + Len(wire) + i \in Nat
            /\ played + n + (InArm' + Len(wire) + i) = first + i
        BY <1>1, <1>3, <1>4
      <3>2. played' \in Nat
        <4>1. played + n \in Nat
          BY <1>1, <1>3
        <4>2. QED
          BY <1>2, <4>1, NumbersFact, SizeAssumption
      <3>3. played' + (InArm' + Len(wire) + i) = played' + InArm' + Len(wire) + i
        BY <1>1, <1>3, <1>4, <3>2
      <3>4. QED
        BY <1>5, <3>1, <3>3
    <2> HIDE DEF first
    <2>3. QED
      BY <1>1, <2>1, <2>2 DEF Held
  <1>9. status' = "STARTING" => submitted' = 0 /\ (started' => played' = 0)
    BY <1>2 DEF AudioUpdate, AudioInv, InPhase, Stopped, Starting, Started, Stopping
  <1>10. Unsent' = Unsent
    BY <1>2 DEF Unsent
  <1>11. QED
    BY <1>2, <1>6, <1>7, <1>8, <1>9, <1>10 DEF InOrder

(* A stream that starts on the ARM9 begins with the first sample.             *)
LEMMA ProcessOrder == ASSUME AudioInv, InOrder, ProcessRequests PROVE InOrder'
  <1>1. Starting \/ Stopping
    BY DEF AudioInv, ProcessRequests, InPhase, Stopped, Started, Flowing
  <1>2. CASE Starting
    <2>1. /\ armRead' = 0 /\ armWrite' = 0 /\ played' = 0 /\ wire' = <<>>
          /\ status' = "STARTING" /\ submitted' = 0
      BY <1>2 DEF ProcessRequests, Starting, Still, mipsVars, InOrder
    <2>2. InArm' = 0
      BY <2>1, SizeAssumption DEF InArm, Fullness
    <2>3. QED
      BY <2>1, <2>2 DEF InOrder, Held
  <1>3. CASE Stopping
    BY <1>3 DEF ProcessRequests, Stopping, Flowing, mipsVars, InOrder
  <1>4. QED
    BY <1>1, <1>2, <1>3

(* The samples of a packet follow those in the ring of the ARM9.              *)
LEMMA ReadOrder == ASSUME AudioInv, InOrder, ReadAudio PROVE InOrder'
  <1>1. /\ arm = "audio" /\ wire' = <<>>
        /\ UNCHANGED <<status, buffer, sndSend, sndWrite, submitted, started, armRead, played>>
    BY DEF ReadAudio, mipsVars, ringVars
  <1>2. started /\ status # "STARTING" /\ Fullness(armRead, armWrite) + Len(wire) <= Size - 1
    BY <1>1, AudioFits DEF Started, Stopping
  <1>3. /\ armRead \in Indices /\ armWrite \in Indices /\ InArm \in Nat
        /\ played \in Nat /\ Len(wire) \in Nat /\ Unsent \in Nat
    BY FullnessFact, SizeAssumption DEF AudioInv, TypeOK, Numbered, InArm, Unsent
  <1>4. armBuffer' = Store(armBuffer, armWrite, wire) /\ InArm' = InArm + Len(wire)
    <2> DEFINE one == Smaller(Size - armWrite, Len(wire))
               two == Len(wire) - one
    <2>1. /\ ~Overrun(armWrite, one) /\ ~(two > 0 /\ Overrun(0, two))
          /\ Fullness(armRead, AddWrap(AddWrap(armWrite, one), two))
                = Fullness(armRead, armWrite) + Len(wire)
      BY <1>2, <1>3, PiecesFact
    <2>2. /\ armBuffer' = Store(armBuffer, armWrite, wire)
          /\ armWrite' = AddWrap(AddWrap(armWrite, one), two)
      BY <2>1 DEF ReadAudio
    <2>3. QED
      BY <1>1, <2>1, <2>2 DEF InArm
  <1>5. ASSUME NEW i \in 0..InArm + Len(wire) - 1
        PROVE  armBuffer'[AddWrap(armRead, i)] = (played + i) % Numbers
    <2>1. armBuffer'[AddWrap(armRead, i)] =
             IF i < InArm THEN armBuffer[AddWrap(armRead, i)] ELSE wire[i - InArm + 1]
      <3>1. Store(armBuffer, armWrite, wire)[AddWrap(armRead, i)] =
               IF i < Fullness(armRead, armWrite) THEN armBuffer[AddWrap(armRead, i)]
               ELSE wire[i - Fullness(armRead, armWrite) + 1]
        <4>1. i \in 0..Fullness(armRead, armWrite) + Len(wire) - 1
          BY DEF InArm
        <4>2. QED
          BY ONLY <1>2, <1>3, <4>1, StoreAtFact
      <3>2. QED
        BY <1>4, <3>1 DEF InArm
    <2>2. CASE i < InArm
      BY <1>2, <1>3, <2>1, <2>2 DEF InOrder, Held
    <2>3. CASE ~(i < InArm)
      <3>1. i - InArm + 1 \in 1..Len(wire) /\ played + InArm + (i - InArm + 1) - 1 = played + i
        BY <1>3, <2>3
      <3>2. wire[i - InArm + 1] = (played + InArm + (i - InArm + 1) - 1) % Numbers
        BY <1>2, <3>1 DEF InOrder
      <3>3. QED
        BY <2>1, <2>3, <3>1, <3>2
    <2>4. QED
      BY <2>2, <2>3
  <1>6. Held(armBuffer', armRead', InArm', played')
    <2>1. Held(armBuffer', armRead, InArm + Len(wire), played)
      BY <1>3, <1>5 DEF Held
    <2>2. QED
      BY <1>1, <1>4, <2>1
  <1>7. /\ Len(wire') = 0 /\ Unsent' = Unsent
        /\ played' + InArm' + Len(wire') = played + InArm + Len(wire)
    BY <1>1, <1>3, <1>4 DEF Unsent
  <1>8. QED
    BY <1>1, <1>2, <1>6, <1>7 DEF InOrder

-----------------------------------------------------------------------------
(* The theorems.                                                              *)

(* The inductive invariant of a stream: its phase, and where its samples are. *)
THEOREM AudioInvariant == Spec => []AudioInv
  <1>1. AudioInv /\ [Next]_vars => AudioInv'
    BY WaitStep, StopStep, StartStep, FillStep, ConsumedStep, StatusStep, RequestsStep,
       DequeueStep, UpdateStep, NoticeStep, ProcessStep, ReadAudioStep, StutterStep
    DEF Next, AppStep, InCall, MipsIrq, ArmStep
  <1>2. QED
    BY InitInv, <1>1, PTL DEF Spec

(* Indices stay in their rings, and counts of samples never exceed them       *)
(* (_add_wrap_fast, add_wrap_fast, audio_consumed).                           *)
THEOREM AudioTypes == Spec => []TypeOK
  <1>1. AudioInv => TypeOK
    BY DEF AudioInv
  <1>2. QED
    BY AudioInvariant, <1>1, PTL

(* audio_encoding_0 of the ARM9 never finds its ring overrun, whatever the    *)
(* sizes, and however reports, stops and starts are interleaved.              *)
THEOREM NeverOverruns == Spec => []NoOverrun
  <1>1. AudioInv => NoOverrun
    BY DEF AudioInv, InPhase, Stopped, Starting, Started, Stopping, Flowing, NoOverrun
  <1>2. QED
    BY AudioInvariant, <1>1, PTL

(* Samples that take up room in snd_buffer are each in one place, announced   *)
(* while some are unsent, and gone before a stream starts.                    *)
THEOREM SamplesAccounted == Spec => []SamplesAccountedFor
  <1>1. ASSUME AudioInv PROVE SamplesAccountedFor
    <2>1. announced <=> status = "STARTED" /\ sndSend # sndWrite
      BY <1>1 DEF AudioInv, InPhase, Stopped, Starting, Started, Stopping, Still
    <2>2. status = "STARTED" => Balance
      BY <1>1 DEF AudioInv, InPhase, Stopped, Starting, Started, Stopping, Flowing
    <2>3. status = "STARTING" => /\ consumed = 0 /\ "CONSUMED" \notin notices
                                 /\ arm \notin {"consumed", "audio"}
      BY <1>1 DEF AudioInv, InPhase, Stopped, Starting, Started, Stopping, Still
    <2>4. QED
      BY <2>1, <2>2, <2>3 DEF SamplesAccountedFor, Balance
  <1>2. QED
    BY AudioInvariant, <1>1, PTL

(* The ring of the ARM9, the wire and the unsent samples continue each other. *)
THEOREM AudioOrder == Spec => []InOrder
  <1>1. Init => InOrder
    BY DEF Init, InOrder
  <1>2. AudioInv /\ InOrder /\ [Next]_vars => InOrder'
    <2> SUFFICES ASSUME AudioInv, InOrder, [Next]_vars PROVE InOrder'
      OBVIOUS
    <2>1. CASE Fill
      BY <2>1, FillOrder
    <2>2. CASE Start \/ ((Restart \/ Stop) /\ status = "STARTED")
      BY <2>2, CallOrder
    <2>3. CASE /\ AppStep \/ AudioConsumed \/ SendRequests \/ SendConsumed \/ SendStatus \/ Ask
               /\ ~Start /\ ~Fill /\ ~((Restart \/ Stop) /\ status = "STARTED")
      BY <2>3, IdleOrder
    <2>4. CASE AudioStatus
      BY <2>4, StatusOrder
    <2>5. CASE AudioDequeue
      BY <2>5, DequeueOrder
    <2>6. CASE AudioUpdate
      BY <2>6, UpdateOrder
    <2>7. CASE ProcessRequests
      BY <2>7, ProcessOrder
    <2>8. CASE ReadAudio
      BY <2>8, ReadOrder
    <2>9. CASE UNCHANGED vars
      <3>1. UNCHANGED orderVars
        BY <2>9 DEF vars, mipsVars, armVars, ringVars, streamVars, orderVars
      <3>2. QED
        BY <3>1, SameOrder
    <2>10. QED
      BY <2>1, <2>2, <2>3, <2>4, <2>5, <2>6, <2>7, <2>8, <2>9 DEF Next, MipsIrq, ArmStep
  <1>3. QED
    BY AudioInvariant, <1>1, <1>2, PTL DEF Spec

(* Whatever the sizes of rings, packets and requests of the mixer, and        *)
(* however often the rings have wrapped, audio_update of the ARM9 finds the   *)
(* samples in the order in which DS2_SubmitAudio was given them.              *)
THEOREM SamplesInOrder == Spec => []PlaysInOrder
  <1>1. ASSUME AudioInv, InOrder PROVE PlaysInOrder
    <2> SUFFICES ASSUME started
                 PROVE  Copy(armBuffer, armRead, InArm)
                           = [i \in 1..InArm |-> (played + i - 1) % Numbers]
      BY DEF PlaysInOrder, InArm
    <2>1. armRead \in Indices /\ InArm \in Indices /\ InArm \in Nat /\ played \in Nat
      BY <1>1, FullnessFact, SizeAssumption DEF AudioInv, TypeOK, Numbered, InArm
    <2>2. ASSUME NEW i \in 1..InArm
          PROVE  Copy(armBuffer, armRead, InArm)[i] = (played + i - 1) % Numbers
      <3>1. i - 1 \in 0..InArm - 1 /\ played + (i - 1) = played + i - 1
        BY <2>1
      <3>2. armBuffer[AddWrap(armRead, i - 1)] = (played + (i - 1)) % Numbers
        BY <1>1, <3>1 DEF InOrder, Held
      <3>3. Copy(armBuffer, armRead, InArm)[i] = armBuffer[AddWrap(armRead, i - 1)]
        BY <2>1, CopyAtFact
      <3>4. QED
        BY <3>1, <3>2, <3>3
    <2> DEFINE f == Copy(armBuffer, armRead, InArm)
    <2>3. f = [i \in 1..InArm |-> f[i]]
      BY DEF Copy
    <2> HIDE DEF f
    <2>4. QED
      BY <2>2, <2>3 DEF f
  <1>2. QED
    BY AudioInvariant, AudioOrder, <1>1, PTL
=============================================================================
