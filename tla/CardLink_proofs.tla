--------------------------- MODULE CardLink_proofs --------------------------
(***************************************************************************)
(* Proofs about the card link, for every bound, every set of notices and   *)
(* of fatal reports, and every number of frames of patience.               *)
(***************************************************************************)
EXTENDS CardLink, TLAPS

\* The Nintendo DS is quick to say hello, and its first readings precede its
\* first VBlank.
Timely == LatePoke = FALSE /\ EarlyVBlank = FALSE

\* Where in an exchange the ARM9 is tells what is on the bus.
Exchange ==
    /\ arm \in {"boot", "await", "loop", "halt", "sleep", "stopped"} =>
          cmd = None /\ fifo = Empty
    /\ arm = "hello" =>
          \/ cmd = "HELLO" /\ fifo = Empty /\ mLink = "NONE"
          \/ cmd = None /\ fifo = Reply("HELLO", TRUE) /\ mLink = "PENDING_RECV"
    /\ arm = "wait" =>
          /\ lag <= LagMax
          /\ \/ cmd \in Commands /\ fifo = Empty
             \/ cmd = None /\ fifo = Reply("ACK", TRUE)
             \/ cmd = None /\ fifo.kind \in Kinds \cup {"NONE"}
    /\ arm = "body" => cmd = None /\ fifo.kind \in Kinds \cup {"NONE"}

\* How far each side has come in establishing the link tells how far the other
\* has, and that nothing of the application or of a frame is in flight yet.
Handshake ==
    /\ mLink = "NONE" => aLink = "NONE"
    /\ aLink = "NONE" =>
          /\ arm \in {"boot", "await", "hello"}
          /\ asends = {} /\ mLink # "ESTABLISHED"
          /\ arm # "hello" => mLink = "NONE"
    /\ arm \in {"boot", "hello"} => aLink = "NONE"
    /\ mLink # "ESTABLISHED" =>
          /\ sends = {} /\ app \in {"poke", "await"}
          /\ asends \subseteq {"INPUT", "RTC"}
          /\ cmd \in {None, "HELLO", "INPUT", "RTC"}
          /\ fifo \in {Empty, Reply("ACK", TRUE), Reply("HELLO", TRUE)}
    /\ arm = "hello" \/ mLink = "PENDING_RECV" => ~edge
    /\ aLink # "FATAL"
    /\ aLink = "ERROR" => arm = "stopped"

\* The ARM9 is still to ask for what the reply it waits for leaves pending.
Continued == arm = "wait" /\ ~fifo.end

\* AskedOnce without the set of reasons: none of them holds, or exactly one.
OneAsk ==
    mLink = "ESTABLISHED" =>
        /\ sends = {} =>
              ~edge /\ "QUEUE" \notin asends /\ cmd # "QUEUE" /\ ~Continued
        /\ sends # {} =>
              /\ edge \/ "QUEUE" \in asends \/ cmd = "QUEUE" \/ Continued
              /\ edge => "QUEUE" \notin asends /\ cmd # "QUEUE" /\ ~Continued
              /\ "QUEUE" \in asends => cmd # "QUEUE" /\ ~Continued
              /\ cmd = "QUEUE" => ~Continued

\* The inductive invariant of a timely link.
LinkInv == TypeOK /\ EndIsLast /\ Exchange /\ Handshake /\ OneAsk

-----------------------------------------------------------------------------
(* What a call of _add_pending_send does to the queue and to the card line.  *)

\* How a change of what is pending shows on the card line: a pulse exactly when
\* there was nothing to send.
Announces ==
    \/ UNCHANGED <<sends, edge>>
    \/ sends = {} /\ sends' # {} /\ edge'
    \/ sends # {} /\ sends' # {} /\ edge' = edge

\* _add_pending_send, when some of what is pending may have been taken off the
\* queue just before, but not the end marker.
LEMMA AddPendingSendLemma ==
    ASSUME TypeOK, EndIsLast,
           NEW left \in SUBSET sends, "END" \in sends => "END" \in left,
           NEW k \in Kinds, AddPendingSend(left, {k})
    PROVE  /\ sends' \in SUBSET Sends /\ edge' \in BOOLEAN
           /\ EndIsLast' /\ Announces
           /\ sends' \ {"END"} = (left \ {"END"}) \cup {k}
<1>0. k # "END"
  BY DEF Kinds
<1>1. left \in SUBSET Sends /\ k \in Sends /\ "END" \in Sends
  BY DEF TypeOK, Sends
<1>2. left = {} <=> sends = {}
  BY DEF EndIsLast
<1>3. CASE left = {}
  BY <1>0, <1>1, <1>2, <1>3 DEF AddPendingSend, EndIsLast, Announces
<1>4. CASE left # {}
  <2>1. sends' = left \cup {k} /\ edge' = edge /\ edge \in BOOLEAN
    BY <1>4 DEF AddPendingSend, TypeOK
  <2>2. "END" \in left
    BY <1>2, <1>4 DEF EndIsLast
  <2>. QED
    BY <1>0, <1>1, <1>2, <1>4, <2>1, <2>2 DEF EndIsLast, Announces
<1>. QED
  BY <1>3, <1>4

\* The kind k is announced, perhaps in the place of others.
Announced(k, dropped) ==
    sends' \ {"END"} = ((sends \ {"END"}) \ dropped) \cup {k}

Reports == {"EXCEPTION", "ASSERT"}

\* What every call of the application leaves alone, and how it shows.
Submitted ==
    /\ app = "run" /\ app' \in {"run", "halted"}
    /\ sends' \in SUBSET Sends /\ edge' \in BOOLEAN
    /\ more' \in [Streams -> 0..MaxMore]
    /\ EndIsLast' /\ Announces
    /\ \/ UNCHANGED <<app, sends>>
       \/ \E k \in Kinds, dropped \in {{}, {"AUDIO"}} :
             Announced(k, dropped) /\ (k \in Reports => app' = "halted")
    /\ UNCHANGED <<mLink, recvs, cmd, fifo, armVars>>

\* What a call of the application does to the link.
LEMMA AppStepLemma == TypeOK /\ EndIsLast /\ AppStep => Submitted
<1> SUFFICES ASSUME TypeOK, EndIsLast, AppStep PROVE Submitted
  OBVIOUS
<1> USE BoundsAssumption
<1> DEFINE Queued(k, dropped) ==
             /\ sends' \in SUBSET Sends /\ edge' \in BOOLEAN
             /\ EndIsLast' /\ Announces /\ Announced(k, dropped)
<1>1. CASE SubmitRequests
  <2>1. Queued("REQUESTS", {})
    BY <1>1, AddPendingSendLemma DEF SubmitRequests, Kinds, Announced
  <2>. QED
    BY <1>1, <2>1 DEF SubmitRequests, Submitted, TypeOK, Kinds, Reports
<1>2. CASE StopAudio
  <2>1. Queued("REQUESTS", {"AUDIO"})
    <3>1. AddPendingSend(sends \ {"AUDIO"}, {"REQUESTS"})
      BY <1>2 DEF StopAudio
    <3>. QED
      BY <3>1, AddPendingSendLemma DEF Kinds, Announced
  <2>. QED
    BY <1>2, <2>1 DEF StopAudio, Submitted, TypeOK, Streams, Kinds, Reports
<1>3. CASE SubmitText
  <2>1. Queued("TEXT", {})
    BY <1>3, AddPendingSendLemma DEF SubmitText, Kinds, Announced
  <2>. QED
    BY <1>3, <2>1 DEF SubmitText, Submitted, TypeOK, Kinds, Reports
<1>4. ASSUME NEW n \in 1..MaxMore, SubmitAudio(n) PROVE Submitted
  <2>1. Queued("AUDIO", {})
    BY <1>4, AddPendingSendLemma DEF SubmitAudio, Kinds, Announced
  <2>2. more' \in [Streams -> 0..MaxMore]
    BY <1>4 DEF SubmitAudio, TypeOK, Streams
  <2>. QED
    BY <1>4, <2>1, <2>2 DEF SubmitAudio, Submitted, TypeOK, Kinds, Reports
<1>5. ASSUME NEW n \in 1..MaxMore, SubmitVideo(n) PROVE Submitted
  <2>1. more' \in [Streams -> 0..MaxMore]
    BY <1>5 DEF SubmitVideo, TypeOK, Streams
  <2>2. CASE more["VIDEO"] = 0
    <3>1. Queued("VIDEO", {})
      BY <1>5, <2>2, AddPendingSendLemma DEF SubmitVideo, Kinds, Announced
    <3>. QED
      BY <1>5, <2>1, <3>1 DEF SubmitVideo, Submitted, TypeOK, Kinds, Reports
  <2>3. CASE more["VIDEO"] # 0
    BY <1>5, <2>1, <2>3
    DEF SubmitVideo, Submitted, TypeOK, EndIsLast, Announces
  <2>. QED
    BY <2>2, <2>3
<1>6. ASSUME NEW k \in Faults, Fault(k) PROVE Submitted
  <2>1. k \in Kinds
    BY FaultsAssumption DEF Kinds
  <2>2. Queued(k, {})
    BY <1>6, <2>1, AddPendingSendLemma DEF Fault, Announced
  <2>. QED
    BY <1>6, <2>1, <2>2 DEF Fault, Submitted, TypeOK
<1>. QED
  BY <1>1, <1>2, <1>3, <1>4, <1>5, <1>6 DEF AppStep

\* A packet of a stream taken by the ARM9: the end marker is still behind it, so
\* that the handler itself never pulses the card line.
LEMMA SendStreamLemma ==
    ASSUME TypeOK, EndIsLast, NEW k \in Kinds, SendStream(k)
    PROVE  /\ sends' \in SUBSET Sends /\ more' \in [Streams -> 0..MaxMore]
           /\ "END" \in sends /\ "END" \in sends' /\ sends' \subseteq sends
           /\ UNCHANGED edge
<1>1. k \in sends /\ k # "END" /\ k \in Streams
  BY DEF SendStream, Lowest, Kinds
<1>2. "END" \in sends /\ "END" \in sends \ {k}
  BY <1>1 DEF EndIsLast
<1>3. CASE HasMore(k)
  <2>1. /\ AddPendingSend(sends \ {k}, {k})
        /\ more' = [more EXCEPT ![k] = @ - 1]
    BY <1>3 DEF SendStream, TypeOK, HasMore
  <2>2. sends' = (sends \ {k}) \cup {k} /\ UNCHANGED edge
    BY <1>2, <2>1 DEF AddPendingSend
  <2>3. more' \in [Streams -> 0..MaxMore]
    BY <1>1, <1>3, <2>1, BoundsAssumption DEF TypeOK, HasMore
  <2>. QED
    BY <1>1, <1>2, <2>2, <2>3 DEF TypeOK
<1>4. CASE ~HasMore(k)
  BY <1>1, <1>2, <1>4 DEF SendStream, TypeOK
<1>. QED
  BY <1>3, <1>4

\* The end marker has the lowest priority, so it is sent when it is alone.
LEMMA SendEndLemma == ASSUME TypeOK, SendEnd PROVE sends' = {}
<1>1. \A j \in sends : SendBit["END"] <= SendBit[j]
  BY DEF SendEnd, Lowest
<1>2. \A j \in Kinds : ~(SendBit["END"] <= SendBit[j])
  BY DEF SendBit, Kinds
<1>3. sends \subseteq {"END"}
  BY <1>1, <1>2 DEF TypeOK, Sends
<1>. QED
  BY <1>3 DEF SendEnd

-----------------------------------------------------------------------------
(* One step of the link, one conjunct of the invariant after the other.      *)

USE BoundsAssumption, NoticesAssumption, FaultsAssumption, TimingAssumption
    DEF mipsVars, armVars, Streams, Kinds, Commands, NoticeBit, Reply, Empty,
        None, HasMore, NextLag, Continuation

\* Every step keeps the types; late processors are no exception.
LEMMA TypeStep == TypeOK /\ EndIsLast /\ [Next]_vars => TypeOK'
<1> SUFFICES ASSUME TypeOK, EndIsLast, [Next]_vars PROVE TypeOK'
  OBVIOUS
<1> USE DEF TypeOK, Replies
<1>1. CASE Poke
  BY <1>1 DEF Poke
<1>2. CASE EndPoke
  BY <1>2 DEF EndPoke
<1>3. CASE EndInit
  BY <1>3 DEF EndInit
<1>4. CASE AppStep
  BY <1>4, AppStepLemma DEF Submitted
<1>5. CASE LinkEstablishmentProtocol
  <2>1. CASE cmd = "HELLO"
    <3>1. /\ fifo' = Reply("HELLO", TRUE)
          /\ mLink' = "PENDING_RECV" /\ cmd' = None
          /\ UNCHANGED <<app, recvs, sends, more, edge, armVars>>
      BY <1>5, <2>1 DEF LinkEstablishmentProtocol
    <3>2. fifo' \in Replies
      BY <3>1
    <3>. QED
      BY <3>1, <3>2
  <2>2. CASE cmd # "HELLO"
    BY <1>5, <2>2 DEF LinkEstablishmentProtocol
  <2>. QED
    BY <2>1, <2>2
<1>6. CASE PendingRecvProtocol
  BY <1>6 DEF PendingRecvProtocol
<1>7. CASE MainProtocol
  BY <1>7 DEF MainProtocol
<1>8. CASE SendNothing
  BY <1>8 DEF SendNothing
<1>9. CASE SendEnd
  BY <1>9, SendEndLemma DEF SendEnd
<1>10. ASSUME NEW k \in Kinds, SendFault(k) PROVE TypeOK'
  BY <1>10 DEF SendFault
<1>11. ASSUME NEW k \in Kinds, SendOnce(k) PROVE TypeOK'
  BY <1>11 DEF SendOnce
<1>12. ASSUME NEW k \in Kinds, SendStream(k) PROVE TypeOK'
  BY <1>12, SendStreamLemma DEF SendStream
<1>13. CASE HelloIrq
  BY <1>13 DEF HelloIrq
<1>14. CASE CardLineIrq
  BY <1>14 DEF CardLineIrq, Raise, Resumed
<1>15. CASE VBlankIrq
  BY <1>15 DEF VBlankIrq, Raise, Resumed
<1>16. ASSUME NEW r \in ipc, ReadingIrq(r) PROVE TypeOK'
  BY <1>16 DEF ReadingIrq, Raise, Resumed
<1>17. ASSUME NEW n \in Notices, NoticeIrq(n) PROVE TypeOK'
  BY <1>17 DEF NoticeIrq, Raise, Resumed
<1>18. CASE EnableCardLine
  BY <1>18 DEF EnableCardLine
<1>19. CASE EndHello
  BY <1>19 DEF EndHello
<1>20. CASE StartLoop
  BY <1>20 DEF StartLoop
<1>21. ASSUME NEW c \in Commands, SendCommand(c) PROVE TypeOK'
  BY <1>21 DEF SendCommand
<1>22. CASE Idle
  BY <1>22 DEF Idle
<1>23. CASE EndCommand
  BY <1>23 DEF EndCommand
<1>24. CASE ReadHeader
  BY <1>24 DEF ReadHeader
<1>25. CASE ReadBody
  BY <1>25 DEF ReadBody
<1>26. CASE LagError
  BY <1>26 DEF LagError
<1>27. CASE Awake
  BY <1>27 DEF Awake
<1>28. CASE UNCHANGED vars
  BY <1>28 DEF vars
<1>. QED
  BY <1>1, <1>2, <1>3, <1>4, <1>5, <1>6, <1>7, <1>8, <1>9, <1>10, <1>11,
     <1>12, <1>13, <1>14, <1>15, <1>16, <1>17, <1>18, <1>19, <1>20, <1>21,
     <1>22, <1>23, <1>24, <1>25, <1>26, <1>27, <1>28
  DEF Next, MipsInit, MipsIrq, ArmIrq, ArmStep

\* Every step keeps the end marker with whatever is pending.
LEMMA EndStep == TypeOK /\ EndIsLast /\ [Next]_vars => EndIsLast'
<1> SUFFICES ASSUME TypeOK, EndIsLast, [Next]_vars PROVE EndIsLast'
  OBVIOUS
<1> USE DEF TypeOK, EndIsLast
<1>1. CASE Poke
  BY <1>1 DEF Poke
<1>2. CASE EndPoke
  BY <1>2 DEF EndPoke
<1>3. CASE EndInit
  BY <1>3 DEF EndInit
<1>4. CASE AppStep
  BY <1>4, AppStepLemma DEF Submitted
<1>5. CASE LinkEstablishmentProtocol
  BY <1>5 DEF LinkEstablishmentProtocol
<1>6. CASE PendingRecvProtocol
  BY <1>6 DEF PendingRecvProtocol
<1>7. CASE MainProtocol
  BY <1>7 DEF MainProtocol
<1>8. CASE SendNothing
  BY <1>8 DEF SendNothing
<1>9. CASE SendEnd
  BY <1>9, SendEndLemma DEF SendEnd
<1>10. ASSUME NEW k \in Kinds, SendFault(k) PROVE EndIsLast'
  BY <1>10 DEF SendFault, Lowest
<1>11. ASSUME NEW k \in Kinds, SendOnce(k) PROVE EndIsLast'
  BY <1>11 DEF SendOnce, Lowest
<1>12. ASSUME NEW k \in Kinds, SendStream(k) PROVE EndIsLast'
  BY <1>12, SendStreamLemma DEF SendStream
<1>13. CASE HelloIrq
  BY <1>13 DEF HelloIrq
<1>14. CASE CardLineIrq
  BY <1>14 DEF CardLineIrq, Raise, Resumed
<1>15. CASE VBlankIrq
  BY <1>15 DEF VBlankIrq, Raise, Resumed
<1>16. ASSUME NEW r \in ipc, ReadingIrq(r) PROVE EndIsLast'
  BY <1>16 DEF ReadingIrq, Raise, Resumed
<1>17. ASSUME NEW n \in Notices, NoticeIrq(n) PROVE EndIsLast'
  BY <1>17 DEF NoticeIrq, Raise, Resumed
<1>18. CASE EnableCardLine
  BY <1>18 DEF EnableCardLine
<1>19. CASE EndHello
  BY <1>19 DEF EndHello
<1>20. CASE StartLoop
  BY <1>20 DEF StartLoop
<1>21. ASSUME NEW c \in Commands, SendCommand(c) PROVE EndIsLast'
  BY <1>21 DEF SendCommand, Lowest
<1>22. CASE Idle
  BY <1>22 DEF Idle
<1>23. CASE EndCommand
  BY <1>23 DEF EndCommand
<1>24. CASE ReadHeader
  BY <1>24 DEF ReadHeader
<1>25. CASE ReadBody
  BY <1>25 DEF ReadBody
<1>26. CASE LagError
  BY <1>26 DEF LagError
<1>27. CASE Awake
  BY <1>27 DEF Awake
<1>28. CASE UNCHANGED vars
  BY <1>28 DEF vars
<1>. QED
  BY <1>1, <1>2, <1>3, <1>4, <1>5, <1>6, <1>7, <1>8, <1>9, <1>10, <1>11,
     <1>12, <1>13, <1>14, <1>15, <1>16, <1>17, <1>18, <1>19, <1>20, <1>21,
     <1>22, <1>23, <1>24, <1>25, <1>26, <1>27, <1>28
  DEF Next, MipsInit, MipsIrq, ArmIrq, ArmStep

\* Every step keeps the ARM9's place in the exchange and the bus in accord.
LEMMA ExchangeStep == Timely /\ LinkInv /\ [Next]_vars => Exchange'
<1> SUFFICES ASSUME Timely, LinkInv, [Next]_vars PROVE Exchange'
  OBVIOUS
<1> USE DEF Timely, LinkInv, TypeOK, EndIsLast, Exchange, Handshake, OneAsk,
            Continued, Announces
<1>1. CASE Poke
  BY <1>1 DEF Poke
<1>2. CASE EndPoke
  BY <1>2 DEF EndPoke
<1>3. CASE EndInit
  BY <1>3 DEF EndInit
<1>4. CASE AppStep
  BY <1>4, AppStepLemma DEF Submitted
<1>5. CASE LinkEstablishmentProtocol
  BY <1>5 DEF LinkEstablishmentProtocol
<1>6. CASE PendingRecvProtocol
  BY <1>6 DEF PendingRecvProtocol
<1>7. CASE MainProtocol
  BY <1>7 DEF MainProtocol
<1>8. CASE SendNothing
  BY <1>8 DEF SendNothing
<1>9. CASE SendEnd
  BY <1>9, SendEndLemma DEF SendEnd
<1>10. ASSUME NEW k \in Kinds, SendFault(k) PROVE Exchange'
  BY <1>10 DEF SendFault, Lowest
<1>11. ASSUME NEW k \in Kinds, SendOnce(k) PROVE Exchange'
  BY <1>11 DEF SendOnce, Lowest
<1>12. ASSUME NEW k \in Kinds, SendStream(k) PROVE Exchange'
  BY <1>12, SendStreamLemma DEF SendStream
<1>13. CASE HelloIrq
  BY <1>13 DEF HelloIrq
<1>14. CASE CardLineIrq
  BY <1>14 DEF CardLineIrq, Raise, Resumed
<1>15. CASE VBlankIrq
  BY <1>15 DEF VBlankIrq, Raise, Resumed
<1>16. ASSUME NEW r \in ipc, ReadingIrq(r) PROVE Exchange'
  BY <1>16 DEF ReadingIrq, Raise, Resumed
<1>17. ASSUME NEW n \in Notices, NoticeIrq(n) PROVE Exchange'
  BY <1>17 DEF NoticeIrq, Raise, Resumed
<1>18. CASE EnableCardLine
  BY <1>18 DEF EnableCardLine
<1>19. CASE EndHello
  BY <1>19 DEF EndHello
<1>20. CASE StartLoop
  BY <1>20 DEF StartLoop
<1>21. ASSUME NEW c \in Commands, SendCommand(c) PROVE Exchange'
  BY <1>21 DEF SendCommand, Lowest
<1>22. CASE Idle
  BY <1>22 DEF Idle
<1>23. CASE EndCommand
  BY <1>23 DEF EndCommand
<1>24. CASE ReadHeader
  BY <1>24 DEF ReadHeader
<1>25. CASE ReadBody
  BY <1>25 DEF ReadBody
<1>26. CASE LagError
  BY <1>26 DEF LagError
<1>27. CASE Awake
  BY <1>27 DEF Awake
<1>28. CASE UNCHANGED vars
  BY <1>28 DEF vars
<1>. QED
  BY <1>1, <1>2, <1>3, <1>4, <1>5, <1>6, <1>7, <1>8, <1>9, <1>10, <1>11,
     <1>12, <1>13, <1>14, <1>15, <1>16, <1>17, <1>18, <1>19, <1>20, <1>21,
     <1>22, <1>23, <1>24, <1>25, <1>26, <1>27, <1>28
  DEF Next, MipsInit, MipsIrq, ArmIrq, ArmStep

\* Every step keeps the two sides' views of the link in accord.
LEMMA HandshakeStep == Timely /\ LinkInv /\ [Next]_vars => Handshake'
<1> SUFFICES ASSUME Timely, LinkInv, [Next]_vars PROVE Handshake'
  OBVIOUS
<1> USE DEF Timely, LinkInv, TypeOK, EndIsLast, Exchange, Handshake, OneAsk,
            Continued, Announces
<1>1. CASE Poke
  BY <1>1 DEF Poke
<1>2. CASE EndPoke
  BY <1>2 DEF EndPoke
<1>3. CASE EndInit
  BY <1>3 DEF EndInit
<1>4. CASE AppStep
  BY <1>4, AppStepLemma DEF Submitted
<1>5. CASE LinkEstablishmentProtocol
  BY <1>5 DEF LinkEstablishmentProtocol
<1>6. CASE PendingRecvProtocol
  BY <1>6 DEF PendingRecvProtocol
<1>7. CASE MainProtocol
  BY <1>7 DEF MainProtocol
<1>8. CASE SendNothing
  BY <1>8 DEF SendNothing
<1>9. CASE SendEnd
  BY <1>9, SendEndLemma DEF SendEnd
<1>10. ASSUME NEW k \in Kinds, SendFault(k) PROVE Handshake'
  BY <1>10 DEF SendFault, Lowest
<1>11. ASSUME NEW k \in Kinds, SendOnce(k) PROVE Handshake'
  BY <1>11 DEF SendOnce, Lowest
<1>12. ASSUME NEW k \in Kinds, SendStream(k) PROVE Handshake'
  BY <1>12, SendStreamLemma DEF SendStream
<1>13. CASE HelloIrq
  BY <1>13 DEF HelloIrq
<1>14. CASE CardLineIrq
  BY <1>14 DEF CardLineIrq, Raise, Resumed
<1>15. CASE VBlankIrq
  BY <1>15 DEF VBlankIrq, Raise, Resumed
<1>16. ASSUME NEW r \in ipc, ReadingIrq(r) PROVE Handshake'
  <2>1. asends' = asends \cup {r} /\ r \in {"INPUT", "RTC"}
    BY <1>16 DEF ReadingIrq, Raise
  <2>2. /\ aLink = "ESTABLISHED" /\ arm \notin {"boot", "await", "hello"}
        /\ arm' \in {arm, "loop"}
        /\ UNCHANGED <<mipsVars, edge, cmd, fifo, aLink>>
    BY <1>16 DEF ReadingIrq, Running, ImeOn, Raise, Resumed
  <2>. QED
    BY <2>1, <2>2
<1>17. ASSUME NEW n \in Notices, NoticeIrq(n) PROVE Handshake'
  BY <1>17 DEF NoticeIrq, Raise, Resumed
<1>18. CASE EnableCardLine
  BY <1>18 DEF EnableCardLine
<1>19. CASE EndHello
  BY <1>19 DEF EndHello
<1>20. CASE StartLoop
  BY <1>20 DEF StartLoop
<1>21. ASSUME NEW c \in Commands, SendCommand(c) PROVE Handshake'
  BY <1>21 DEF SendCommand, Lowest
<1>22. CASE Idle
  BY <1>22 DEF Idle
<1>23. CASE EndCommand
  BY <1>23 DEF EndCommand
<1>24. CASE ReadHeader
  BY <1>24 DEF ReadHeader
<1>25. CASE ReadBody
  BY <1>25 DEF ReadBody
<1>26. CASE LagError
  BY <1>26 DEF LagError
<1>27. CASE Awake
  BY <1>27 DEF Awake
<1>28. CASE UNCHANGED vars
  BY <1>28 DEF vars
<1>. QED
  BY <1>1, <1>2, <1>3, <1>4, <1>5, <1>6, <1>7, <1>8, <1>9, <1>10, <1>11,
     <1>12, <1>13, <1>14, <1>15, <1>16, <1>17, <1>18, <1>19, <1>20, <1>21,
     <1>22, <1>23, <1>24, <1>25, <1>26, <1>27, <1>28
  DEF Next, MipsInit, MipsIrq, ArmIrq, ArmStep

\* Every step keeps exactly one reason to ask for a queue that holds something,
\* and none to ask for an empty one.
LEMMA OneAskStep == Timely /\ LinkInv /\ [Next]_vars => OneAsk'
<1> SUFFICES ASSUME Timely, LinkInv, [Next]_vars PROVE OneAsk'
  OBVIOUS
<1> USE DEF Timely, LinkInv, TypeOK, EndIsLast, Exchange, Handshake, OneAsk,
            Continued, Announces
<1>1. CASE Poke
  BY <1>1 DEF Poke
<1>2. CASE EndPoke
  BY <1>2 DEF EndPoke
<1>3. CASE EndInit
  BY <1>3 DEF EndInit
<1>4. CASE AppStep
  BY <1>4, AppStepLemma DEF Submitted
<1>5. CASE LinkEstablishmentProtocol
  BY <1>5 DEF LinkEstablishmentProtocol
<1>6. CASE PendingRecvProtocol
  BY <1>6 DEF PendingRecvProtocol
<1>7. CASE MainProtocol
  BY <1>7 DEF MainProtocol
<1>8. CASE SendNothing
  BY <1>8 DEF SendNothing
<1>9. CASE SendEnd
  BY <1>9, SendEndLemma DEF SendEnd
<1>10. ASSUME NEW k \in Kinds, SendFault(k) PROVE OneAsk'
  BY <1>10 DEF SendFault, Lowest
<1>11. ASSUME NEW k \in Kinds, SendOnce(k) PROVE OneAsk'
  BY <1>11 DEF SendOnce, Lowest
<1>12. ASSUME NEW k \in Kinds, SendStream(k) PROVE OneAsk'
  BY <1>12, SendStreamLemma DEF SendStream
<1>13. CASE HelloIrq
  BY <1>13 DEF HelloIrq
<1>14. CASE CardLineIrq
  BY <1>14 DEF CardLineIrq, Raise, Resumed
<1>15. CASE VBlankIrq
  BY <1>15 DEF VBlankIrq, Raise, Resumed
<1>16. ASSUME NEW r \in ipc, ReadingIrq(r) PROVE OneAsk'
  BY <1>16 DEF ReadingIrq, Raise, Resumed
<1>17. ASSUME NEW n \in Notices, NoticeIrq(n) PROVE OneAsk'
  BY <1>17 DEF NoticeIrq, Raise, Resumed
<1>18. CASE EnableCardLine
  BY <1>18 DEF EnableCardLine
<1>19. CASE EndHello
  BY <1>19 DEF EndHello
<1>20. CASE StartLoop
  BY <1>20 DEF StartLoop
<1>21. ASSUME NEW c \in Commands, SendCommand(c) PROVE OneAsk'
  BY <1>21 DEF SendCommand, Lowest
<1>22. CASE Idle
  BY <1>22 DEF Idle
<1>23. CASE EndCommand
  BY <1>23 DEF EndCommand
<1>24. CASE ReadHeader
  BY <1>24 DEF ReadHeader
<1>25. CASE ReadBody
  BY <1>25 DEF ReadBody
<1>26. CASE LagError
  BY <1>26 DEF LagError
<1>27. CASE Awake
  BY <1>27 DEF Awake
<1>28. CASE UNCHANGED vars
  BY <1>28 DEF vars
<1>. QED
  BY <1>1, <1>2, <1>3, <1>4, <1>5, <1>6, <1>7, <1>8, <1>9, <1>10, <1>11,
     <1>12, <1>13, <1>14, <1>15, <1>16, <1>17, <1>18, <1>19, <1>20, <1>21,
     <1>22, <1>23, <1>24, <1>25, <1>26, <1>27, <1>28
  DEF Next, MipsInit, MipsIrq, ArmIrq, ArmStep

\* The program starts in the invariant.
LEMMA InitLemma == Init => LinkInv
<1> SUFFICES ASSUME Init PROVE LinkInv
  OBVIOUS
<1> USE DEF Init
<1>1. /\ more \in [Streams -> 0..MaxMore]
      /\ fifo \in Replies /\ lag \in 0..(LagMax + 1)
  BY DEF Replies
<1>2. TypeOK
  BY <1>1 DEF TypeOK
<1>3. EndIsLast /\ OneAsk
  BY DEF EndIsLast, OneAsk, Continued
<1>4. Exchange /\ Handshake
  BY DEF Exchange, Handshake
<1>. QED
  BY <1>2, <1>3, <1>4 DEF LinkInv

-----------------------------------------------------------------------------
(* The theorems.                                                             *)

\* Every variable of the link keeps its type, whichever processor is late.
THEOREM TypeCorrect == Spec => []TypeOK
<1>1. Init => TypeOK /\ EndIsLast
  BY InitLemma DEF LinkInv
<1>2. TypeOK /\ EndIsLast /\ [Next]_vars => (TypeOK /\ EndIsLast)'
  BY TypeStep, EndStep
<1>. QED
  BY <1>1, <1>2, PTL DEF Spec

\* Whichever processor is late, the end marker is pending with anything else.
THEOREM EndMarkerIsLast == Spec => []EndIsLast
<1>1. Init => TypeOK /\ EndIsLast
  BY InitLemma DEF LinkInv
<1>2. TypeOK /\ EndIsLast /\ [Next]_vars => (TypeOK /\ EndIsLast)'
  BY TypeStep, EndStep
<1>. QED
  BY <1>1, <1>2, PTL DEF Spec

\* The invariant of a timely link.
THEOREM LinkInvariant == ASSUME Timely PROVE Spec => []LinkInv
<1>1. Init => LinkInv
  BY InitLemma
<1>2. LinkInv /\ [Next]_vars => LinkInv'
  <2>1. LinkInv => TypeOK /\ EndIsLast
    BY DEF LinkInv
  <2>2. LinkInv /\ [Next]_vars
          => TypeOK' /\ EndIsLast' /\ Exchange' /\ Handshake' /\ OneAsk'
    BY <2>1, TypeStep, EndStep, ExchangeStep, HandshakeStep, OneAskStep
  <2>. QED
    BY <2>2 DEF LinkInv
<1>. QED
  BY <1>1, <1>2, PTL DEF Spec

\* A timely link never forgets what is pending and never asks for an empty
\* queue: "the queue is forever stuck" (globals.h) does not happen.
THEOREM NeverStuck == ASSUME Timely PROVE Spec => []AskedOnce
<1>1. LinkInv => AskedOnce
  <2> SUFFICES ASSUME LinkInv, mLink = "ESTABLISHED"
               PROVE  /\ sends = {} => Asking = {}
                      /\ sends # {} => \E t \in Asking : Asking = {t}
    BY DEF AskedOnce
  <2>1. OneAsk
    BY DEF LinkInv
  <2>2. CASE sends = {}
    BY <2>1, <2>2 DEF OneAsk, Continued, Asking
  <2>3. CASE sends # {}
    <3>1. edge => Asking = {"edge"}
      BY <2>1, <2>3 DEF OneAsk, Continued, Asking
    <3>2. "QUEUE" \in asends => Asking = {"flag"}
      BY <2>1, <2>3 DEF OneAsk, Continued, Asking
    <3>3. cmd = "QUEUE" => Asking = {"command"}
      BY <2>1, <2>3 DEF OneAsk, Continued, Asking
    <3>4. Continued => Asking = {"reply"}
      BY <2>1, <2>3 DEF OneAsk, Continued, Asking
    <3>5. edge \/ "QUEUE" \in asends \/ cmd = "QUEUE" \/ Continued
      BY <2>1, <2>3 DEF OneAsk
    <3>. QED
      BY <3>1, <3>2, <3>3, <3>4, <3>5, <2>3
  <2>. QED
    BY <2>2, <2>3
<1>. QED
  BY <1>1, LinkInvariant, PTL

\* On a timely link the ARM9 never polls for a reply that will not come.
THEOREM CommandsAreAnswered ==
    ASSUME Timely PROVE Spec => []EveryCommandAnswered
<1>1. LinkInv => EveryCommandAnswered
  BY DEF LinkInv, Exchange, EveryCommandAnswered
<1>. QED
  BY <1>1, LinkInvariant, PTL

-----------------------------------------------------------------------------
(* The link as a priority queue.                                             *)

\* Once a fatal report is in the queue or on its way, and after it has arrived,
\* the application is halted.
ReportHalts ==
    /\ sends \cap Reports # {} => app = "halted"
    /\ fifo.kind \in Reports => app = "halted"
    /\ aLink = "ERROR" => app = "halted"

\* Nothing but a halt of the application puts a fatal report on the link.
LEMMA ReportStep == LinkInv /\ ReportHalts /\ [Next]_vars => ReportHalts'
<1> SUFFICES ASSUME LinkInv, ReportHalts, [Next]_vars PROVE ReportHalts'
  OBVIOUS
<1> USE DEF LinkInv, TypeOK, Exchange, Handshake, ReportHalts, Reports
<1>1. CASE Poke
  BY <1>1 DEF Poke
<1>2. CASE EndPoke
  BY <1>2 DEF EndPoke
<1>3. CASE EndInit
  BY <1>3 DEF EndInit
<1>4. CASE AppStep
  <2>1. Submitted /\ aLink # "ERROR" /\ fifo.kind \notin Reports
        /\ sends \cap Reports = {}
    BY <1>4, AppStepLemma DEF Submitted
  <2>2. aLink' # "ERROR" /\ fifo'.kind \notin Reports
    BY <2>1 DEF Submitted
  <2>3. CASE UNCHANGED <<app, sends>>
    BY <2>1, <2>2, <2>3
  <2>4. ASSUME NEW k \in Kinds, NEW dropped \in {{}, {"AUDIO"}},
               Announced(k, dropped), k \in Reports => app' = "halted"
        PROVE  ReportHalts'
    <3>1. sends' \cap Reports \subseteq {k}
      BY <2>1, <2>4 DEF Announced
    <3>. QED
      BY <2>2, <2>4, <3>1
  <2>. QED
    BY <2>1, <2>3, <2>4 DEF Submitted
<1>5. CASE LinkEstablishmentProtocol
  BY <1>5 DEF LinkEstablishmentProtocol
<1>6. CASE PendingRecvProtocol
  BY <1>6 DEF PendingRecvProtocol
<1>7. CASE MainProtocol
  BY <1>7 DEF MainProtocol
<1>8. CASE SendNothing
  BY <1>8 DEF SendNothing
<1>9. CASE SendEnd
  BY <1>9, SendEndLemma DEF SendEnd
<1>10. ASSUME NEW k \in Kinds, SendFault(k) PROVE ReportHalts'
  BY <1>10 DEF SendFault, Lowest
<1>11. ASSUME NEW k \in Kinds, SendOnce(k) PROVE ReportHalts'
  BY <1>11 DEF SendOnce, Lowest
<1>12. ASSUME NEW k \in Kinds, SendStream(k) PROVE ReportHalts'
  <2>1. sends' \subseteq sends /\ fifo'.kind = k /\ k \notin Reports
        /\ UNCHANGED <<app, aLink>>
    BY <1>12, SendStreamLemma DEF SendStream
  <2>. QED
    BY <2>1
<1>13. CASE HelloIrq
  BY <1>13 DEF HelloIrq
<1>14. CASE CardLineIrq
  BY <1>14 DEF CardLineIrq, Raise, Resumed
<1>15. CASE VBlankIrq
  BY <1>15 DEF VBlankIrq, Raise, Resumed
<1>16. ASSUME NEW r \in ipc, ReadingIrq(r) PROVE ReportHalts'
  BY <1>16 DEF ReadingIrq, Raise, Resumed
<1>17. ASSUME NEW n \in Notices, NoticeIrq(n) PROVE ReportHalts'
  BY <1>17 DEF NoticeIrq, Raise, Resumed
<1>18. CASE EnableCardLine
  BY <1>18 DEF EnableCardLine
<1>19. CASE EndHello
  BY <1>19 DEF EndHello
<1>20. CASE StartLoop
  BY <1>20 DEF StartLoop
<1>21. ASSUME NEW c \in Commands, SendCommand(c) PROVE ReportHalts'
  BY <1>21 DEF SendCommand, Lowest
<1>22. CASE Idle
  BY <1>22 DEF Idle
<1>23. CASE EndCommand
  BY <1>23 DEF EndCommand
<1>24. CASE ReadHeader
  BY <1>24 DEF ReadHeader
<1>25. CASE ReadBody
  BY <1>25 DEF ReadBody
<1>26. CASE LagError
  BY <1>26 DEF LagError
<1>27. CASE Awake
  BY <1>27 DEF Awake
<1>28. CASE UNCHANGED vars
  BY <1>28 DEF vars
<1>. QED
  BY <1>1, <1>2, <1>3, <1>4, <1>5, <1>6, <1>7, <1>8, <1>9, <1>10, <1>11,
     <1>12, <1>13, <1>14, <1>15, <1>16, <1>17, <1>18, <1>19, <1>20, <1>21,
     <1>22, <1>23, <1>24, <1>25, <1>26, <1>27, <1>28
  DEF Next, MipsInit, MipsIrq, ArmIrq, ArmStep

\* What the MIPS takes off its queue goes into an empty FIFO.
LEMMA QueueIsAsked ==
    ASSUME LinkInv, cmd = "QUEUE" PROVE arm = "wait" /\ fifo = Empty
  BY DEF LinkInv, TypeOK, Exchange

\* Every step of a timely link is a step of the priority queue, or stutters.
LEMMA QueueStep ==
    ASSUME LinkInv, ReportHalts, [Next]_vars
    PROVE  [SQ!Next]_(SQ!vars)
<1> DEFINE pending == sends \ {"END"}
           transit == IF fifo.kind \in Kinds THEN fifo.kind ELSE None
           closed == aLink = "ERROR"
<1> USE DEF LinkInv, TypeOK, ReportHalts, Reports
<1> DEFINE Stutters == UNCHANGED <<pending, transit, closed>>
<1>a. Stutters => UNCHANGED SQ!vars
  BY DEF SQ!vars
<1>1. CASE AppStep
  <2>1. Submitted
    BY <1>1, AppStepLemma
  <2>2. ~closed /\ UNCHANGED <<transit, closed>>
    BY <2>1 DEF Submitted
  <2>3. CASE UNCHANGED <<app, sends>>
    BY <1>a, <2>2, <2>3
  <2>4. ASSUME NEW k \in Kinds, NEW dropped \in {{}, {"AUDIO"}},
               Announced(k, dropped)
        PROVE  SQ!Next
    <3>1. SQ!Submit(k, dropped)
      BY <2>2, <2>4 DEF SQ!Submit, Announced
    <3>. QED
      BY <3>1 DEF SQ!Next
  <2>. QED
    BY <2>1, <2>3, <2>4 DEF Submitted
<1>2. ASSUME NEW k \in Kinds, SendFault(k) PROVE SQ!Next
  <2>1. transit = None /\ transit' = k /\ UNCHANGED closed
    BY <1>2, QueueIsAsked DEF SendFault
  <2>2. k \in pending /\ (\A j \in pending : SendBit[k] <= SendBit[j])
    BY <1>2 DEF SendFault, Lowest
  <2>3. pending' = {} /\ k \in Reports
    BY <1>2 DEF SendFault
  <2>4. SQ!Take(k)
    BY <2>1, <2>2, <2>3 DEF SQ!Take
  <2>. QED
    BY <2>4 DEF SQ!Next
<1>3. ASSUME NEW k \in Kinds, SendOnce(k) PROVE SQ!Next
  <2>1. transit = None /\ transit' = k /\ UNCHANGED closed
    BY <1>3, QueueIsAsked DEF SendOnce
  <2>2. k \in pending /\ (\A j \in pending : SendBit[k] <= SendBit[j])
    BY <1>3 DEF SendOnce, Lowest
  <2>3. pending' = pending \ {k} /\ k \notin Reports
    BY <1>3 DEF SendOnce
  <2>4. SQ!Take(k)
    BY <2>1, <2>2, <2>3 DEF SQ!Take
  <2>. QED
    BY <2>4 DEF SQ!Next
<1>4. ASSUME NEW k \in Kinds, SendStream(k) PROVE SQ!Next
  <2>1. transit = None /\ transit' = k /\ UNCHANGED closed
    BY <1>4, QueueIsAsked DEF SendStream
  <2>2. k \in pending /\ (\A j \in pending : SendBit[k] <= SendBit[j])
    BY <1>4 DEF SendStream, Lowest
  <2>3. k \in Streams /\ (pending' = pending \ {k} \/ pending' = pending)
    <3>1. "END" \in sends \ {k} /\ k \in sends
      BY <1>4, <2>2, SendStreamLemma
    <3>. QED
      BY <1>4, <3>1 DEF SendStream, AddPendingSend
  <2>4. SQ!Take(k)
    BY <2>1, <2>2, <2>3 DEF SQ!Take
  <2>. QED
    BY <2>4 DEF SQ!Next
<1>5. CASE SendEnd
  <2>1. pending = {} /\ pending' = {}
    BY <1>5, SendEndLemma DEF SendEnd
  <2>2. UNCHANGED <<transit, closed>>
    BY <1>5, QueueIsAsked DEF SendEnd
  <2>. QED
    BY <1>a, <2>1, <2>2
<1>6. CASE ReadBody
  <2>1. CASE fifo.kind \in Kinds
    <3>1. transit # None /\ transit' = None /\ UNCHANGED pending
      BY <1>6, <2>1 DEF ReadBody
    <3>2. closed' <=> transit \in Reports
      BY <1>6, <2>1 DEF ReadBody, Exchange, Handshake
    <3>3. SQ!Deliver
      BY <3>1, <3>2 DEF SQ!Deliver
    <3>. QED
      BY <3>3 DEF SQ!Next
  <2>2. CASE fifo.kind \notin Kinds
    <3>1. Stutters
      BY <1>6, <2>2 DEF ReadBody, Exchange, Handshake
    <3>. QED
      BY <1>a, <3>1
  <2>. QED
    BY <2>1, <2>2
<1>7. ASSUME Poke PROVE Stutters
  BY <1>7 DEF Poke, Exchange, Handshake
<1>8. ASSUME EndPoke PROVE Stutters
  BY <1>8 DEF EndPoke, Exchange, Handshake
<1>9. ASSUME EndInit PROVE Stutters
  BY <1>9 DEF EndInit, Exchange, Handshake
<1>10. ASSUME LinkEstablishmentProtocol PROVE Stutters
  BY <1>10 DEF LinkEstablishmentProtocol, Exchange, Handshake
<1>11. ASSUME PendingRecvProtocol PROVE Stutters
  BY <1>11 DEF PendingRecvProtocol, Exchange, Handshake
<1>12. ASSUME MainProtocol PROVE Stutters
  BY <1>12 DEF MainProtocol, Exchange, Handshake
<1>13. ASSUME SendNothing PROVE Stutters
  BY <1>13 DEF SendNothing, Exchange, Handshake
<1>14. ASSUME HelloIrq PROVE Stutters
  BY <1>14 DEF HelloIrq, Exchange, Handshake
<1>15. ASSUME CardLineIrq PROVE Stutters
  BY <1>15 DEF CardLineIrq, Raise, Resumed, Exchange, Handshake
<1>16. ASSUME VBlankIrq PROVE Stutters
  BY <1>16 DEF VBlankIrq, Raise, Resumed, Exchange, Handshake
<1>17. ASSUME NEW r \in ipc, ReadingIrq(r) PROVE Stutters
  BY <1>17 DEF ReadingIrq, Raise, Resumed, Exchange, Handshake
<1>18. ASSUME NEW n \in Notices, NoticeIrq(n) PROVE Stutters
  BY <1>18 DEF NoticeIrq, Raise, Resumed, Exchange, Handshake
<1>19. ASSUME EnableCardLine PROVE Stutters
  BY <1>19 DEF EnableCardLine, Exchange, Handshake
<1>20. ASSUME EndHello PROVE Stutters
  BY <1>20 DEF EndHello, Exchange, Handshake
<1>21. ASSUME StartLoop PROVE Stutters
  BY <1>21 DEF StartLoop, Exchange, Handshake
<1>22. ASSUME NEW c \in Commands, SendCommand(c) PROVE Stutters
  BY <1>22 DEF SendCommand, Exchange, Handshake
<1>23. ASSUME Idle PROVE Stutters
  BY <1>23 DEF Idle, Exchange, Handshake
<1>24. ASSUME EndCommand PROVE Stutters
  BY <1>24 DEF EndCommand, Exchange, Handshake
<1>25. ASSUME ReadHeader PROVE Stutters
  BY <1>25 DEF ReadHeader, Exchange, Handshake
<1>26. ASSUME LagError PROVE Stutters
  BY <1>26 DEF LagError, Exchange, Handshake
<1>27. ASSUME Awake PROVE Stutters
  BY <1>27 DEF Awake, Exchange, Handshake
<1>28. ASSUME UNCHANGED vars PROVE Stutters
  BY <1>28 DEF vars
<1>. QED
  BY <1>a, <1>1, <1>2, <1>3, <1>4, <1>5, <1>6, <1>7, <1>8, <1>9, <1>10,
     <1>11, <1>12, <1>13, <1>14, <1>15, <1>16, <1>17, <1>18, <1>19, <1>20,
     <1>21, <1>22, <1>23, <1>24, <1>25, <1>26, <1>27, <1>28
  DEF Next, MipsInit, MipsIrq, ArmIrq, ArmStep

\* A timely link implements the priority queue.
THEOREM LinkIsQueue == ASSUME Timely PROVE Spec => ImplementsSendQueue
<1>1. Init => LinkInv /\ ReportHalts
  BY InitLemma DEF Init, ReportHalts, Reports
<1>2. LinkInv /\ ReportHalts /\ [Next]_vars => ReportHalts'
  BY ReportStep
<1>3. Init => SQ!Init
  BY DEF Init, SQ!Init
<1>4. LinkInv /\ ReportHalts /\ [Next]_vars => [SQ!Next]_(SQ!vars)
  BY QueueStep
<1>. QED
  BY <1>1, <1>2, <1>3, <1>4, LinkInvariant, PTL
  DEF Spec, ImplementsSendQueue, SQ!Spec

=============================================================================
