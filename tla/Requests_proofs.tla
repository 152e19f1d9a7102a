--------------------------- MODULE Requests_proofs ---------------------------
(***************************************************************************)
(* Proofs about Requests: a Nintendo DS that sleeps is dark, or is about   *)
(* to be told to be, whatever the lid does; and with a lid that is left    *)
(* alone until all sides have acted upon it, the lights end up as asked.   *)
(***************************************************************************)
EXTENDS Requests, TLAPS

(* The last that a sleeping DS has told the ARM7 is to turn the lights off.   *)
DarkIsLast ==
    arm = "asleep" => IF ipc = <<>> THEN newLights = {} ELSE ipc[Len(ipc)] = {}

RequestsInv == TypeOK /\ DarkIsLast

(* A lid that is left alone until everyone knows where it is: only its last   *)
(* movement is on its way to the application, as a reading, as a notice or as *)
(* a press or release, and no older one is behind it.                         *)
LidKnown ==
    /\ answer \subseteq {lid}
    /\ IF lid THEN ~releases ELSE ~presses
    /\ IF state THEN ~presses ELSE ~releases
    /\ input # lid \/ (arm = "input" /\ note # lid) => state # lid /\ ~presses /\ ~releases
    /\ arm = "input" /\ input # lid => note # lid

(* DS2_SystemSleep waits while its order is on the way, since everyone knows  *)
(* that the lid is closed, and while the DS sleeps; the order is given once.  *)
SleepOnTheWay == "sleep" \in packet.orders \cup wire.orders
SleepUnderWay ==
    /\ SleepOnTheWay \/ arm = "asleep" => call = "sleep" /\ state /\ ~releases
    /\ SleepOnTheWay => arm # "asleep" /\ lid /\ input /\ (arm = "input" => note)
    /\ "sleep" \notin packet.orders \cap wire.orders
    /\ "reset" \in packet.orders => call \in {"exit", "gone"}

(* The last setting that the ARM7 has been sent.                              *)
LastLights == IF ipc = <<>> THEN newLights ELSE ipc[Len(ipc)]

(* The backlights are in the packet, or on the wire, or were the last setting *)
(* to be sent; sleep apart.                                                   *)
LightsOnTheWay ==
    /\ arm # "requests" => wire = NoRequests
    /\ packet.lights \in {{}, {lights}}
    /\ packet.lights = {} =>
          IF wire.lights # {} THEN wire.lights = {lights}
                              ELSE LastLights = lights \/ call \in {"sleep", "restore"}

SteadyInv == LidKnown /\ SleepUnderWay /\ LightsOnTheWay

-----------------------------------------------------------------------------
(* What is put in a packet leaves it a packet.                                *)
LEMMA PacketFact ==
  /\ NoRequests \in Packets /\ NoRequests.orders = {} /\ NoRequests.lights = {}
  /\ \A p \in Packets :
        /\ \A l \in SUBSET Screens : /\ [p EXCEPT !.lights = {l}] \in Packets
                                    /\ [p EXCEPT !.lights = {l}].orders = p.orders
                                    /\ [p EXCEPT !.lights = {l}].lights = {l}
        /\ \A b \in BOOLEAN : /\ [p EXCEPT !.swap = {b}] \in Packets
                              /\ [p EXCEPT !.swap = {b}].orders = p.orders
                              /\ [p EXCEPT !.swap = {b}].lights = p.lights
        /\ \A o \in Orders : /\ [p EXCEPT !.orders = @ \cup {o}] \in Packets
                             /\ [p EXCEPT !.orders = @ \cup {o}].orders = p.orders \cup {o}
                             /\ [p EXCEPT !.orders = @ \cup {o}].lights = p.lights
  <1>1. {} \in Optional(SUBSET Screens) /\ {} \in Optional(BOOLEAN)
    BY DEF Optional
  <1>2. \A l \in SUBSET Screens : {l} \in Optional(SUBSET Screens)
    BY DEF Optional
  <1>3. \A b \in BOOLEAN : {b} \in Optional(BOOLEAN)
    BY DEF Optional
  <1>4. \A p \in Packets, o \in Orders : p.orders \cup {o} \in SUBSET Orders
    BY DEF Packets
  <1>5. NoRequests \in Packets /\ NoRequests.orders = {} /\ NoRequests.lights = {}
    BY <1>1 DEF NoRequests, Packets
  <1>6. QED
    BY <1>2, <1>3, <1>4, <1>5 DEF Packets

(* Sequences of at most one element, a sequence that loses its first element, *)
(* and one sequence after another.                                            *)
LEMMA SeqFact ==
  ASSUME NEW S
  PROVE  /\ <<>> \in Seq(S) /\ Len(<<>>) = 0
         /\ \A x \in S : <<x>> \in Seq(S) /\ Len(<<x>>) = 1 /\ <<x>>[1] = x
         /\ \A s \in Seq(S) : s # <<>> =>
               /\ Tail(s) \in Seq(S) /\ Len(Tail(s)) = Len(s) - 1 /\ Head(s) \in S
               /\ IF Tail(s) = <<>> THEN Head(s) = s[Len(s)]
                                   ELSE Tail(s)[Len(Tail(s))] = s[Len(s)]
         /\ \A s, t \in Seq(S) :
               /\ s \o t \in Seq(S) /\ Len(s \o t) = Len(s) + Len(t)
               /\ t # <<>> => s \o t # <<>> /\ (s \o t)[Len(s \o t)] = t[Len(t)]
  <1>1. ASSUME NEW s \in Seq(S), s # <<>>
        PROVE  /\ Tail(s) \in Seq(S) /\ Len(Tail(s)) = Len(s) - 1 /\ Head(s) \in S
               /\ IF Tail(s) = <<>> THEN Head(s) = s[Len(s)]
                                   ELSE Tail(s)[Len(Tail(s))] = s[Len(s)]
    <2>1. Len(s) \in Nat /\ Len(s) >= 1 /\ Head(s) = s[1]
      BY <1>1
    <2>2. Tail(s) \in Seq(S) /\ Len(Tail(s)) = Len(s) - 1
      BY <1>1
    <2>3. CASE Tail(s) = <<>>
      <3>1. Len(s) = 1
        BY <2>1, <2>2, <2>3
      <3>2. QED
        BY <1>1, <2>1, <2>2, <2>3, <3>1
    <2>4. CASE Tail(s) # <<>>
      BY <1>1, <2>1, <2>2, <2>4
    <2>5. QED
      BY <1>1, <2>1, <2>2, <2>3, <2>4
  <1>2. ASSUME NEW s \in Seq(S), NEW t \in Seq(S)
        PROVE  /\ s \o t \in Seq(S) /\ Len(s \o t) = Len(s) + Len(t)
               /\ t # <<>> => s \o t # <<>> /\ (s \o t)[Len(s \o t)] = t[Len(t)]
    OBVIOUS
  <1>3. QED
    BY <1>1, <1>2

LEMMA InitInv == ASSUME Init PROVE RequestsInv
  <1>1. answer \in Optional(BOOLEAN)
    BY DEF Init, Optional
  <1>2. ipc \in Seq(SUBSET Screens) /\ Len(ipc) <= MaxIpc
    BY IpcAssumption DEF Init
  <1>3. /\ state \in BOOLEAN /\ input \in BOOLEAN /\ lid \in BOOLEAN
        /\ presses \in BOOLEAN /\ releases \in BOOLEAN
    BY DEF Init
  <1>4. QED
    BY <1>1, <1>2, <1>3, PacketFact DEF Init, RequestsInv, TypeOK, DarkIsLast

(* The application and the lid: neither the ARM9 nor what it has sent to the  *)
(* ARM7 is touched.                                                           *)
LEMMA AppStepInv == ASSUME RequestsInv, MoveLid \/ AppCall \/ InCall PROVE RequestsInv'
  <1> USE DEF RequestsInv, TypeOK
  <1>1. UNCHANGED <<arm, ipc, newLights>>
    BY DEF MoveLid, AppCall, InCall, SetScreenBacklights, SetScreenSwap, GetInputState,
           SystemSleep, End, AwaitLid, Restore, lightVars, mipsVars
  <1>2. DarkIsLast'
    BY <1>1 DEF DarkIsLast
  <1>3. TypeOK'
    <2>1. CASE MoveLid
      BY <2>1 DEF MoveLid, mipsVars, appVars, inVars, inputVars, lightVars
    <2>2. ASSUME NEW l \in SUBSET Screens, SetScreenBacklights(l) PROVE TypeOK'
      BY <2>2, PacketFact DEF SetScreenBacklights, SetLights, inVars, inputVars, lightVars
    <2>3. ASSUME NEW s \in BOOLEAN, SetScreenSwap(s) PROVE TypeOK'
      BY <2>3, PacketFact DEF SetScreenSwap, inVars, inputVars, lightVars
    <2>4. CASE GetInputState
      BY <2>4 DEF GetInputState, Read, Reading, appVars, inputVars, lightVars
    <2>5. CASE SystemSleep
      BY <2>5, PacketFact DEF SystemSleep, Orders, inVars, inputVars, lightVars
    <2>6. ASSUME NEW o \in {"shutdown", "reset"}, NEW c \in {"shutdown", "exit"},
                 c = "exit" => o = "reset", End(o, c)
          PROVE  TypeOK'
      <3>1. packet' = [packet EXCEPT !.orders = @ \cup {o}] /\ o \in Orders /\ call' = c
        BY <2>6 DEF End, Orders
      <3>2. packet' \in Packets /\ (c = "exit" => "reset" \in packet'.orders)
        BY <2>6, <3>1, PacketFact
      <3>3. QED
        BY <2>6, <3>1, <3>2 DEF End, inVars, inputVars, lightVars
    <2>7. CASE AwaitLid
      BY <2>7 DEF AwaitLid, Read, Reading, inputVars, lightVars
    <2>8. CASE Restore
      BY <2>8, PacketFact DEF Restore, SetLights, inVars, inputVars, lightVars
    <2>9. QED
      BY <2>1, <2>2, <2>3, <2>4, <2>5, <2>6, <2>7, <2>8 DEF AppCall, InCall
  <1>4. QED
    BY <1>2, <1>3

(* The card command interrupt of the MIPS, in which the DS is awake.          *)
LEMMA IrqStepInv == ASSUME RequestsInv, MipsIrq PROVE RequestsInv'
  <1> USE DEF RequestsInv, TypeOK
  <1>1. CASE MergeInput
    BY <1>1 DEF MergeInput, DarkIsLast, appVars, inputVars, lightVars
  <1>2. CASE SendRequests
    BY <1>2, PacketFact DEF SendRequests, DarkIsLast, inVars, inputVars, lightVars
  <1>3. QED
    BY <1>1, <1>2 DEF MipsIrq

(* What process_requests tells the ARM7 fits, and ends with the lights off if *)
(* the DS goes to sleep.                                                      *)
LEMMA SettingsFact ==
  ASSUME NEW p \in Packets, NEW off \in BOOLEAN
  PROVE  /\ Settings(p, off) \in Seq(SUBSET Screens) /\ Len(Settings(p, off)) <= 2
         /\ off => Settings(p, off) # <<>> /\ Settings(p, off)[Len(Settings(p, off))] = {}
  <1> DEFINE first == IF p.lights = {} THEN <<>> ELSE <<CHOOSE l \in p.lights : TRUE>>
             second == IF off THEN <<{}>> ELSE <<>>
  <1>1. first \in Seq(SUBSET Screens) /\ Len(first) <= 1
    <2>1. CASE p.lights = {}
      BY <2>1
    <2>2. CASE p.lights # {}
      <3>1. p.lights \subseteq SUBSET Screens
        BY DEF Packets, Optional
      <3>2. (CHOOSE l \in p.lights : TRUE) \in p.lights
        BY <2>2
      <3>3. first = <<CHOOSE l \in p.lights : TRUE>>
        BY <2>2
      <3>4. (CHOOSE l \in p.lights : TRUE) \in SUBSET Screens
        BY <3>1, <3>2
      <3>5. <<CHOOSE l \in p.lights : TRUE>> \in Seq(SUBSET Screens)
        BY ONLY <3>4, SeqFact
      <3>6. Len(<<CHOOSE l \in p.lights : TRUE>>) <= 1
        OBVIOUS
      <3>7. QED
        BY ONLY <3>3, <3>5, <3>6
    <2>3. QED
      BY <2>1, <2>2
  <1>2. /\ second \in Seq(SUBSET Screens) /\ Len(second) <= 1
        /\ off => Len(second) = 1 /\ second[1] = {}
    <2>1. {} \in SUBSET Screens
      OBVIOUS
    <2>2. /\ <<{}>> \in Seq(SUBSET Screens) /\ Len(<<{}>>) = 1 /\ <<{}>>[1] = {}
          /\ <<>> \in Seq(SUBSET Screens) /\ Len(<<>>) = 0
      BY ONLY <2>1, SeqFact
    <2>3. second = IF off THEN <<{}>> ELSE <<>>
      OBVIOUS
    <2>4. QED
      BY ONLY <2>2, <2>3, off \in BOOLEAN
  <1>3. Settings(p, off) = first \o second
    BY DEF Settings
  <1>4. QED
    BY <1>1, <1>2, <1>3, SeqFact

(* The ARM9 and the ARM7.                                                     *)
LEMMA DsStepInv ==
  ASSUME RequestsInv, ArmStep \/ ReadingIrq \/ Arm7Step
  PROVE  RequestsInv'
  <1> USE DEF RequestsInv, TypeOK
  <1>1. CASE SendInput
    BY <1>1 DEF SendInput, DarkIsLast, mipsVars, appVars, inVars, lightVars
  <1>2. CASE Ask
    BY <1>2 DEF Ask, DarkIsLast, mipsVars, appVars, inVars, inputVars, lightVars
  <1>3. CASE ProcessRequests
    <2> DEFINE off == Outcome(wire.orders) = "asleep"
               more == Settings(wire, off)
    <2>1. /\ more \in Seq(SUBSET Screens) /\ Len(more) <= 2
          /\ off => more # <<>> /\ more[Len(more)] = {}
      BY SettingsFact
    <2>2. Outcome(wire.orders) \in {"off", "asleep", "reset", "loop"}
      BY DEF Outcome
    <2>3. /\ ipc' = ipc \o more /\ Len(ipc) + 2 <= MaxIpc
          /\ arm' = Outcome(wire.orders)
      BY <1>3 DEF ProcessRequests
    <2>4. ipc' \in Seq(SUBSET Screens) /\ Len(ipc') <= MaxIpc
      BY <2>1, <2>3, SeqFact, IpcAssumption
    <2>5. arm' = "asleep" => ipc' # <<>> /\ ipc'[Len(ipc')] = {}
      BY <2>1, <2>3, SeqFact
    <2>6. DarkIsLast'
      BY <2>5 DEF DarkIsLast
    <2>7. TypeOK'
      <3>1. swapped' \in BOOLEAN
        BY <1>3 DEF ProcessRequests
      <3>2. wire' \in Packets
        BY <1>3, PacketFact DEF ProcessRequests
      <3>3. UNCHANGED <<call, saved, lights, swap, packet, state, presses, releases, note, told,
                        input, answer, newLights, lid>>
        BY <1>3 DEF ProcessRequests, mipsVars, appVars, inVars, inputVars
      <3>4. arm' \in {"off", "asleep", "reset", "loop"}
        BY <2>2, <2>3
      <3>5. QED
        BY ONLY TypeOK, <2>4, <3>1, <3>2, <3>3, <3>4 DEF TypeOK
    <2>8. QED
      BY <2>6, <2>7
  <1>4. CASE WakeUp
    BY <1>4 DEF WakeUp, DarkIsLast, mipsVars, appVars, inVars, inputVars, lightVars
  <1>5. CASE ReadingIrq
    <2>1. input' \in BOOLEAN /\ told' \in BOOLEAN
      BY <1>5 DEF ReadingIrq
    <2>2. answer' \in Optional(BOOLEAN)
      BY <1>5 DEF ReadingIrq, Optional
    <2>3. QED
      BY <1>5, <2>1, <2>2 DEF ReadingIrq, DarkIsLast, mipsVars, appVars, inVars, lightVars
  <1>6. CASE Answer
    BY <1>6 DEF Answer, DarkIsLast, Optional, mipsVars, appVars, inVars, lightVars
  <1>7. CASE SetBacklight
    <2>1. /\ newLights' = Head(ipc) /\ ipc' = Tail(ipc) /\ ipc # <<>> /\ arm' = arm
      BY <1>7 DEF SetBacklight
    <2>2. /\ ipc' \in Seq(SUBSET Screens) /\ newLights' \subseteq Screens
          /\ Len(ipc') <= MaxIpc
      BY <2>1, SeqFact, IpcAssumption
    <2>3. IF ipc' = <<>> THEN newLights' = ipc[Len(ipc)] ELSE ipc'[Len(ipc')] = ipc[Len(ipc)]
      BY <2>1, SeqFact
    <2>4. DarkIsLast'
      BY <2>1, <2>3 DEF DarkIsLast
    <2>5. TypeOK'
      BY <1>7, <2>2 DEF SetBacklight, mipsVars, appVars, inVars, inputVars
    <2>6. QED
      BY <2>4, <2>5
  <1>8. QED
    BY <1>1, <1>2, <1>3, <1>4, <1>5, <1>6, <1>7 DEF ArmStep, Arm7Step

LEMMA StutterInv == ASSUME RequestsInv, UNCHANGED vars PROVE RequestsInv'
  BY DEF RequestsInv, TypeOK, DarkIsLast, vars, mipsVars, appVars, inVars, inputVars, lightVars

-----------------------------------------------------------------------------
(* A steady lid.                                                              *)

(* The order to sleep does not leave the application before the lid is known  *)
(* to be closed.                                                              *)
LEMMA LidStep ==
  ASSUME Steady, RequestsInv, SteadyInv, [Next]_vars
  PROVE  LidKnown'
  <1> USE DEF LidKnown
  <1>1. TypeOK /\ LidKnown
    BY DEF RequestsInv, SteadyInv
  <1>2. CASE MoveLid
    BY <1>1, <1>2 DEF MoveLid, Noticed, mipsVars, inVars, inputVars, TypeOK
  <1>3. CASE GetInputState \/ AwaitLid
    BY <1>1, <1>3 DEF GetInputState, AwaitLid, Read, Reading, inputVars, TypeOK
  <1>4. CASE MergeInput
    BY <1>1, <1>4 DEF MergeInput, inputVars, TypeOK
  <1>5. CASE SendInput
    BY <1>1, <1>5 DEF SendInput, mipsVars, inVars, TypeOK
  <1>6. CASE ReadingIrq
    <2>1. input' = lid /\ answer' = {}
      BY <1>1, <1>6 DEF ReadingIrq, TypeOK
    <2>2. QED
      BY <1>1, <1>6, <2>1 DEF ReadingIrq, mipsVars, inVars, TypeOK
  <1>7. CASE Answer
    BY <1>1, <1>7 DEF Answer, mipsVars, inVars, TypeOK
  <1>8. CASE /\ UNCHANGED <<lid, state, presses, releases, note, input, answer>>
             /\ arm' # "input" \/ arm' = arm
    BY <1>1, <1>8
  <1>9. CASE SendRequests \/ Ask \/ ProcessRequests \/ WakeUp \/ SetBacklight \/ UNCHANGED vars
    <2>1. Outcome(wire.orders) # "input"
      BY DEF Outcome
    <2>2. QED
      BY <1>8, <1>9, <2>1
      DEF SendRequests, Ask, ProcessRequests, WakeUp, SetBacklight, vars, mipsVars, inVars,
          inputVars
  <1>10. CASE \/ \E l \in SUBSET Screens : SetScreenBacklights(l)
              \/ \E b \in BOOLEAN : SetScreenSwap(b)
              \/ SystemSleep \/ End("shutdown", "shutdown") \/ End("reset", "exit") \/ Restore
    BY <1>8, <1>10
    DEF SetScreenBacklights, SetScreenSwap, SystemSleep, End, Restore, inVars, inputVars
  <1>11. QED
    BY <1>2, <1>3, <1>4, <1>5, <1>6, <1>7, <1>9, <1>10
    DEF Next, AppCall, InCall, MipsIrq, ArmStep, Arm7Step

LEMMA SleepStep ==
  ASSUME Steady, RequestsInv, SteadyInv, [Next]_vars
  PROVE  SleepUnderWay'
  <1> USE DEF SleepUnderWay, SleepOnTheWay
  <1>1. TypeOK /\ LidKnown /\ SleepUnderWay /\ (arm # "requests" => wire = NoRequests)
    BY DEF RequestsInv, SteadyInv, LightsOnTheWay
  <1>2. CASE MoveLid
    BY <1>1, <1>2 DEF MoveLid, Noticed, mipsVars, appVars, inVars, inputVars
  <1>3. CASE GetInputState \/ AwaitLid
    BY <1>1, <1>3 DEF GetInputState, AwaitLid, Read, Reading, appVars, inputVars, TypeOK
  <1>4. CASE SystemSleep
    <2>1. packet'.orders = packet.orders \cup {"sleep"}
      BY <1>1, <1>4, PacketFact DEF SystemSleep, Orders, TypeOK
    <2>2. /\ call = "idle" /\ call' = "sleep" /\ state /\ lid
          /\ UNCHANGED <<inVars, arm, wire, note, inputVars, lid>>
      BY <1>4 DEF SystemSleep
    <2>3. input /\ ~releases /\ (arm = "input" => note)
      BY <1>1, <2>2 DEF LidKnown, TypeOK
    <2>4. QED
      BY <1>1, <2>1, <2>2, <2>3 DEF inVars, inputVars
  <1>5. ASSUME NEW o \in {"shutdown", "reset"}, NEW c \in {"shutdown", "exit"}, End(o, c),
               o = "reset" => c = "exit"
        PROVE  SleepUnderWay'
    <2>1. packet'.orders = packet.orders \cup {o}
      BY <1>1, <1>5, PacketFact DEF End, Orders, TypeOK
    <2>2. QED
      BY <1>1, <1>5, <2>1 DEF End, inVars, inputVars
  <1>6. CASE \/ \E l \in SUBSET Screens : SetScreenBacklights(l)
             \/ \E b \in BOOLEAN : SetScreenSwap(b)
             \/ Restore
    <2>1. packet'.orders = packet.orders
      <3>1. packet \in Packets /\ saved \in SUBSET Screens
        BY <1>1 DEF TypeOK
      <3>2. ASSUME NEW l \in SUBSET Screens, SetLights(l) PROVE packet'.orders = packet.orders
        BY <3>1, <3>2, PacketFact DEF SetLights
      <3>3. ASSUME NEW b \in BOOLEAN, SetScreenSwap(b) PROVE packet'.orders = packet.orders
        BY <3>1, <3>3, PacketFact DEF SetScreenSwap
      <3>4. QED
        BY <1>6, <3>1, <3>2, <3>3 DEF SetScreenBacklights, Restore
    <2>2. call # "sleep" /\ call' = "idle" /\ call \notin {"exit", "gone"}
          /\ UNCHANGED <<inVars, arm, wire, note, inputVars, lid>>
      BY <1>6 DEF SetScreenBacklights, SetScreenSwap, Restore
    <2>3. QED
      BY <1>1, <2>1, <2>2 DEF inVars, inputVars
  <1>7. CASE MergeInput
    BY <1>1, <1>7 DEF MergeInput, LidKnown, appVars, inputVars, TypeOK
  <1>8. CASE SendRequests
    <2>1. /\ wire' = packet /\ arm' = "requests" /\ wire.orders = {}
          /\ UNCHANGED <<inVars, note, inputVars, lid>>
      BY <1>1, <1>8, PacketFact DEF SendRequests
    <2>2. CASE "reset" \in packet.orders
      BY <1>1, <1>8, <2>1, <2>2 DEF SendRequests, inVars, inputVars
    <2>3. CASE "reset" \notin packet.orders
      <3>1. packet'.orders = {} /\ call' = call
        BY <1>8, <2>3, PacketFact DEF SendRequests
      <3>2. QED
        BY <1>1, <2>1, <2>3, <3>1 DEF inVars, inputVars
    <2>4. QED
      BY <2>2, <2>3
  <1>9. CASE SendInput
    BY <1>1, <1>9 DEF SendInput, mipsVars, appVars, inVars
  <1>10. CASE ProcessRequests
    <2>1. /\ wire'.orders = {} /\ arm' = Outcome(wire.orders)
          /\ UNCHANGED <<call, packet, state, presses, releases, note, input, lid>>
      BY <1>10, PacketFact DEF ProcessRequests, mipsVars, appVars, inVars, inputVars
    <2>2. arm' = "asleep" => "sleep" \in wire.orders
      BY <2>1 DEF Outcome
    <2>3. arm' # "input"
      BY <2>1 DEF Outcome
    <2>4. QED
      BY <1>1, <2>1, <2>2, <2>3
  <1>11. CASE ReadingIrq
    <2>1. lid => input' \/ answer # {lid}
      BY <1>11 DEF ReadingIrq
    <2>2. answer = {lid}
      BY <1>1, <1>11 DEF ReadingIrq, LidKnown
    <2>3. QED
      BY <1>1, <1>11, <2>1, <2>2 DEF ReadingIrq, mipsVars, appVars, inVars
  <1>12. CASE Ask \/ WakeUp \/ Answer \/ SetBacklight \/ UNCHANGED vars
    BY <1>1, <1>12
    DEF Ask, WakeUp, Answer, SetBacklight, vars, mipsVars, appVars, inVars, inputVars
  <1>13. QED
    BY <1>2, <1>3, <1>4, <1>5, <1>6, <1>7, <1>8, <1>9, <1>10, <1>11, <1>12
    DEF Next, AppCall, InCall, MipsIrq, ArmStep, Arm7Step

(* The settings that process_requests sends end with those in the packet, if  *)
(* the DS does not go to sleep.                                               *)
LEMMA LastFact ==
  ASSUME RequestsInv, ProcessRequests, NEW l \in SUBSET Screens
  PROVE  /\ wire.lights = {} /\ Outcome(wire.orders) # "asleep" => LastLights' = LastLights
         /\ wire.lights = {l} /\ Outcome(wire.orders) # "asleep" => LastLights' = l
  <1>1. ipc \in Seq(SUBSET Screens) /\ UNCHANGED newLights
        /\ ipc' = ipc \o Settings(wire, Outcome(wire.orders) = "asleep")
    BY DEF RequestsInv, TypeOK, ProcessRequests
  <1>2. CASE wire.lights = {} /\ Outcome(wire.orders) # "asleep"
    <2>1. ipc' = ipc
      BY <1>1, <1>2 DEF Settings
    <2>2. QED
      BY <1>1, <1>2, <2>1 DEF LastLights
  <1>3. CASE wire.lights = {l} /\ Outcome(wire.orders) # "asleep"
    <2>1. (CHOOSE x \in {l} : TRUE) = l
      OBVIOUS
    <2>2. Settings(wire, Outcome(wire.orders) = "asleep") = <<l>>
      BY <1>3, <2>1 DEF Settings
    <2>3. <<l>> \in Seq(SUBSET Screens) /\ Len(<<l>>) = 1 /\ <<l>>[1] = l /\ <<l>> # <<>>
      OBVIOUS
    <2>4. ipc' # <<>> /\ ipc'[Len(ipc')] = l
      BY <1>1, <2>2, <2>3, SeqFact
    <2>5. QED
      BY <1>3, <2>4 DEF LastLights
  <1>4. QED
    BY <1>2, <1>3

LEMMA LightsStep ==
  ASSUME Steady, RequestsInv, SteadyInv, [Next]_vars
  PROVE  LightsOnTheWay'
  <1> USE DEF LightsOnTheWay
  <1>1. TypeOK /\ SleepUnderWay /\ LightsOnTheWay
    BY DEF RequestsInv, SteadyInv
  <1>2. CASE \/ \E l \in SUBSET Screens : SetScreenBacklights(l)
             \/ Restore
    <2>1. packet'.lights = {lights'} /\ UNCHANGED <<arm, wire>>
      <3>1. packet \in Packets /\ saved \in SUBSET Screens
        BY <1>1 DEF TypeOK
      <3>2. ASSUME NEW l \in SUBSET Screens, SetLights(l) PROVE packet'.lights = {lights'}
        BY <3>1, <3>2, PacketFact DEF SetLights
      <3>3. QED
        BY <1>2, <3>1, <3>2 DEF SetScreenBacklights, Restore
    <2>2. QED
      BY <1>1, <2>1
  <1>3. CASE \/ \E b \in BOOLEAN : SetScreenSwap(b)
             \/ SystemSleep \/ End("shutdown", "shutdown") \/ End("reset", "exit")
    <2>1. packet'.lights = packet.lights /\ UNCHANGED <<arm, wire, lights, ipc, newLights>>
      <3>1. packet \in Packets /\ {"sleep", "shutdown", "reset"} \subseteq Orders
        BY <1>1 DEF TypeOK, Orders
      <3>2. ASSUME NEW b \in BOOLEAN, SetScreenSwap(b) PROVE packet'.lights = packet.lights
        BY <3>1, <3>2, PacketFact DEF SetScreenSwap
      <3>3. ASSUME SystemSleep PROVE packet'.lights = packet.lights
        BY <3>1, <3>3, PacketFact DEF SystemSleep
      <3>4. ASSUME NEW o \in Orders, NEW c, End(o, c) PROVE packet'.lights = packet.lights
        BY <3>1, <3>4, PacketFact DEF End
      <3>5. UNCHANGED <<arm, wire, lights, ipc, newLights>>
        BY <1>3 DEF SetScreenSwap, SystemSleep, End, lightVars
      <3>6. QED
        BY <1>3, <3>1, <3>2, <3>3, <3>4, <3>5
    <2>2. call \notin {"sleep", "restore"}
      BY <1>3 DEF SetScreenSwap, SystemSleep, End
    <2>3. QED
      BY <1>1, <2>1, <2>2 DEF LastLights
  <1>4. CASE MoveLid \/ GetInputState \/ AwaitLid \/ MergeInput \/ SendInput \/ Ask
             \/ WakeUp \/ ReadingIrq \/ Answer \/ UNCHANGED vars
    <2>1. UNCHANGED <<packet, wire, lights, ipc, newLights>>
      BY <1>4
      DEF MoveLid, GetInputState, AwaitLid, MergeInput, SendInput, Ask, WakeUp, ReadingIrq, Answer,
          vars, mipsVars, appVars, lightVars
    <2>2. call' = call \/ (call = "sleep" /\ call' \in {"sleep", "restore"})
      <3>1. CASE AwaitLid
        BY <3>1 DEF AwaitLid
      <3>2. CASE ~AwaitLid
        BY <1>4, <3>2
        DEF MoveLid, GetInputState, MergeInput, SendInput, Ask, WakeUp, ReadingIrq, Answer,
            vars, mipsVars, appVars
      <3>3. QED
        BY <3>1, <3>2
    <2>3. arm' = arm \/ arm # "requests"
      BY <1>4
      DEF MoveLid, GetInputState, AwaitLid, MergeInput, SendInput, Ask, WakeUp, ReadingIrq, Answer,
          vars
    <2>4. wire = NoRequests \/ arm' = "requests"
      BY <1>1, <2>3
    <2>5. LastLights' = LastLights
      BY <2>1 DEF LastLights
    <2>6. QED
      BY <1>1, <2>1, <2>2, <2>4, <2>5
  <1>5. CASE SendRequests
    <2>1. /\ arm' = "requests" /\ wire' = packet /\ wire.lights = {}
          /\ UNCHANGED <<lights, ipc, newLights>>
          /\ \/ packet' = packet
             \/ packet'.lights = {} /\ call' = call
      BY <1>1, <1>5, PacketFact DEF SendRequests, lightVars
    <2>2. CASE packet.lights = {lights}
      <3>1. packet'.lights = {} \/ packet'.lights = {lights}
        BY <2>1, <2>2
      <3>2. QED
        BY <2>1, <2>2, <3>1
    <2>3. CASE packet.lights = {}
      <3>1. call' = call \/ call \in {"exit", "gone"}
        BY <1>1, <1>5 DEF SendRequests, SleepUnderWay
      <3>2. packet'.lights = {}
        BY <2>1, <2>3
      <3>3. QED
        BY <1>1, <2>1, <2>3, <3>1, <3>2 DEF LastLights
    <2>4. QED
      BY <1>1, <2>2, <2>3
  <1>6. CASE ProcessRequests
    <2>1. wire' = NoRequests /\ UNCHANGED <<call, lights, packet>>
      BY <1>6 DEF ProcessRequests, mipsVars, appVars
    <2>2. CASE Outcome(wire.orders) = "asleep"
      <3>1. call = "sleep"
        BY <1>1, <2>2 DEF Outcome, SleepUnderWay, SleepOnTheWay
      <3>2. QED
        BY <1>1, <2>1, <3>1, PacketFact
    <2>3. CASE Outcome(wire.orders) # "asleep"
      <3>1. /\ wire.lights = {} => LastLights' = LastLights
            /\ wire.lights = {lights} => LastLights' = lights
        BY <1>1, <1>6, <2>3, LastFact DEF TypeOK
      <3>2. QED
        BY <1>1, <2>1, <3>1, PacketFact
    <2>4. QED
      BY <2>2, <2>3
  <1>7. CASE SetBacklight
    <2>1. /\ newLights' = Head(ipc) /\ ipc' = Tail(ipc) /\ ipc # <<>>
          /\ UNCHANGED <<call, lights, packet, arm, wire>>
      BY <1>7 DEF SetBacklight, mipsVars, appVars
    <2>2. LastLights' = LastLights
      BY <1>1, <2>1, SeqFact DEF LastLights, TypeOK
    <2>3. QED
      BY <1>1, <2>1, <2>2
  <1>8. QED
    BY <1>2, <1>3, <1>4, <1>5, <1>6, <1>7
    DEF Next, AppCall, InCall, MipsIrq, ArmStep, Arm7Step

-----------------------------------------------------------------------------
(* The theorems.                                                              *)

(* The inductive invariant of requests: types, and what the last setting on   *)
(* its way to the ARM7 is while the DS sleeps.                                *)
THEOREM RequestsInvariant == Spec => []RequestsInv
  <1>1. RequestsInv /\ [Next]_vars => RequestsInv'
    BY AppStepInv, IrqStepInv, DsStepInv, StutterInv DEF Next
  <1>2. QED
    BY InitInv, <1>1, PTL DEF Spec

(* The variables keep their types, and _Exit has left its order in the packet *)
(* until that was sent (requests.c, main.c of the ARM9 and the ARM7).         *)
THEOREM RequestsTypes == Spec => []TypeOK
  <1>1. RequestsInv => TypeOK
    BY DEF RequestsInv
  <1>2. QED
    BY RequestsInvariant, <1>1, PTL

(* Whatever else was asked of the DS in the same packet as sleep, and wherever *)
(* the lid is, a DS that sleeps has had its lights turned off last            *)
(* (process_requests).                                                        *)
THEOREM AsleepIsDark == Spec => []SleepsDark
  <1>1. RequestsInv => SleepsDark
    BY DEF RequestsInv, DarkIsLast, SleepsDark
  <1>2. QED
    BY RequestsInvariant, <1>1, PTL

(* With a lid that is left alone until all sides have acted upon it, the      *)
(* backlights that the ARM7 has been told are those last set by the           *)
(* application (DS2_SetScreenBacklights), once nothing is left to send: for   *)
(* any number of screens, however settings, input and DS2_SystemSleep are     *)
(* interleaved, and also after the DS has slept.                              *)
THEOREM LightsEndAsAsked == Steady => (Spec => []LightsAsAsked)
  <1>1. Init => SteadyInv
    <2>1. Init => LidKnown
      BY DEF Init, LidKnown
    <2>2. Init => SleepUnderWay
      BY PacketFact DEF Init, SleepUnderWay, SleepOnTheWay
    <2>3. Init => LightsOnTheWay
      BY PacketFact DEF Init, LightsOnTheWay, LastLights
    <2>4. QED
      BY <2>1, <2>2, <2>3 DEF SteadyInv
  <1>2. SteadyInv => LightsAsAsked
    BY PacketFact DEF SteadyInv, LightsOnTheWay, LastLights, LightsAsAsked
  <1>3. ASSUME Steady PROVE Spec => []LightsAsAsked
    <2>1. RequestsInv /\ SteadyInv /\ [Next]_vars => SteadyInv'
      BY <1>3, LidStep, SleepStep, LightsStep DEF SteadyInv
    <2>2. QED
      BY <1>1, <1>2, <2>1, RequestsInvariant, PTL DEF Spec
  <1>4. QED
    BY <1>3
=============================================================================
