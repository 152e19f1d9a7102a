------------------------------ MODULE Requests ------------------------------
(***************************************************************************)
(* What the application asks of the Nintendo DS itself: backlights, screen *)
(* swap, sleep, shutdown and reset.  Requests gather in one packet until   *)
(* the ARM9 asks for it.  The ARM9 passes the backlights on to the ARM7,   *)
(* and sleeps until the lid is open; the position of the lid comes back to *)
(* the application as a button of the input.                               *)
(*                                                                         *)
(* The link is the one of CardLink, reduced to what it does for requests   *)
(* and input: one exchange at a time, input first.  Screen swap and        *)
(* backlights take effect in the next frame of the DS: what is kept of     *)
(* them is the setting for that frame.                                     *)
(***************************************************************************)
EXTENDS Naturals, Sequences

CONSTANTS
    Screens,   \* enum DS_Screen, as bits
    Steady,    \* is the lid left alone until all sides have acted upon it?
    MaxIpc     \* bound: backlight settings on their way to the ARM7

ASSUME SteadyAssumption == Steady \in BOOLEAN
ASSUME IpcAssumption == MaxIpc \in Nat \ {0, 1}

VARIABLES
    call,      \* MIPS: the call that the application is in
    saved,     \* backlights, in DS2_SystemSleep
    lights,    \* vid_backlights
    swap,      \* vid_swap
    packet,    \* requests
    state, presses, releases,   \* DS_BUTTON_LID in in_state, in_presses, ...
    arm,       \* ARM9: the exchange that it is in, or its state
    wire,      \* the packet being received
    note,      \* DS_BUTTON_LID in the INPUT command being sent
    told,      \* PENDING_SEND_INPUT
    input,     \* DS_BUTTON_LID in input
    answer,    \* what the ARM7 has read and the ARM9 has yet to take
    swapped,   \* new_swap_state, the swap of the next frame
    ipc,       \* IPC_SET_BACKLIGHT values on their way to the ARM7
    newLights, \* ARM7: new_backlights, those of its next frame
    lid        \* the lid is closed

appVars == <<call, saved, lights, swap>>
inVars == <<state, presses, releases>>
mipsVars == <<appVars, packet, inVars>>
inputVars == <<told, input, answer>>
lightVars == <<ipc, newLights>>
vars == <<mipsVars, arm, wire, note, inputVars, swapped, lightVars, lid>>

Orders == {"sleep", "shutdown", "reset"}

\* A value that may be there: none or one.
Optional(S) == {{}} \cup {{x} : x \in S}
Packets == [lights : Optional(SUBSET Screens), swap : Optional(BOOLEAN),
            orders : SUBSET Orders]
NoRequests == [lights |-> {}, swap |-> {}, orders |-> {}]

\* A call that never returns has left its order in the packet, or sent it.
TypeOK ==
    /\ call \in {"idle", "sleep", "restore", "shutdown", "exit", "gone"}
    /\ saved \subseteq Screens /\ lights \subseteq Screens /\ swap \in BOOLEAN
    /\ packet \in Packets
    /\ call = "exit" => "reset" \in packet.orders
    /\ state \in BOOLEAN /\ presses \in BOOLEAN /\ releases \in BOOLEAN
    /\ arm \in {"loop", "input", "ask", "requests", "asleep", "off", "reset"}
    /\ wire \in Packets
    /\ note \in BOOLEAN /\ told \in BOOLEAN /\ input \in BOOLEAN
    /\ answer \in Optional(BOOLEAN)
    /\ swapped \in BOOLEAN
    /\ ipc \in Seq(SUBSET Screens) /\ Len(ipc) <= MaxIpc
    /\ newLights \subseteq Screens
    /\ lid \in BOOLEAN

Init ==
    /\ call = "idle" /\ saved = {} /\ lights = Screens /\ swap = FALSE
    /\ packet = NoRequests
    /\ lid \in BOOLEAN /\ state = lid /\ presses = FALSE /\ releases = FALSE
    /\ arm = "loop" /\ wire = NoRequests /\ note = FALSE
    /\ told = FALSE /\ input = lid /\ answer = {}
    /\ swapped = FALSE
    /\ ipc = <<>> /\ newLights = Screens

-----------------------------------------------------------------------------
(* The lid. *)

\* Everyone knows where the lid is, and DS2_SystemSleep is not about to act on
\* its position.
Noticed ==
    /\ state = lid /\ ~presses /\ ~releases
    /\ input = lid /\ answer = {}
    /\ arm = "input" => note = lid
    /\ call = "sleep" => arm = "asleep"

MoveLid ==
    /\ Steady => Noticed
    /\ lid' = ~lid
    /\ UNCHANGED <<mipsVars, arm, wire, note, inputVars, swapped, lightVars>>

-----------------------------------------------------------------------------
(* The application. *)

SetLights(l) ==
    /\ lights' = l
    /\ packet' = [packet EXCEPT !.lights = {l}]

\* DS2_SetScreenBacklights.
SetScreenBacklights(l) ==
    /\ call = "idle"
    /\ SetLights(l)
    /\ UNCHANGED <<call, saved, swap, inVars, arm, wire, note, inputVars,
                   swapped, lightVars, lid>>

\* DS2_SetScreenSwap.
SetScreenSwap(s) ==
    /\ call = "idle"
    /\ swap' = s
    /\ packet' = [packet EXCEPT !.swap = {s}]
    /\ UNCHANGED <<call, saved, lights, inVars, arm, wire, note, inputVars,
                   swapped, lightVars, lid>>

\* DS2_GetInputState, for the lid: what is read, and what stays queued.
Reading == (state \/ presses) /\ ~(state /\ releases)
Read ==
    /\ state' = Reading
    /\ presses' = (presses /\ state)
    /\ releases' = (releases /\ ~state)

GetInputState ==
    /\ call = "idle"
    /\ Read
    /\ UNCHANGED <<appVars, packet, arm, wire, note, inputVars, swapped,
                   lightVars, lid>>

\* DS2_SystemSleep, up to the end of its critical section, in an application
\* that has read that the lid is closed.
SystemSleep ==
    /\ call = "idle" /\ state
    /\ Steady => lid
    /\ saved' = lights
    /\ packet' = [packet EXCEPT !.orders = @ \cup {"sleep"}]
    /\ call' = "sleep"
    /\ UNCHANGED <<lights, swap, inVars, arm, wire, note, inputVars, swapped,
                   lightVars, lid>>

\* A round of DS2_AwaitNoButtonsIn(DS_BUTTON_LID).
AwaitLid ==
    /\ call = "sleep"
    /\ Read
    /\ call' = IF Reading THEN "sleep" ELSE "restore"
    /\ UNCHANGED <<saved, lights, swap, packet, arm, wire, note, inputVars,
                   swapped, lightVars, lid>>

\* Mutant: the backlights are left to the DS.
LeaveDark ==
    /\ call = "restore"
    /\ call' = "idle" /\ saved' = {}
    /\ UNCHANGED <<lights, packet, swap, inVars, arm, wire, note, inputVars,
                   swapped, lightVars, lid>>

\* The end of DS2_SystemSleep.
Restore ==
    /\ call = "restore"
    /\ SetLights(saved)
    /\ call' = "idle" /\ saved' = {}
    /\ UNCHANGED <<swap, inVars, arm, wire, note, inputVars, swapped,
                   lightVars, lid>>

\* DS2_SystemShutDown and _Exit, which do not return.
End(order, c) ==
    /\ call = "idle"
    /\ packet' = [packet EXCEPT !.orders = @ \cup {order}]
    /\ call' = c
    /\ UNCHANGED <<saved, lights, swap, inVars, arm, wire, note, inputVars,
                   swapped, lightVars, lid>>

InCall == AwaitLid \/ Restore
AppCall ==
    \/ \E l \in SUBSET Screens : SetScreenBacklights(l)
    \/ \E s \in BOOLEAN : SetScreenSwap(s)
    \/ GetInputState \/ SystemSleep
    \/ End("shutdown", "shutdown") \/ End("reset", "exit")

-----------------------------------------------------------------------------
(* The card command interrupt of the MIPS. *)

\* CARD_COMMAND_INPUT: _merge_input, for the lid.
MergeInput ==
    /\ arm = "input"
    /\ presses' = (presses \/ (note /\ (~state \/ releases)))
    /\ releases' = (releases \/ (~note /\ (state \/ presses)))
    /\ arm' = "loop" /\ note' = FALSE
    /\ UNCHANGED <<appVars, packet, state, wire, inputVars, swapped, lightVars,
                   lid>>

\* Mutants: the packet is not emptied; the MIPS goes on after a reset.
KeepPacket ==
    /\ arm = "ask"
    /\ wire' = packet
    /\ IF "reset" \in packet.orders THEN call' = "gone" ELSE UNCHANGED call
    /\ arm' = "requests"
    /\ UNCHANGED <<saved, lights, swap, packet, inVars, note, inputVars,
                   swapped, lightVars, lid>>
EmptyAnyPacket ==
    /\ arm = "ask"
    /\ wire' = packet
    /\ packet' = NoRequests
    /\ arm' = "requests"
    /\ UNCHANGED <<appVars, inVars, note, inputVars, swapped, lightVars, lid>>

\* _send_requests; after a request for a reset the MIPS resets itself.
SendRequests ==
    /\ arm = "ask"
    /\ wire' = packet
    /\ IF "reset" \in packet.orders
       THEN call' = "gone" /\ UNCHANGED packet
       ELSE packet' = NoRequests /\ UNCHANGED call
    /\ arm' = "requests"
    /\ UNCHANGED <<saved, lights, swap, inVars, note, inputVars, swapped,
                   lightVars, lid>>

MipsIrq == MergeInput \/ SendRequests

-----------------------------------------------------------------------------
(* The ARM9. *)

On == arm \notin {"off", "reset"}

\* PENDING_SEND_INPUT, in main.
SendInput ==
    /\ arm = "loop" /\ told
    /\ told' = FALSE
    /\ note' = input
    /\ arm' = "input"
    /\ UNCHANGED <<mipsVars, wire, input, answer, swapped, lightVars,
                   lid>>

\* PENDING_SEND_QUEUE, in main.
Ask ==
    /\ arm = "loop" /\ ~told /\ call # "gone" /\ packet # NoRequests
    /\ arm' = "ask"
    /\ UNCHANGED <<mipsVars, wire, note, inputVars, swapped, lightVars, lid>>

\* Mutant: sleep is looked at first.
SleepFirst(p, off) ==
    (IF off THEN <<{}>> ELSE <<>>)
    \o (IF p.lights = {} THEN <<>> ELSE <<CHOOSE l \in p.lights : TRUE>>)

\* What process_requests tells the ARM7.
Settings(p, off) ==
    (IF p.lights = {} THEN <<>> ELSE <<CHOOSE l \in p.lights : TRUE>>)
    \o (IF off THEN <<{}>> ELSE <<>>)

\* What is done of the orders of a packet.
Outcome(orders) ==
    CASE "shutdown" \in orders -> "off"
      [] "sleep" \in orders \ {"shutdown"} -> "asleep"
      [] orders = {"reset"} -> "reset"
      [] OTHER -> "loop"

\* process_requests, up to the loop in which the ARM9 sleeps.  The ARM7 takes
\* what it is sent, so there is room.
ProcessRequests ==
    /\ arm = "requests"
    /\ Len(ipc) + 2 <= MaxIpc
    /\ arm' = Outcome(wire.orders)
    /\ ipc' = ipc \o Settings(wire, Outcome(wire.orders) = "asleep")
    /\ swapped' = IF wire.swap = {} THEN swapped ELSE wire.swap = {TRUE}
    /\ wire' = NoRequests
    /\ UNCHANGED <<mipsVars, note, inputVars, newLights, lid>>

\* The end of that loop.
WakeUp ==
    /\ arm = "asleep" /\ ~input
    /\ arm' = "loop"
    /\ UNCHANGED <<mipsVars, wire, note, inputVars, swapped, lightVars, lid>>

\* Mutant: interrupts do not stay on while the DS sleeps.
DeafAsleep ==
    /\ On /\ arm # "asleep" /\ answer # {}
    /\ input' = (answer = {TRUE}) /\ answer' = {}
    /\ told' = TRUE
    /\ UNCHANGED <<mipsVars, arm, wire, note, swapped, lightVars, lid>>

\* fifo_value_handler.
ReadingIrq ==
    /\ On /\ answer # {}
    /\ input' = (answer = {TRUE}) /\ answer' = {}
    /\ told' = TRUE
    /\ UNCHANGED <<mipsVars, arm, wire, note, swapped, lightVars, lid>>

ArmStep == SendInput \/ Ask \/ ProcessRequests \/ WakeUp

-----------------------------------------------------------------------------
(* The ARM7. *)

\* IPC_GET_INPUT, which the VBlank handler of the ARM9 sends in every frame.
Answer ==
    /\ On /\ answer = {}
    /\ answer' = {lid}
    /\ UNCHANGED <<mipsVars, arm, wire, note, told, input, swapped, lightVars,
                   lid>>

\* IPC_SET_BACKLIGHT.
SetBacklight ==
    /\ ipc # <<>>
    /\ newLights' = Head(ipc) /\ ipc' = Tail(ipc)
    /\ UNCHANGED <<mipsVars, arm, wire, note, inputVars, swapped, lid>>

Arm7Step == Answer \/ SetBacklight

Next == MoveLid \/ AppCall \/ InCall \/ MipsIrq \/ ArmStep \/ ReadingIrq
        \/ Arm7Step

\* The three processors run on, and VBlanks come.  A main loop that has nothing
\* else to send again and again asks for the queue.
Fairness ==
    /\ WF_vars(InCall) /\ WF_vars(MipsIrq) /\ WF_vars(ArmStep) /\ SF_vars(Ask)
    /\ WF_vars(ReadingIrq) /\ WF_vars(Answer) /\ WF_vars(SetBacklight)

Spec == Init /\ [][Next]_vars /\ Fairness

-----------------------------------------------------------------------------
(* Safety. *)

\* "Until then with backlights turned off" (power.txt): whatever else was in the
\* packet, a sleeping DS ends up dark.
SleepsDark == arm = "asleep" /\ ipc = <<>> => newLights = {}

\* "The new state will be applied in the next vertical blanking period" (ds.h):
\* once nothing is left to send, the backlights are those last asked for, and
\* DS2_SystemSleep has brought them back.
LightsAsAsked ==
    call = "idle" /\ packet = NoRequests /\ arm \in {"loop", "input"}
    /\ ipc = <<>> => newLights = lights

-----------------------------------------------------------------------------
(* Liveness.  An exchange takes microseconds, and readings come once in a    *)
(* frame: the main loop is not always busy with them.                       *)

Unstarved == []<>(arm = "asleep" \/ ~On \/ (arm = "loop" /\ ~told))

\* When the application leaves the DS alone, its screens end up as asked.
SettingsApply ==
    Unstarved /\ <>[][~AppCall]_vars =>
        <>[](call = "idle" => newLights = lights /\ swapped = swap)

\* "The function returns when the lid is opened back up" (power.txt).
SleepReturns == Unstarved /\ <>[]~lid => (call = "sleep" ~> call = "idle")

\* Settings and sleep do what was asked of them.
RequestsTakeEffect == SettingsApply /\ SleepReturns

\* A shutdown and a reset reach the DS, which a sleep in the same packet would
\* keep from it.
EndsAsAsked ==
    Unstarved => /\ call = "shutdown" ~> arm = "off"
                 /\ call = "exit" ~> arm = "reset"
=============================================================================
