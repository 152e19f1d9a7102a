------------------------------- MODULE Input -------------------------------
(***************************************************************************)
(* Button and touchscreen input on the MIPS side.  Readings arrive in the  *)
(* card command interrupt and are merged into queues, one press and one    *)
(* release deep for each button; the application reads the queues, or      *)
(* waits in a block of code that every interrupt restarts.                 *)
(***************************************************************************)
EXTENDS Naturals

CONSTANTS
    Buttons,   \* buttons of the DS, as bits of DS_InputState.buttons
    Touch,     \* DS_BUTTON_TOUCH
    MaxSpot    \* bound: places that can be touched

ASSUME TouchAssumption == Touch \in Buttons
ASSUME SpotAssumption == MaxSpot \in Nat

\* The functions that wait, and those that make sure that the application will
\* see what they have waited for.
Awaits == {"Change", "All", "Any", "NotAll", "No"}
Repeats == {"Any", "NotAll"}

VARIABLES
    state,     \* in_state
    presses,   \* in_presses
    releases,  \* in_releases.buttons
    fn,        \* the function that the application waits in
    mask,      \* its argument
    pc,        \* the point that it is at
    old,       \* old_input of DS2_AwaitInputChange
    got,       \* input_state: the reading that was last tested
    \* The rest is for the properties alone.
    last,      \* the last reading that the DS has sent
    owed,      \* edges in those readings that nobody has read since
    due,       \* what the next reading of the application should show
    swallowed  \* presses that DS2_AwaitInputChange alone has seen

inVars == <<state, presses, releases>>
callVars == <<fn, mask, pc, old, got>>
ghostVars == <<last, owed, due, swallowed>>
vars == <<inVars, callVars, ghostVars>>

Inputs == [buttons : SUBSET Buttons, spot : 0..MaxSpot]

\* The ARM9 sends (0, 0) when nothing is touched.
Readings == {r \in Inputs : Touch \notin r.buttons => r.spot = 0}
Nothing == [buttons |-> {}, spot |-> 0]

Edges == [pressed : SUBSET Buttons, released : SUBSET Buttons]
NoEdges == [pressed |-> {}, released |-> {}]

TypeOK ==
    /\ state \in Inputs /\ presses \in Inputs
    /\ releases \subseteq Buttons
    /\ fn \in Awaits \cup {"none"}
    /\ mask \subseteq Buttons
    /\ pc \in {"idle", "old", "read", "test", "asleep", "repeat"}
    /\ pc = "idle" <=> fn = "none"
    /\ pc = "old" => fn = "Change"
    /\ pc = "repeat" => fn \in Repeats
    /\ old \in Inputs /\ got \in Inputs
    /\ last \in Readings
    /\ owed \in Edges /\ due \in Edges
    /\ swallowed \subseteq Buttons

\* The reading with which _pending_recv_protocol establishes the link is stored
\* in in_state as it is.
Init ==
    /\ last \in Readings /\ state = last
    /\ presses = Nothing /\ releases = {}
    /\ fn = "none" /\ mask = {} /\ pc = "idle"
    /\ old = Nothing /\ got = Nothing
    /\ owed = NoEdges /\ due = NoEdges /\ swallowed = {}

-----------------------------------------------------------------------------
(* The card command interrupt. *)

\* Mutant: a press behind a pending release is forgotten.
NewPresses(r) == r \ state.buttons

\* Presses and releases to queue for the buttons r: new ones, and those of
\* buttons whose last change is still pending.
MergedPresses(r) ==
    (r \ state.buttons) \cup (state.buttons \cap r \cap releases)
MergedReleases(r) ==
    (state.buttons \ r)
    \cup {b \in Buttons \ (state.buttons \cup r) : b \in presses.buttons}

\* Where readings will leave each button once the queues are empty.  A release
\* behind a press behind a release is not queued, so this may differ from the
\* last reading; every reading of the DS then repairs it.
Settled == {b \in Buttons :
               IF b \in state.buttons THEN b \in releases => b \in presses.buttons
                                      ELSE b \in presses.buttons \ releases}
InStep == {b \in Buttons : b \in Settled <=> b \in last.buttons}

\* Mutant: the block is never restarted.
Resumed == pc

\* Any interrupt restarts the block of code that awaits.
Restarted == IF pc \in {"read", "test", "asleep"} THEN "read" ELSE pc

\* CARD_COMMAND_INPUT: _merge_input.
MergeInput(r) ==
    /\ presses' = [buttons |-> presses.buttons \cup MergedPresses(r.buttons),
                   spot |-> IF Touch \in r.buttons THEN r.spot
                                                   ELSE presses.spot]
    /\ releases' = releases \cup MergedReleases(r.buttons)
    /\ pc' = Restarted
    /\ last' = r
    /\ owed' =
          [pressed |-> owed.pressed
                          \cup (InStep \cap (r.buttons \ last.buttons)),
           released |-> owed.released
                           \cup (InStep \cap (last.buttons \ r.buttons))]
    /\ UNCHANGED <<state, fn, mask, old, got, due, swallowed>>

\* Any other interrupt, of which there are hundreds per second.
OtherIrq ==
    /\ pc \in {"test", "asleep"}
    /\ pc' = Restarted
    /\ UNCHANGED <<inVars, fn, mask, old, got, ghostVars>>

-----------------------------------------------------------------------------
(* The application. *)

\* What DS2_GetInputState makes of the queues.
PressesNow == presses.buttons \ state.buttons
ReleasesNow == state.buttons \cap releases
Reading == [buttons |-> (state.buttons \cup PressesNow) \ ReleasesNow,
            spot |-> presses.spot]

\* Mutant: presses that have been applied stay queued.
ReadAndKeep ==
    /\ state' = Reading
    /\ releases' = releases \ ReleasesNow
    /\ owed' = [pressed |-> owed.pressed \ Reading.buttons,
                released |-> owed.released \cap Reading.buttons]
    /\ UNCHANGED presses

\* The critical section of DS2_GetInputState.
Read ==
    /\ state' = Reading
    /\ presses' = [presses EXCEPT !.buttons = @ \ PressesNow]
    /\ releases' = releases \ ReleasesNow
    /\ owed' = [pressed |-> owed.pressed \ Reading.buttons,
                released |-> owed.released \cap Reading.buttons]

\* DS2_GetInputState, called by the application.
GetInputState ==
    /\ pc = "idle"
    /\ Read
    /\ due' = NoEdges
    /\ UNCHANGED <<callVars, last, swallowed>>

\* DS2_AwaitInputChange, DS2_AwaitAllButtonsIn, DS2_AwaitAnyButtonsIn,
\* DS2_AwaitNotAllButtonsIn and DS2_AwaitNoButtonsIn.
Call(f, m) ==
    /\ pc = "idle"
    /\ fn' = f /\ mask' = m
    /\ pc' = IF f = "Change" THEN "old" ELSE "read"
    /\ due' = NoEdges
    /\ swallowed' = {}
    /\ UNCHANGED <<inVars, old, got, last, owed>>

\* DS2_AwaitInputChange reads the input that is to change.
ReadOld ==
    /\ pc = "old"
    /\ Read
    /\ old' = Reading
    /\ swallowed' = PressesNow
    /\ pc' = "read"
    /\ UNCHANGED <<fn, mask, got, last, due>>

\* One round of the loop up to the end of DS2_GetInputState.
ReadNew ==
    /\ pc = "read"
    /\ Read
    /\ got' = Reading
    /\ swallowed' = IF fn = "Change" THEN swallowed \cup PressesNow
                                     ELSE swallowed
    /\ pc' = "test"
    /\ UNCHANGED <<fn, mask, old, last, due>>

\* What each function waits for, in a reading r.
Holds(r) ==
    CASE fn = "Change" -> r # old
      [] fn = "All"    -> mask \subseteq r.buttons
      [] fn = "Any"    -> mask \cap r.buttons # {}
      [] fn = "NotAll" -> ~(mask \subseteq r.buttons)
      [] fn = "No"     -> mask \cap r.buttons = {}
      [] OTHER         -> FALSE

\* DS2_AwaitInterrupt; an interrupt that comes first restarts the block too.
Sleep ==
    /\ pc = "test" /\ ~Holds(got)
    /\ pc' = "asleep"
    /\ UNCHANGED <<inVars, fn, mask, old, got, ghostVars>>

\* The local variables of a function end with it.
Return == pc' = "idle" /\ fn' = "none" /\ mask' = {}
          /\ old' = Nothing /\ got' = Nothing

\* DS2_StopAwait, and the return of the functions that do no more than that.
StopAwait ==
    /\ pc = "test" /\ Holds(got)
    /\ IF fn \in Repeats
       THEN pc' = "repeat" /\ UNCHANGED <<fn, mask, old, got>>
       ELSE Return
    /\ swallowed' = swallowed \ got.buttons
    /\ UNCHANGED <<inVars, last, owed, due>>

\* Mutant: the press is queued but not taken out of in_state.
QueueOnly ==
    /\ pc = "repeat" /\ fn = "Any"
    /\ presses' = [presses EXCEPT !.buttons = @ \cup (got.buttons \cap mask)]
    /\ due' = [NoEdges EXCEPT !.pressed = got.buttons \cap mask]
    /\ Return
    /\ UNCHANGED <<state, releases, last, owed, swallowed>>

\* The last critical section of DS2_AwaitAnyButtonsIn: the next reading shows
\* the buttons that ended the wait.
RepeatPresses ==
    LET ending == got.buttons \cap mask
    IN  /\ pc = "repeat" /\ fn = "Any"
        /\ state' = [state EXCEPT !.buttons = @ \ ending]
        /\ presses' = [presses EXCEPT !.buttons = @ \cup ending]
        /\ due' = [NoEdges EXCEPT !.pressed = ending]
        /\ Return
        /\ UNCHANGED <<releases, last, owed, swallowed>>

\* The last critical section of DS2_AwaitNotAllButtonsIn.
RepeatReleases ==
    /\ pc = "repeat" /\ fn = "NotAll"
    /\ releases' = releases \cup (mask \ got.buttons)
    /\ state' = [state EXCEPT !.buttons = @ \cup mask]
    /\ due' = [NoEdges EXCEPT !.released = mask \ got.buttons]
    /\ Return
    /\ UNCHANGED <<presses, last, owed, swallowed>>

Calls == \E f \in Awaits, m \in SUBSET Buttons :
             m # {} /\ (f = "Change" => m = Buttons) /\ Call(f, m)

InAwait == ReadOld \/ ReadNew \/ Sleep \/ StopAwait
           \/ RepeatPresses \/ RepeatReleases

Next ==
    \/ GetInputState \/ Calls \/ InAwait
    \/ \E r \in Readings : MergeInput(r)
    \/ OtherIrq

\* The ARM9 sends a reading in every frame.  An interrupt may restart the block
\* before its test, but not for ever: there are a few hundred in a second, and a
\* round of the loop takes microseconds.
Fairness ==
    /\ WF_vars(MergeInput(last)) /\ WF_vars(InAwait)
    /\ SF_vars(StopAwait) /\ SF_vars(Sleep)

Spec == Init /\ [][Next]_vars /\ Fairness

-----------------------------------------------------------------------------
(* Safety. *)

\* "Button presses and releases are queued for when it does get input, allowing
\* it to catch even brief moments" (input.txt): an edge that no reading has
\* shown since is still in its queue, however readings and forced edges mix.
EdgesAreQueued ==
    /\ TypeOK
    /\ owed.pressed \subseteq presses.buttons
    /\ owed.released \subseteq releases

\* "Ensure that the buttons that caused this call to succeed are all pressed in
\* the next reading from user code" (input.c), or all released, even if an
\* interrupt changes them between the end of the wait and that reading.
NextReadingShowsIt ==
    /\ due.pressed \subseteq Reading.buttons
    /\ due.released \cap Reading.buttons = {}

\* "Allowing it to catch even brief moments where the user presses or releases a
\* button" (input.txt): a press that DS2_AwaitInputChange takes from the queue is
\* in the reading that it returns.
BriefPressesCaught == pc = "idle" => swallowed = {}

-----------------------------------------------------------------------------
(* Liveness. *)

\* The queues repair themselves: if the application reads on while the user
\* holds still, its readings end up being what the user holds.
HeldStillIsSeen ==
    /\ WF_vars(GetInputState)
    /\ <>[](pc = "idle") /\ <>[][FALSE]_last
    => <>[](state.buttons = last.buttons)

\* A function that waits for buttons returns if the user gets and stays in the
\* position that it waits for, whatever was in the queues.
AwaitsReturn == (fn \in Awaits \ {"Change"} /\ [](pc # "idle" => Holds(last)))
                    ~> pc = "idle"

\* Waits end, and the queues settle.
InputSettles == AwaitsReturn /\ HeldStillIsSeen
=============================================================================
