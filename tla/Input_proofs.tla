---------------------------- MODULE Input_proofs ----------------------------
(***************************************************************************)
(* Proofs about Input, for any set of buttons and any number of places     *)
(* that can be touched.  Each button is three bits of the queues, so that  *)
(* the steps come down to propositional facts about one button.            *)
(***************************************************************************)
EXTENDS Input, TLAPS

(* What is due is still ahead of the state: nothing has been read since a     *)
(* wait put it there, as a wait begins with nothing due.                      *)
DueIsAhead ==
    /\ due.pressed \subseteq presses.buttons \ state.buttons
    /\ due.released \subseteq state.buttons \cap releases
    /\ pc # "idle" => due = NoEdges

(* Every edge that is owed is queued.                                         *)
OwedIsQueued ==
    /\ owed.pressed \subseteq presses.buttons
    /\ owed.released \subseteq releases

InputInv == TypeOK /\ DueIsAhead /\ OwedIsQueued

-----------------------------------------------------------------------------
(* The initial states.                                                        *)

LEMMA InitInv == Init => InputInv
  BY TouchAssumption, SpotAssumption
  DEF Init, InputInv, TypeOK, DueIsAhead, OwedIsQueued, Readings, Inputs, Nothing, NoEdges, Edges,
      Awaits, Repeats

(* The critical section of DS2_GetInputState keeps types and queues what is   *)
(* owed.                                                                      *)
LEMMA ReadKeeps ==
  ASSUME TypeOK, OwedIsQueued, Read
  PROVE  /\ Reading \in Inputs /\ PressesNow \subseteq Buttons
         /\ state' \in Inputs /\ presses' \in Inputs /\ releases' \subseteq Buttons
         /\ owed' \in Edges
         /\ OwedIsQueued'
  <1>1. Reading \in Inputs /\ PressesNow \subseteq Buttons
    BY DEF TypeOK, Inputs, Reading, PressesNow, ReleasesNow
  <1>2. state' \in Inputs /\ presses' \in Inputs /\ releases' \subseteq Buttons /\ owed' \in Edges
    BY <1>1 DEF TypeOK, Inputs, Edges, Read
  <1>3. owed'.pressed \subseteq presses'.buttons
    BY DEF TypeOK, Inputs, Edges, Read, Reading, PressesNow, ReleasesNow, OwedIsQueued
  <1>4. owed'.released \subseteq releases'
    BY DEF TypeOK, Inputs, Edges, Read, Reading, PressesNow, ReleasesNow, OwedIsQueued
  <1>5. QED
    BY <1>1, <1>2, <1>3, <1>4 DEF OwedIsQueued

-----------------------------------------------------------------------------
(* Types.                                                                     *)

LEMMA TypeStep == TypeOK /\ OwedIsQueued /\ [Next]_vars => TypeOK'
  <1> SUFFICES ASSUME TypeOK, OwedIsQueued, [Next]_vars PROVE TypeOK'
    OBVIOUS
  <1>1. CASE GetInputState
    BY <1>1, ReadKeeps DEF GetInputState, TypeOK, callVars, NoEdges, Edges
  <1>2. ASSUME NEW f \in Awaits, NEW m \in SUBSET Buttons, Call(f, m) PROVE TypeOK'
    BY <1>2 DEF Call, TypeOK, inVars, NoEdges, Edges, Awaits
  <1>3. CASE ReadOld
    BY <1>3, ReadKeeps DEF ReadOld, TypeOK
  <1>4. CASE ReadNew
    BY <1>4, ReadKeeps DEF ReadNew, TypeOK
  <1>5. CASE Sleep
    BY <1>5 DEF Sleep, TypeOK, inVars, ghostVars
  <1>6. CASE StopAwait
    BY <1>6, SpotAssumption DEF StopAwait, Return, TypeOK, inVars, Nothing, Inputs
  <1>7. CASE RepeatPresses
    BY <1>7, SpotAssumption DEF RepeatPresses, Return, TypeOK, Nothing, Inputs, NoEdges, Edges
  <1>8. CASE RepeatReleases
    BY <1>8, SpotAssumption DEF RepeatReleases, Return, TypeOK, Nothing, Inputs, NoEdges, Edges
  <1>9. ASSUME NEW r \in Readings, MergeInput(r) PROVE TypeOK'
    <2>1. r \in Inputs
      BY DEF Readings
    <2>2. presses' \in Inputs /\ releases' \subseteq Buttons
      BY <1>9, <2>1 DEF MergeInput, TypeOK, Inputs, MergedPresses, MergedReleases
    <2>3. owed' \in Edges
      BY <1>9, <2>1 DEF MergeInput, TypeOK, Inputs, Edges, InStep
    <2>4. QED
      BY <1>9, <2>2, <2>3 DEF MergeInput, TypeOK, Restarted
  <1>10. CASE OtherIrq
    BY <1>10 DEF OtherIrq, TypeOK, Restarted, inVars, ghostVars
  <1>11. CASE UNCHANGED vars
    BY <1>11 DEF TypeOK, vars, inVars, callVars, ghostVars
  <1>12. QED
    BY <1>1, <1>2, <1>3, <1>4, <1>5, <1>6, <1>7, <1>8, <1>9, <1>10, <1>11
    DEF Next, Calls, InAwait

-----------------------------------------------------------------------------
(* What is owed.                                                              *)

LEMMA OwedStep == TypeOK /\ OwedIsQueued /\ [Next]_vars => OwedIsQueued'
  <1> SUFFICES ASSUME TypeOK, OwedIsQueued, [Next]_vars PROVE OwedIsQueued'
    OBVIOUS
  <1>1. CASE GetInputState \/ ReadOld \/ ReadNew
    BY <1>1, ReadKeeps DEF GetInputState, ReadOld, ReadNew
  <1>2. CASE Calls \/ Sleep \/ StopAwait \/ OtherIrq \/ UNCHANGED vars
    BY <1>2 DEF Calls, Call, Sleep, StopAwait, OtherIrq, OwedIsQueued, vars, inVars, ghostVars
  <1>3. CASE RepeatPresses \/ RepeatReleases
    BY <1>3 DEF RepeatPresses, RepeatReleases, OwedIsQueued, TypeOK, Inputs
  <1>4. ASSUME NEW r \in Readings, MergeInput(r) PROVE OwedIsQueued'
    <2> USE <1>4 DEF MergeInput, TypeOK, Inputs, Readings, Edges
    <2>1. InStep \cap (r.buttons \ last.buttons) \subseteq presses'.buttons
      BY DEF InStep, Settled, MergedPresses
    <2>2. InStep \cap (last.buttons \ r.buttons) \subseteq releases'
      BY DEF InStep, Settled, MergedReleases
    <2>3. presses.buttons \subseteq presses'.buttons /\ releases \subseteq releases'
      OBVIOUS
    <2>4. QED
      BY <2>1, <2>2, <2>3 DEF OwedIsQueued
  <1>5. QED
    BY <1>1, <1>2, <1>3, <1>4 DEF Next, InAwait

-----------------------------------------------------------------------------
(* What is due.                                                               *)

LEMMA DueStep == TypeOK /\ DueIsAhead /\ [Next]_vars => DueIsAhead'
  <1> SUFFICES ASSUME TypeOK, DueIsAhead, [Next]_vars PROVE DueIsAhead'
    OBVIOUS
  <1>1. CASE GetInputState
    BY <1>1 DEF GetInputState, DueIsAhead, NoEdges
  <1>2. CASE Calls
    BY <1>2 DEF Calls, Call, DueIsAhead, NoEdges
  <1>3. CASE ReadOld \/ ReadNew
    BY <1>3 DEF ReadOld, ReadNew, DueIsAhead, NoEdges
  <1>4. CASE Sleep \/ StopAwait \/ OtherIrq \/ UNCHANGED vars
    BY <1>4 DEF Sleep, StopAwait, Return, OtherIrq, DueIsAhead, vars, inVars, callVars, ghostVars
  <1>5. CASE RepeatPresses
    BY <1>5 DEF RepeatPresses, Return, DueIsAhead, NoEdges, TypeOK, Inputs
  <1>6. CASE RepeatReleases
    BY <1>6 DEF RepeatReleases, Return, DueIsAhead, NoEdges, TypeOK, Inputs
  <1>7. ASSUME NEW r \in Readings, MergeInput(r) PROVE DueIsAhead'
    BY <1>7 DEF MergeInput, Restarted, DueIsAhead, TypeOK, Inputs
  <1>8. QED
    BY <1>1, <1>2, <1>3, <1>4, <1>5, <1>6, <1>7 DEF Next, InAwait

-----------------------------------------------------------------------------
(* The theorems.                                                              *)

(* The inductive invariant of the queues, whatever readings arrive between    *)
(* the steps of the functions that read and wait.                             *)
THEOREM InputInvariant == Spec => []InputInv
  <1>1. InputInv /\ [Next]_vars => InputInv'
    BY TypeStep, OwedStep, DueStep DEF InputInv
  <1>2. QED
    BY InitInv, <1>1, PTL DEF Spec

(* An edge that no reading has shown is in its queue (_merge_input,           *)
(* DS2_GetInputState).                                                        *)
THEOREM EdgesQueued == Spec => []EdgesAreQueued
  <1>1. InputInv => EdgesAreQueued
    BY DEF InputInv, OwedIsQueued, EdgesAreQueued
  <1>2. QED
    BY InputInvariant, <1>1, PTL

(* What ended a wait for buttons is in the next reading (the last critical    *)
(* sections of DS2_AwaitAnyButtonsIn and DS2_AwaitNotAllButtonsIn).           *)
THEOREM NextReadingShows == Spec => []NextReadingShowsIt
  <1>1. InputInv => NextReadingShowsIt
    BY DEF InputInv, DueIsAhead, NextReadingShowsIt, Reading, PressesNow, ReleasesNow, TypeOK,
           Inputs, Edges
  <1>2. QED
    BY InputInvariant, <1>1, PTL
=============================================================================
