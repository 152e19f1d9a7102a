----------------------------- MODULE SendQueue ------------------------------
(***************************************************************************)
(* What the card link promises the application: a set of kinds of data to  *)
(* send, each handed to the Nintendo DS in order of priority, one at a     *)
(* time.  A fatal report takes everything else with it and closes the      *)
(* link.                                                                   *)
(***************************************************************************)
EXTENDS Naturals

CONSTANTS Kinds,    \* kinds of data
          Rank,     \* the priority of a kind: 0 goes first
          Streams,  \* kinds announced again while they have more to send
          Fatal,    \* reports after which nothing is sent
          None

VARIABLES pending,  \* kinds announced and not yet taken
          transit,  \* kind on its way to the DS, or None
          closed    \* a fatal report has been delivered

Init == pending = {} /\ transit = None /\ closed = FALSE

\* A critical section of the application: something to send, perhaps in the
\* place of the audio that is given up.
Submit(k, dropped) ==
    /\ ~closed
    /\ pending' = (pending \ dropped) \cup {k}
    /\ UNCHANGED <<transit, closed>>

Take(k) ==
    /\ transit = None
    /\ k \in pending
    /\ \A j \in pending : Rank[k] <= Rank[j]
    /\ transit' = k
    /\ \/ k \notin Fatal /\ pending' = pending \ {k}
       \/ k \in Streams /\ pending' = pending
       \/ k \in Fatal /\ pending' = {}
    /\ UNCHANGED closed

Deliver ==
    /\ transit # None
    /\ transit' = None
    /\ closed' = (transit \in Fatal)
    /\ UNCHANGED pending

Next ==
    \/ \E k \in Kinds : Submit(k, {}) \/ Submit(k, {"AUDIO"})
    \/ \E k \in Kinds : Take(k)
    \/ Deliver

vars == <<pending, transit, closed>>
Spec == Init /\ [][Next]_vars
=============================================================================
