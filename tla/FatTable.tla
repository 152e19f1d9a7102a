------------------------------ MODULE FatTable ------------------------------
(* The file allocation table of libfat (libfat/source/file_allocation_table.c)*)
(* as operators: "v" is the table of a volume together with what the          *)
(* partition remembers of it.                                                 *)
(*   v.fat          the link of each cluster                                  *)
(*   v.firstFree    where the search for a free cluster starts                *)
(*   v.numberFree   numberFreeCluster                                         *)
(* The table is in the sector cache; its transfers do not fail here.          *)
EXTENDS Integers, FiniteSets

CONSTANTS LastCluster, \* partition->fat.lastCluster
          SlackIsFree  \* whether the table's last sector goes on with zeros

ASSUME TableAssumption ==
    LastCluster \in Nat /\ LastCluster >= 2 /\ LastCluster < 1000 /\ SlackIsFree \in BOOLEAN

CLUSTER_FREE == 0
CLUSTER_FIRST == 2
CLUSTER_EOF == 1000
CLUSTER_ERROR == 2000
Cluster == CLUSTER_FIRST..LastCluster

Tables == [fat : [Cluster -> {CLUSTER_FREE, CLUSTER_EOF} \union Cluster],
           firstFree : CLUSTER_FIRST..LastCluster + 1,
           numberFree : 0..LastCluster - 1]

Least(S) == CHOOSE c \in S : \A d \in S : c <= d

IsValidCluster(c) == c \in Cluster

(* nextCluster past the end of the table reads what lies behind it.           *)
NextCluster(v, c) ==
    IF c \in Cluster THEN v.fat[c]
    ELSE IF c = CLUSTER_FREE \/ SlackIsFree THEN CLUSTER_FREE
    ELSE CLUSTER_EOF

Ends(v, c) == NextCluster(v, c) \in {CLUSTER_FREE, CLUSTER_EOF}

(* Where k links lead from cluster c, or the last cluster if there are fewer. *)
Walk(v, c) ==
    LET from == Cluster \union {c, LastCluster + 1}
        follow == [x \in from |-> IF Ends(v, x) THEN x ELSE NextCluster(v, x)]
        walk[k \in 0..LastCluster] == IF k = 0 THEN c ELSE follow[walk[k - 1]]
    IN  walk

LastOf(v, c) == Walk(v, c)[LastCluster]

Chain(v, c) ==
    LET walk == Walk(v, c) IN
    IF c = CLUSTER_FREE THEN {} ELSE {walk[k] : k \in 0..LastCluster}

FreeClusters(v) == {c \in Cluster : v.fat[c] = CLUSTER_FREE}

(* Where linkFreeCluster looks first: from firstFree on.                      *)
Candidates(v) ==
    {c \in FreeClusters(v) : c >= v.firstFree} \union
    {c \in {v.firstFree} : c > LastCluster /\ SlackIsFree}

\* Mutant: the cluster taken is still counted.
StillCounted(v) == v.numberFree

OneLess(v) == IF v.numberFree > 0 THEN v.numberFree - 1 ELSE 0

(* linkFreeCluster: an existing link is returned; else the first free cluster *)
(* from firstFree on, or else from the beginning, ends the chain.             *)
LinkFreeCluster(v, c) ==
    LET found  == IF Candidates(v) # {} THEN Candidates(v) ELSE FreeClusters(v)
        new    == Least(found)
        linked == [k \in Cluster |-> IF k = new THEN CLUSTER_EOF
                                     ELSE IF k = c THEN new ELSE v.fat[k]]
    IN  IF c > LastCluster THEN [vol |-> v, cluster |-> CLUSTER_ERROR]
        ELSE IF IsValidCluster(NextCluster(v, c)) THEN [vol |-> v, cluster |-> NextCluster(v, c)]
        ELSE IF found = {}
        THEN [vol |-> [v EXCEPT !.firstFree = LastCluster + 1], cluster |-> CLUSTER_ERROR]
        ELSE [vol |-> [fat |-> linked, firstFree |-> new, numberFree |-> OneLess(v)],
              cluster |-> new]

\* Mutant: the clusters given back are not counted.
ClearUncounted(v, c) ==
    IF ~IsValidCluster(c) THEN v
    ELSE [v EXCEPT !.fat = [k \in Cluster |-> IF k \in Chain(v, c) THEN CLUSTER_FREE ELSE @[k]]]

(* clearLinks: the chain from cluster c on is given back.                     *)
ClearLinks(v, c) ==
    IF ~IsValidCluster(c) THEN v
    ELSE [fat |-> [k \in Cluster |-> IF k \in Chain(v, c) THEN CLUSTER_FREE ELSE v.fat[k]],
          firstFree |-> IF c < v.firstFree THEN c ELSE v.firstFree,
          numberFree |-> v.numberFree + Cardinality(Chain(v, c))]

(* trimChain: the first n clusters of the chain are kept (n > 0).             *)
TrimChain(v, c, n) ==
    LET last == Walk(v, c)[n - 1] IN
    [vol |-> [(IF Ends(v, last) THEN v ELSE ClearLinks(v, NextCluster(v, last)))
              EXCEPT !.fat[last] = CLUSTER_EOF],
     cluster |-> last]
=============================================================================
