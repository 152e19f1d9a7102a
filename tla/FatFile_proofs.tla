---------------------------- MODULE FatFile_proofs ----------------------------
(***************************************************************************)
(* Proofs about FatTable and FatFile, for volumes, clusters and sectors of *)
(* any size and any number of files: what the operators of FatTable do to  *)
(* chains, where the bytes of a file are, what the parts of a call do to   *)
(* them, to the position and to the chain of the file, and that each call  *)
(* keeps every cluster accounted for and is one that PosixFile allows.     *)
(***************************************************************************)
EXTENDS FatFile, FiniteSetTheorems, SequenceTheorems, WellFoundedInduction, TLAPS

-----------------------------------------------------------------------------
(* The invariant.                                                             *)

(* The n links p from cluster c on are a chain that ends.                     *)
IsPath(v, c, p, n) ==
    /\ p[0] = c
    /\ \A i, j \in 0..n - 1 : p[i] = p[j] => i = j
    /\ \A i \in 0..n - 2 : v.fat[p[i]] = p[i + 1]
    /\ v.fat[p[n - 1]] = CLUSTER_EOF
Sound(v, c) == \E n \in 1..Cardinality(Cluster) : \E p \in [0..n - 1 -> Cluster] : IsPath(v, c, p, n)

Size(v, c) == Cardinality(Chain(v, c))
UsedClusters(v) == Cluster \ FreeClusters(v)

ChainsApart ==
    /\ \A f \in File : StartOf(f) # CLUSTER_FREE => Sound(vol, StartOf(f))
    /\ \A f, g \in File : f # g => Chain(vol, StartOf(f)) \intersect Chain(vol, StartOf(g)) = {}
    /\ UsedClusters(vol) = UNION {Chain(vol, StartOf(f)) : f \in File}
    /\ vol.numberFree = Cardinality(FreeClusters(vol))

(* Files have the clusters that their sizes need.                             *)
SizesFit == \A f \in File :
    IF StartOf(f) = CLUSTER_FREE THEN SizeOf(f) = 0
    ELSE SizeOf(f) > 0 /\ Size(vol, StartOf(f)) = ClustersFor(SizeOf(f))

(* The offset of a byte of sector s of the k-th cluster of a chain.           *)
Span(k) == k * BytesPerCluster
Run(i) == i * BytesPerSector
Offset(k, i, b) == Span(k) + Run(i) + b

(* Position p in the chain from cluster c on is that of offset x; where a     *)
(* cluster ends it may be in either.                                          *)
IsAt(v, c, p, x) ==
    /\ p.sector \in 0..SectorsPerCluster /\ p.byte \in 0..BytesPerSector - 1
    /\ p.sector = SectorsPerCluster => p.byte = 0
    /\ \E k \in 0..Size(v, c) - 1 : p.cluster = Walk(v, c)[k] /\ x = Offset(k, p.sector, p.byte)

(* The positions of handle h are those of the offsets it is at.               *)
Placed(v, h) ==
    /\ h.append => h.currentPosition <= h.filesize
    /\ h.startCluster # CLUSTER_FREE /\ h.currentPosition <= h.filesize =>
          IsAt(v, h.startCluster, h.rwPosition, h.currentPosition)
    /\ h.startCluster # CLUSTER_FREE /\ h.append =>
          IsAt(v, h.startCluster, h.appendPosition, h.filesize)

(* A handle that was not modified says what the directory says.               *)
Agrees(h, e) == h.modified \/ e = [startCluster |-> h.startCluster, filesize |-> h.filesize]

HandleFits(f) == Placed(vol, file[f]) /\ Agrees(file[f], entry[f])

FileInv ==
    /\ TypeOK /\ ChainsApart /\ SizesFit
    /\ \A f \in File : file[f].inUse => HandleFits(f)

-----------------------------------------------------------------------------
(* Chains.                                                                    *)

LEMMA LeastFact ==
  ASSUME NEW S \in SUBSET Nat, S # {}
  PROVE  \E m \in S : \A k \in S : m <= k
  <1>1. PICK m \in S : \A k \in S : ~ (<<k, m>> \in OpToRel(<, Nat))
    BY NatLessThanWellFounded, WFMin
  <1>2. \A k \in S : ~ (k < m)
    BY <1>1 DEF OpToRel
  <1>3. QED
    BY <1>2

LEMMA ClusterFact ==
  /\ Cluster \in SUBSET Nat /\ IsFiniteSet(Cluster) /\ Cardinality(Cluster) = LastCluster - 1
  /\ LastCluster \in Nat /\ LastCluster >= 2 /\ CLUSTER_FREE \notin Cluster
  /\ CLUSTER_EOF \notin Cluster /\ CLUSTER_ERROR \notin Cluster /\ CLUSTER_FREE # CLUSTER_EOF
  /\ LastCluster + 1 \notin Cluster
  BY TableAssumption, FS_Interval
  DEF Cluster, CLUSTER_FIRST, CLUSTER_FREE, CLUSTER_EOF, CLUSTER_ERROR

Follow(v, c) == [x \in Cluster \union {c, LastCluster + 1} |->
                    IF Ends(v, x) THEN x ELSE NextCluster(v, x)]
WalksTo(v, c, w) == w = [k \in 0..LastCluster |-> IF k = 0 THEN c ELSE Follow(v, c)[w[k - 1]]]

LEMMA WalkIs == ASSUME NEW v, NEW c PROVE Walk(v, c) = CHOOSE w : WalksTo(v, c, w)
  BY DEF Walk, Follow, WalksTo

(* Walking along a path stops at its end.                                     *)
LEMMA PathFact ==
  ASSUME NEW v \in Tables, NEW c \in Cluster, NEW n \in Nat \ {0},
         NEW p \in [0..n - 1 -> Cluster], IsPath(v, c, p, n)
  PROVE  /\ n <= Cardinality(Cluster) /\ Size(v, c) = n
         /\ \A k \in 0..LastCluster : Walk(v, c)[k] = IF k < n THEN p[k] ELSE p[n - 1]
         /\ Chain(v, c) = {p[k] : k \in 0..n - 1} /\ LastOf(v, c) = p[n - 1]
  <1>1. n <= LastCluster - 1
    <2>1. p \in Injection(0..n - 1, Cluster)
      BY DEF IsPath, Injection, IsInjective
    <2>2. Cardinality(0..n - 1) <= Cardinality(Cluster)
      BY <2>1, ClusterFact, FS_Injection
    <2>3. Cardinality(0..n - 1) = n
      BY FS_Interval
    <2>4. QED
      BY <2>2, <2>3, ClusterFact
  <1> DEFINE g == [k \in 0..LastCluster |-> IF k < n THEN p[k] ELSE p[n - 1]]
  <1>2. \A k \in 0..n - 1 : /\ p[k] \in Cluster
                            /\ Follow(v, c)[p[k]] = IF k = n - 1 THEN p[k] ELSE p[k + 1]
    <2> TAKE k \in 0..n - 1
    <2>1. p[k] \in Cluster
      OBVIOUS
    <2>2. CASE k = n - 1
      <3>1. v.fat[p[k]] = CLUSTER_EOF
        BY <2>2 DEF IsPath
      <3>2. QED
        BY <2>1, <2>2, <3>1 DEF Follow, Ends, NextCluster
    <2>3. CASE k # n - 1
      <3>1. v.fat[p[k]] = p[k + 1] /\ p[k + 1] \in Cluster
        BY <2>3 DEF IsPath
      <3>2. QED
        BY <2>1, <2>3, <3>1, ClusterFact DEF Follow, Ends, NextCluster
    <2>4. QED
      BY <2>1, <2>2, <2>3
  <1>3. WalksTo(v, c, g)
    <2>1. \A k \in 0..LastCluster : g[k] = IF k = 0 THEN c ELSE Follow(v, c)[g[k - 1]]
      <3> TAKE k \in 0..LastCluster
      <3>1. CASE k = 0
        BY <3>1 DEF IsPath
      <3>2. CASE k # 0
        <4>1. k - 1 \in 0..LastCluster /\ g[k] = (IF k < n THEN p[k] ELSE p[n - 1])
              /\ g[k - 1] = (IF k - 1 < n THEN p[k - 1] ELSE p[n - 1])
          BY <3>2, ClusterFact
        <4> HIDE DEF g
        <4>2. CASE k < n
          <5>1. k - 1 \in 0..n - 1 /\ k - 1 # n - 1 /\ (k - 1) + 1 = k
            BY <3>2, <4>2
          <5>2. QED
            BY <1>2, <3>2, <4>1, <4>2, <5>1
        <4>3. CASE ~(k < n)
          <5>1. g[k - 1] = p[n - 1] /\ n - 1 \in 0..n - 1 /\ g[k] = p[n - 1]
            BY <4>1, <4>3, ClusterFact
          <5>2. QED
            BY <1>2, <3>2, <5>1
        <4>4. QED
          BY <4>2, <4>3
      <3>3. QED
        BY <3>1, <3>2
    <2>2. g = [k \in 0..LastCluster |-> g[k]]
      OBVIOUS
    <2> HIDE DEF g
    <2>3. QED
      BY <2>1, <2>2 DEF WalksTo
  <1>4. \A w : WalksTo(v, c, w) => w = g
    <2> SUFFICES ASSUME NEW w, WalksTo(v, c, w) PROVE w = g
      OBVIOUS
    <2>1. \A k \in 0..LastCluster : w[k] = IF k = 0 THEN c ELSE Follow(v, c)[w[k - 1]]
      BY DEF WalksTo
    <2>2. \A k \in 0..LastCluster : g[k] = IF k = 0 THEN c ELSE Follow(v, c)[g[k - 1]]
      BY <1>3 DEF WalksTo
    <2>3. w = [k \in 0..LastCluster |-> w[k]] /\ g = [k \in 0..LastCluster |-> g[k]]
      BY DEF WalksTo
    <2> DEFINE S == {k \in 0..LastCluster : w[k] # g[k]}
    <2> HIDE DEF g
    <2>4. S = {}
      <3> SUFFICES ASSUME S # {} PROVE FALSE
        OBVIOUS
      <3>0. S \in SUBSET Nat
        BY ClusterFact
      <3>1. PICK m \in S : \A k \in S : m <= k
        BY <3>0, LeastFact
      <3>2. m \in 0..LastCluster /\ w[m] # g[m]
        BY <3>1
      <3>3. m # 0
        BY <2>1, <2>2, <3>2
      <3>4. m - 1 \in 0..LastCluster /\ m - 1 \notin S
        <4>1. m \in Nat /\ m - 1 \in 0..LastCluster /\ ~(m <= m - 1)
          BY <3>2, <3>3, ClusterFact
        <4>2. QED
          BY <3>1, <4>1
      <3>5. w[m - 1] = g[m - 1]
        BY <3>4
      <3>6. QED
        BY <2>1, <2>2, <3>2, <3>3, <3>5
    <2>5. \A k \in 0..LastCluster : w[k] = g[k]
      BY <2>4
    <2>6. QED
      BY <2>3, <2>5
  <1>5. Walk(v, c) = g
    BY <1>3, <1>4, WalkIs
  <1>6. \A k \in 0..LastCluster : Walk(v, c)[k] = IF k < n THEN p[k] ELSE p[n - 1]
    BY <1>5
  <1>7. Chain(v, c) = {p[k] : k \in 0..n - 1}
    <2>1. Chain(v, c) = {Walk(v, c)[k] : k \in 0..LastCluster}
      BY ClusterFact DEF Chain
    <2>2. \A k \in 0..n - 1 : k \in 0..LastCluster /\ Walk(v, c)[k] = p[k]
      BY <1>1, <1>6, ClusterFact
    <2>3. \A k \in 0..LastCluster : \E i \in 0..n - 1 : Walk(v, c)[k] = p[i]
      BY <1>6
    <2>4. QED
      BY <2>1, <2>2, <2>3
  <1>8. Size(v, c) = n
    <2> DEFINE C == {p[k] : k \in 0..n - 1}
    <2>1. p \in Bijection(0..n - 1, C)
      BY DEF IsPath, Bijection, Injection, Surjection, IsInjective
    <2>2. IsFiniteSet(0..n - 1) /\ Cardinality(0..n - 1) = n
      BY FS_Interval
    <2>3. Cardinality(C) = n
      BY <2>1, <2>2, FS_Bijection DEF ExistsBijection
    <2>4. QED
      BY <1>7, <2>3 DEF Size
  <1>9. LastOf(v, c) = p[n - 1]
    BY <1>1, <1>6, ClusterFact DEF LastOf
  <1>10. QED
    BY <1>1, <1>6, <1>7, <1>8, <1>9, ClusterFact
(* The chain from a cluster on, as a path.                                    *)
Links(v, c) == [k \in 0..Size(v, c) - 1 |-> Walk(v, c)[k]]

LEMMA SoundFact ==
  ASSUME NEW v \in Tables, NEW c \in Cluster, Sound(v, c)
  PROVE  /\ Size(v, c) \in 1..Cardinality(Cluster) /\ Size(v, c) <= LastCluster
         /\ Links(v, c) \in [0..Size(v, c) - 1 -> Cluster]
         /\ IsPath(v, c, Links(v, c), Size(v, c))
         /\ Chain(v, c) = {Walk(v, c)[k] : k \in 0..Size(v, c) - 1}
         /\ LastOf(v, c) = Walk(v, c)[Size(v, c) - 1]
         /\ Walk(v, c)[0] = c
         /\ \A k \in 0..LastCluster : Size(v, c) <= k => Walk(v, c)[k] = Walk(v, c)[Size(v, c) - 1]
  <1>0. PICK n \in 1..Cardinality(Cluster) : \E p \in [0..n - 1 -> Cluster] : IsPath(v, c, p, n)
    BY DEF Sound
  <1>1. PICK p \in [0..n - 1 -> Cluster] : IsPath(v, c, p, n)
    BY <1>0
  <1>2. n \in Nat \ {0} /\ n <= LastCluster /\ LastCluster \in Nat
    BY <1>1, ClusterFact
  <1>3. /\ Size(v, c) = n
        /\ \A k \in 0..LastCluster : Walk(v, c)[k] = IF k < n THEN p[k] ELSE p[n - 1]
        /\ Chain(v, c) = {p[k] : k \in 0..n - 1} /\ LastOf(v, c) = p[n - 1]
    BY <1>1, <1>2, PathFact
  <1>4. \A k \in 0..n - 1 : k \in 0..LastCluster /\ Walk(v, c)[k] = p[k]
    BY <1>2, <1>3
  <1>5. Links(v, c) = p
    <2>1. Links(v, c) = [k \in 0..n - 1 |-> p[k]]
      BY <1>3, <1>4 DEF Links
    <2>2. p = [k \in 0..n - 1 |-> p[k]]
      BY <1>1
    <2>3. QED
      BY <2>1, <2>2
  <1>6. Chain(v, c) = {Walk(v, c)[k] : k \in 0..n - 1}
    BY <1>3, <1>4
  <1>7. Walk(v, c)[0] = c /\ Walk(v, c)[n - 1] = p[n - 1]
    BY <1>1, <1>2, <1>4 DEF IsPath
  <1>8. \A k \in 0..LastCluster : n <= k => Walk(v, c)[k] = p[n - 1]
    BY <1>2, <1>3
  <1>9. QED
    BY <1>1, <1>2, <1>3, <1>5, <1>6, <1>7, <1>8

LEMMA LinksFact ==
  ASSUME NEW v \in Tables, NEW c \in Cluster, Sound(v, c)
  PROVE  /\ Size(v, c) \in Nat \ {0} /\ Size(v, c) <= Cardinality(Cluster)
         /\ Size(v, c) <= LastCluster /\ Cardinality(Cluster) \in Nat
         /\ Links(v, c) \in [0..Size(v, c) - 1 -> Cluster]
         /\ IsPath(v, c, Links(v, c), Size(v, c))
         /\ Chain(v, c) = {Walk(v, c)[k] : k \in 0..Size(v, c) - 1}
         /\ LastOf(v, c) = Links(v, c)[Size(v, c) - 1]
         /\ \A k \in 0..Size(v, c) - 1 : Links(v, c)[k] = Walk(v, c)[k]
  <1>1. Size(v, c) \in Nat \ {0} /\ Size(v, c) <= Cardinality(Cluster) /\ Cardinality(Cluster) \in Nat
    BY SoundFact, ClusterFact
  <1>2. \A k \in 0..Size(v, c) - 1 : Links(v, c)[k] = Walk(v, c)[k]
    BY DEF Links
  <1>3. Size(v, c) - 1 \in 0..Size(v, c) - 1
    BY <1>1
  <1>4. LastOf(v, c) = Links(v, c)[Size(v, c) - 1]
    BY <1>2, <1>3, SoundFact
  <1>5. QED
    BY <1>1, <1>2, <1>4, SoundFact

(* The same, link by link.                                                    *)
LEMMA LinkFact ==
  ASSUME NEW v \in Tables, NEW c \in Cluster, Sound(v, c)
  PROVE  /\ Chain(v, c) \subseteq Cluster /\ c \in Chain(v, c)
         /\ \A d \in Chain(v, c) : v.fat[d] # CLUSTER_FREE
         /\ \A k \in 0..Size(v, c) - 1 : Walk(v, c)[k] \in Chain(v, c)
         /\ \A i, j \in 0..Size(v, c) - 1 : Walk(v, c)[i] = Walk(v, c)[j] => i = j
         /\ \A k \in 0..Size(v, c) - 2 : v.fat[Walk(v, c)[k]] = Walk(v, c)[k + 1]
         /\ v.fat[Walk(v, c)[Size(v, c) - 1]] = CLUSTER_EOF
  <1> DEFINE n == Size(v, c)
             p == Links(v, c)
  <1>1. /\ n \in Nat \ {0} /\ p \in [0..n - 1 -> Cluster] /\ IsPath(v, c, p, n)
        /\ Chain(v, c) = {Walk(v, c)[k] : k \in 0..n - 1} /\ Walk(v, c)[0] = c
    BY SoundFact, ClusterFact
  <1>2. \A k \in 0..n - 1 : Walk(v, c)[k] = p[k] /\ p[k] \in Cluster
    BY <1>1 DEF Links
  <1> HIDE DEF n, p
  <1>3. Chain(v, c) \subseteq Cluster /\ c \in Chain(v, c)
    BY <1>1, <1>2
  <1>4. /\ \A k \in 0..n - 2 : v.fat[Walk(v, c)[k]] = Walk(v, c)[k + 1]
        /\ v.fat[Walk(v, c)[n - 1]] = CLUSTER_EOF
    <2>1. \A k \in 0..n - 2 : k \in 0..n - 1 /\ k + 1 \in 0..n - 1
      BY <1>1
    <2>2. n - 1 \in 0..n - 1
      BY <1>1
    <2>3. (\A k \in 0..n - 2 : v.fat[p[k]] = p[k + 1]) /\ v.fat[p[n - 1]] = CLUSTER_EOF
      BY <1>1 DEF IsPath
    <2>4. \A k \in 0..n - 2 : v.fat[Walk(v, c)[k]] = Walk(v, c)[k + 1]
      BY <1>2, <2>1, <2>3
    <2>5. QED
      BY <1>2, <2>2, <2>3, <2>4
  <1>5. \A k \in 0..n - 1 : v.fat[Walk(v, c)[k]] # CLUSTER_FREE
    <2> TAKE k \in 0..n - 1
    <2>1. CASE k = n - 1
      BY <1>4, <2>1, ClusterFact
    <2>2. CASE k # n - 1
      <3>1. k \in 0..n - 2 /\ k + 1 \in 0..n - 1
        BY <1>1, <2>2
      <3>2. QED
        BY <1>2, <1>4, <3>1, ClusterFact
    <2>3. QED
      BY <2>1, <2>2
  <1>6. \A i, j \in 0..n - 1 : Walk(v, c)[i] = Walk(v, c)[j] => i = j
    BY <1>1, <1>2 DEF IsPath
  <1>7. QED
    BY <1>1, <1>3, <1>4, <1>5, <1>6 DEF n

(* A chain is what its own links say.                                         *)
LEMMA SameChain ==
  ASSUME NEW v \in Tables, NEW w \in Tables, NEW c \in Cluster, Sound(v, c),
         \A d \in Chain(v, c) : w.fat[d] = v.fat[d]
  PROVE  /\ Sound(w, c) /\ Chain(w, c) = Chain(v, c) /\ Size(w, c) = Size(v, c)
         /\ \A k \in 0..LastCluster : Walk(w, c)[k] = Walk(v, c)[k]
  <1> DEFINE n == Size(v, c)
             p == Links(v, c)
  <1>1. /\ n \in 1..Cardinality(Cluster) /\ p \in [0..n - 1 -> Cluster] /\ IsPath(v, c, p, n)
        /\ Chain(v, c) = {Walk(v, c)[k] : k \in 0..n - 1}
    BY SoundFact
  <1>2. n \in Nat \ {0}
    BY <1>1, ClusterFact
  <1>3. \A k \in 0..n - 1 : p[k] \in Chain(v, c)
    BY <1>1 DEF Links
  <1> HIDE DEF n, p
  <1>4. IsPath(w, c, p, n)
    <2>1. \A k \in 0..n - 1 : w.fat[p[k]] = v.fat[p[k]]
      BY <1>3
    <2>2. QED
      BY <1>1, <1>2, <2>1 DEF IsPath
  <1>5. Sound(w, c)
    BY <1>1, <1>4 DEF Sound
  <1>6. /\ Size(w, c) = n /\ Chain(w, c) = {p[k] : k \in 0..n - 1}
        /\ \A k \in 0..LastCluster : Walk(w, c)[k] = IF k < n THEN p[k] ELSE p[n - 1]
    BY <1>1, <1>2, <1>4, PathFact, SMTT(40)
  <1>7. /\ Size(v, c) = n /\ Chain(v, c) = {p[k] : k \in 0..n - 1}
        /\ \A k \in 0..LastCluster : Walk(v, c)[k] = IF k < n THEN p[k] ELSE p[n - 1]
    BY <1>1, <1>2, PathFact, ZenonT(60)
  <1>8. QED
    BY <1>5, <1>6, <1>7

-----------------------------------------------------------------------------
(* The operators of FatTable.                                                 *)

Counted(v) == v.numberFree = Cardinality(FreeClusters(v))

LEMMA FreeFact ==
  ASSUME NEW v \in Tables
  PROVE  FreeClusters(v) \in SUBSET Cluster /\ IsFiniteSet(FreeClusters(v))
         /\ Cardinality(FreeClusters(v)) \in Nat
         /\ Cardinality(FreeClusters(v)) <= Cardinality(Cluster)
  <1>1. FreeClusters(v) \in SUBSET Cluster
    BY DEF FreeClusters
  <1>2. QED
    BY <1>1, ClusterFact, FS_Subset, FS_CardinalityType

(* linkFreeCluster takes a free cluster if there is one, for a chain that     *)
(* ends with c or, if c is CLUSTER_FREE, for a new one.                       *)
LEMMA TakeFact ==
  ASSUME ~SlackIsFree, NEW v \in Tables, Counted(v), NEW c \in Cluster \union {CLUSTER_FREE},
         c \in Cluster => v.fat[c] = CLUSTER_EOF
  PROVE  LET l == LinkFreeCluster(v, c)
             w == l.vol
             new == l.cluster
         IN  /\ w \in Tables /\ Counted(w)
             /\ IF FreeClusters(v) = {} THEN new \notin Cluster /\ w.fat = v.fat
                ELSE /\ new \in FreeClusters(v) /\ new # c
                     /\ w.fat = [k \in Cluster |-> IF k = new THEN CLUSTER_EOF
                                                   ELSE IF k = c THEN new ELSE v.fat[k]]
                     /\ FreeClusters(w) = FreeClusters(v) \ {new}
  <1> DEFINE l == LinkFreeCluster(v, c)
             free == FreeClusters(v)
             found == IF Candidates(v) # {} THEN Candidates(v) ELSE free
             new == Least(found)
             linked == [k \in Cluster |-> IF k = new THEN CLUSTER_EOF
                                          ELSE IF k = c THEN new ELSE v.fat[k]]
  <1>1. ~(c > LastCluster) /\ ~IsValidCluster(NextCluster(v, c))
    BY ClusterFact, TableAssumption DEF IsValidCluster, NextCluster, Cluster, CLUSTER_FREE, CLUSTER_FIRST
  <1>2. Candidates(v) \subseteq free
    BY DEF Candidates
  <1>3. found \in SUBSET free /\ (found = {} <=> free = {})
    BY <1>2
  <1>4. free \in SUBSET Cluster /\ IsFiniteSet(free) /\ Cardinality(free) \in Nat
        /\ Cardinality(free) <= Cardinality(Cluster)
    BY FreeFact
  <1>5. CASE free = {}
    <2>1. l = [vol |-> [v EXCEPT !.firstFree = LastCluster + 1], cluster |-> CLUSTER_ERROR]
      BY <1>1, <1>3, <1>5 DEF LinkFreeCluster
    <2> HIDE DEF l
    <2>2. l.cluster \notin Cluster
      BY <2>1, ClusterFact
    <2>3. l.vol \in Tables /\ l.vol.fat = v.fat /\ l.vol.numberFree = v.numberFree
      BY <2>1, ClusterFact DEF Tables, CLUSTER_FIRST
    <2>4. Counted(l.vol)
      BY <2>3 DEF Counted, FreeClusters
    <2>5. QED
      BY <1>5, <2>2, <2>3, <2>4 DEF l
  <1>6. CASE free # {}
    <2>1. new \in free
      <3>1. found \in SUBSET Nat /\ found # {}
        BY <1>3, <1>4, <1>6, ClusterFact
      <3>2. \E m \in found : \A k \in found : m <= k
        BY <3>1, LeastFact
      <3>3. new \in found
        BY <3>2 DEF Least
      <3>4. QED
        BY <1>3, <3>3
    <2>2. l = [vol |-> [fat |-> linked, firstFree |-> new, numberFree |-> OneLess(v)],
               cluster |-> new]
      BY <1>1, <1>3, <1>6 DEF LinkFreeCluster
    <2>3. new \in Cluster /\ v.fat[new] = CLUSTER_FREE
      BY <2>1 DEF FreeClusters
    <2> HIDE DEF new, l, found
    <2>4. new # c
      BY <2>3, ClusterFact
    <2>5. l.vol.fat = linked /\ l.cluster = new /\ l.vol.numberFree = OneLess(v)
          /\ l.vol.firstFree = new
      BY <2>2
    <2>6. FreeClusters(l.vol) = free \ {new}
      <3>1. \A k \in Cluster : linked[k] = CLUSTER_FREE <=> k # new /\ v.fat[k] = CLUSTER_FREE
        BY <2>3, ClusterFact
      <3>2. QED
        BY <2>5, <3>1 DEF FreeClusters
    <2>7. Cardinality(free \ {new}) = Cardinality(free) - 1
      BY <1>4, <2>1, FS_RemoveElement
    <2>8. Cardinality(free) > 0 /\ v.numberFree = Cardinality(free)
      BY <1>4, <1>6, FS_EmptySet DEF Counted
    <2>9. OneLess(v) = Cardinality(free) - 1
      BY <2>8 DEF OneLess
    <2>10. Counted(l.vol)
      BY <2>5, <2>6, <2>7, <2>9 DEF Counted
    <2>11. l.vol \in Tables
      <3>1. linked \in [Cluster -> {CLUSTER_FREE, CLUSTER_EOF} \union Cluster]
        BY <2>3 DEF Tables
      <3>2. OneLess(v) \in 0..LastCluster - 1
        BY <1>4, <2>8, <2>9, ClusterFact
      <3>3. new \in CLUSTER_FIRST..LastCluster + 1
        BY <2>3, ClusterFact DEF Cluster, CLUSTER_FIRST
      <3> HIDE DEF linked
      <3>4. l.vol = [fat |-> linked, firstFree |-> new, numberFree |-> OneLess(v)]
        BY <2>2
      <3>5. QED
        BY <3>1, <3>2, <3>3, <3>4 DEF Tables
    <2>12. QED
      BY <1>6, <2>1, <2>4, <2>5, <2>6, <2>10, <2>11 DEF l
  <1>7. QED
    BY <1>5, <1>6
(* A free cluster linked behind the last of a chain.                          *)
LEMMA AppendFact ==
  ASSUME NEW v \in Tables, NEW w \in Tables, NEW c \in Cluster, Sound(v, c),
         NEW new \in FreeClusters(v),
         w.fat = [k \in Cluster |-> IF k = new THEN CLUSTER_EOF
                                    ELSE IF k = LastOf(v, c) THEN new ELSE v.fat[k]]
  PROVE  /\ Sound(w, c) /\ Size(w, c) = Size(v, c) + 1
         /\ Chain(w, c) = Chain(v, c) \union {new} /\ new \notin Chain(v, c)
         /\ \A k \in 0..Size(v, c) - 1 : Walk(w, c)[k] = Walk(v, c)[k]
         /\ Walk(w, c)[Size(v, c)] = new
  <1> DEFINE n == Size(v, c)
             p == Links(v, c)
             q == [k \in 0..n |-> IF k < n THEN p[k] ELSE new]
  <1>1. /\ n \in Nat \ {0} /\ n <= Cardinality(Cluster) /\ n <= LastCluster
        /\ Cardinality(Cluster) \in Nat
        /\ p \in [0..n - 1 -> Cluster] /\ IsPath(v, c, p, n)
        /\ Chain(v, c) = {Walk(v, c)[k] : k \in 0..n - 1} /\ LastOf(v, c) = p[n - 1]
        /\ \A k \in 0..n - 1 : p[k] = Walk(v, c)[k]
    BY LinksFact
  <1>2. new \in Cluster /\ v.fat[new] = CLUSTER_FREE /\ new \notin Chain(v, c)
    BY LinkFact DEF FreeClusters
  <1> HIDE DEF n, p
  <1>3. \A k \in 0..n - 1 : p[k] \in Cluster /\ p[k] # new
    BY <1>1, <1>2
  <1>4. q \in [0..n -> Cluster]
    BY <1>1, <1>2, <1>3
  <1>5. (\A k \in 0..n - 1 : q[k] = p[k]) /\ q[n] = new
    BY <1>1
  <1> HIDE DEF q
  <1>6. IsPath(w, c, q, n + 1)
    <2>1. q[0] = c
      BY <1>1, <1>5 DEF IsPath
    <2>2. \A i, j \in 0..(n + 1) - 1 : q[i] = q[j] => i = j
      <3> SUFFICES ASSUME NEW i \in 0..n, NEW j \in 0..n, q[i] = q[j] PROVE i = j
        BY <1>1
      <3>1. CASE i < n /\ j < n
        <4>1. i \in 0..n - 1 /\ j \in 0..n - 1
          BY <1>1, <3>1
        <4>2. QED
          BY <1>1, <1>5, <4>1 DEF IsPath
      <3>2. CASE i = n /\ j < n
        <4>1. j \in 0..n - 1
          BY <1>1, <3>2
        <4>2. QED
          BY <1>3, <1>5, <3>2, <4>1
      <3>3. CASE i < n /\ j = n
        <4>1. i \in 0..n - 1
          BY <1>1, <3>3
        <4>2. QED
          BY <1>3, <1>5, <3>3, <4>1
      <3>4. QED
        BY <1>1, <3>1, <3>2, <3>3
    <2>3. \A i \in 0..(n + 1) - 2 : w.fat[q[i]] = q[i + 1]
      <3> SUFFICES ASSUME NEW i \in 0..n - 1 PROVE w.fat[q[i]] = q[i + 1]
        BY <1>1
      <3>1. q[i] = p[i] /\ p[i] # new /\ p[i] \in Cluster
        BY <1>3, <1>5
      <3>2. CASE i = n - 1
        <4>1. q[i + 1] = new
          BY <1>1, <1>5, <3>2
        <4>2. QED
          BY <1>1, <3>1, <3>2, <4>1
      <3>3. CASE i # n - 1
        <4>1. i \in 0..n - 2 /\ i + 1 \in 0..n - 1 /\ n - 1 \in 0..n - 1
          BY <1>1, <3>3
        <4>2. v.fat[p[i]] = p[i + 1] /\ q[i + 1] = p[i + 1] /\ p[i] # p[n - 1]
          BY <1>1, <1>5, <3>3, <4>1 DEF IsPath
        <4>3. QED
          BY <1>1, <3>1, <4>2
      <3>4. QED
        BY <3>2, <3>3
    <2>4. w.fat[q[(n + 1) - 1]] = CLUSTER_EOF
      BY <1>1, <1>2, <1>5
    <2>5. QED
      BY <2>1, <2>2, <2>3, <2>4 DEF IsPath
  <1>7. n + 1 \in Nat \ {0} /\ 0..(n + 1) - 1 = 0..n
    BY <1>1
  <1>8. /\ n + 1 <= Cardinality(Cluster) /\ Size(w, c) = n + 1
        /\ \A k \in 0..LastCluster : Walk(w, c)[k] = IF k < n + 1 THEN q[k] ELSE q[(n + 1) - 1]
        /\ Chain(w, c) = {q[k] : k \in 0..(n + 1) - 1}
    <2>1. q \in [0..(n + 1) - 1 -> Cluster]
      BY ONLY <1>4, <1>7
    <2>2. QED
      BY <1>6, <1>7, <2>1, PathFact
  <1>9. Sound(w, c)
    <2>1. n + 1 \in 1..Cardinality(Cluster)
      BY <1>1, <1>8
    <2>2. q \in [0..(n + 1) - 1 -> Cluster]
      BY ONLY <1>4, <1>7
    <2>3. QED
      BY <1>6, <2>1, <2>2 DEF Sound
  <1>10. Chain(w, c) = Chain(v, c) \union {new}
    <2>1. \A k \in 0..n : k \in 0..n - 1 \/ k = n
      BY <1>1
    <2>2. \A k \in 0..n - 1 : k \in 0..n
      BY <1>1
    <2>3. n \in 0..n
      BY <1>1
    <2>4. QED
      BY <1>1, <1>5, <1>7, <1>8, <2>1, <2>2, <2>3
  <1>11. (\A k \in 0..n - 1 : Walk(w, c)[k] = p[k]) /\ Walk(w, c)[n] = new
    BY <1>1, <1>5, <1>8, ClusterFact
  <1>12. QED
    BY <1>1, <1>2, <1>8, <1>9, <1>10, <1>11 DEF n

LEMMA AloneFact ==
  ASSUME NEW w \in Tables, NEW c \in Cluster, w.fat[c] = CLUSTER_EOF
  PROVE  Sound(w, c) /\ Size(w, c) = 1 /\ Chain(w, c) = {c} /\ Walk(w, c)[0] = c
         /\ LastOf(w, c) = c
  <1> DEFINE p == [k \in 0..1 - 1 |-> c]
  <1>1. p \in [0..1 - 1 -> Cluster] /\ IsPath(w, c, p, 1)
    BY DEF IsPath
  <1>2. 1 \in 1..Cardinality(Cluster) /\ 1 \in Nat \ {0} /\ 0..1 - 1 = {0} /\ 0 \in 0..LastCluster
    BY ClusterFact
  <1>3. p[0] = c /\ p[1 - 1] = c
    OBVIOUS
  <1>4. Sound(w, c)
    BY <1>1, <1>2 DEF Sound
  <1> HIDE DEF p
  <1>5. /\ Size(w, c) = 1 /\ Chain(w, c) = {p[k] : k \in 0..1 - 1} /\ LastOf(w, c) = p[1 - 1]
        /\ \A k \in 0..LastCluster : Walk(w, c)[k] = IF k < 1 THEN p[k] ELSE p[1 - 1]
    <2> DEFINE one == 1
    <2>1. one \in Nat \ {0} /\ p \in [0..one - 1 -> Cluster] /\ IsPath(w, c, p, one)
      BY <1>1
    <2> HIDE DEF one
    <2>2. /\ Size(w, c) = one /\ Chain(w, c) = {p[k] : k \in 0..one - 1} /\ LastOf(w, c) = p[one - 1]
          /\ \A k \in 0..LastCluster : Walk(w, c)[k] = IF k < one THEN p[k] ELSE p[one - 1]
      BY <2>1, PathFact
    <2>3. QED
      BY <2>2 DEF one
  <1>6. QED
    BY <1>2, <1>3, <1>4, <1>5

(* The rest of a chain, from its j-th cluster on.                             *)
LEMMA SuffixFact ==
  ASSUME NEW v \in Tables, NEW c \in Cluster, Sound(v, c), NEW j \in 0..Size(v, c) - 1
  PROVE  LET d == Walk(v, c)[j] IN
         /\ d \in Cluster /\ Sound(v, d) /\ Size(v, d) = Size(v, c) - j
         /\ \A k \in 0..Size(v, d) - 1 : Walk(v, d)[k] = Walk(v, c)[j + k]
         /\ Chain(v, d) = {Walk(v, c)[k] : k \in j..Size(v, c) - 1}
         /\ LastOf(v, d) = LastOf(v, c)
  <1> DEFINE n == Size(v, c)
             p == Links(v, c)
             q == [k \in 0..(n - j) - 1 |-> p[k + j]]
             d == Walk(v, c)[j]
  <1>1. /\ n \in Nat \ {0} /\ n <= Cardinality(Cluster) /\ n <= LastCluster
        /\ Cardinality(Cluster) \in Nat
        /\ p \in [0..n - 1 -> Cluster] /\ IsPath(v, c, p, n)
        /\ Chain(v, c) = {Walk(v, c)[k] : k \in 0..n - 1} /\ LastOf(v, c) = p[n - 1]
        /\ \A k \in 0..n - 1 : p[k] = Walk(v, c)[k]
    BY LinksFact
  <1> HIDE DEF n, p
  <1>2. j \in 0..n - 1 /\ j \in Nat
    BY DEF n
  <1>3. \A k \in 0..(n - j) - 1 : k + j \in 0..n - 1
    BY <1>1, <1>2
  <1>4. q \in [0..(n - j) - 1 -> Cluster] /\ \A k \in 0..(n - j) - 1 : q[k] = p[k + j]
    BY <1>1, <1>3
  <1> HIDE DEF q
  <1>5. d = p[j] /\ d \in Cluster
    BY <1>1, <1>2
  <1>6. n - j \in Nat \ {0} /\ n - j \in 1..Cardinality(Cluster)
    BY <1>1, <1>2, ClusterFact
  <1>7. IsPath(v, d, q, n - j)
    <2>1. q[0] = d
      BY <1>1, <1>2, <1>4, <1>5
    <2>2. \A a, b \in 0..(n - j) - 1 : q[a] = q[b] => a = b
      <3> TAKE a, b \in 0..(n - j) - 1
      <3>1. a + j \in 0..n - 1 /\ b + j \in 0..n - 1
        BY <1>3
      <3>2. q[a] = q[b] => a + j = b + j
        BY <1>1, <1>4, <3>1 DEF IsPath
      <3>3. QED
        BY <1>2, <3>2
    <2>3. \A i \in 0..(n - j) - 2 : v.fat[q[i]] = q[i + 1]
      <3> TAKE i \in 0..(n - j) - 2
      <3>1. i + j \in 0..n - 2 /\ i \in 0..(n - j) - 1 /\ i + 1 \in 0..(n - j) - 1
            /\ (i + 1) + j = (i + j) + 1
        BY <1>1, <1>2
      <3>2. v.fat[p[i + j]] = p[(i + j) + 1]
        BY <1>1, <3>1 DEF IsPath
      <3>3. QED
        BY <1>4, <3>1, <3>2
    <2>4. v.fat[q[(n - j) - 1]] = CLUSTER_EOF
      <3>1. (n - j) - 1 \in 0..(n - j) - 1 /\ ((n - j) - 1) + j = n - 1
        BY <1>1, <1>2
      <3>2. QED
        BY <1>1, <1>4, <3>1 DEF IsPath
    <2>5. QED
      BY <2>1, <2>2, <2>3, <2>4 DEF IsPath
  <1>8. Sound(v, d)
    BY <1>4, <1>6, <1>7 DEF Sound
  <1> HIDE DEF d
  <1>9. /\ Size(v, d) = n - j /\ Chain(v, d) = {q[k] : k \in 0..(n - j) - 1}
        /\ LastOf(v, d) = q[(n - j) - 1]
        /\ \A k \in 0..LastCluster : Walk(v, d)[k] = IF k < n - j THEN q[k] ELSE q[(n - j) - 1]
    BY <1>4, <1>5, <1>6, <1>7, PathFact, SMTT(40)
  <1>10. \A k \in 0..(n - j) - 1 : Walk(v, d)[k] = Walk(v, c)[j + k]
    <2> TAKE k \in 0..(n - j) - 1
    <2>1. k \in 0..LastCluster /\ k < n - j /\ k + j \in 0..n - 1 /\ k + j = j + k
      BY <1>1, <1>2, ClusterFact
    <2>2. QED
      BY <1>1, <1>4, <1>9, <2>1
  <1>11. Chain(v, d) = {Walk(v, c)[k] : k \in j..n - 1}
    <2>1. \A k \in 0..(n - j) - 1 : k + j \in j..n - 1 /\ q[k] = Walk(v, c)[k + j]
      BY <1>1, <1>2, <1>3, <1>4
    <2>2. \A k \in j..n - 1 : k - j \in 0..(n - j) - 1 /\ (k - j) + j = k
      BY <1>1, <1>2
    <2>3. QED
      BY <1>9, <2>1, <2>2
  <1>12. LastOf(v, d) = LastOf(v, c)
    <2>1. (n - j) - 1 \in 0..(n - j) - 1 /\ ((n - j) - 1) + j = n - 1
      BY <1>1, <1>2
    <2>2. QED
      BY <1>1, <1>4, <1>9, <2>1
  <1>13. QED
    BY <1>5, <1>8, <1>9, <1>10, <1>11, <1>12 DEF n, d
(* clearLinks gives back a chain, or the rest of one.                         *)
LEMMA ClearFact ==
  ASSUME NEW v \in Tables, Counted(v), NEW c \in Cluster, Sound(v, c)
  PROVE  LET w == ClearLinks(v, c) IN
         /\ w \in Tables /\ Counted(w)
         /\ FreeClusters(w) = FreeClusters(v) \union Chain(v, c)
         /\ w.fat = [k \in Cluster |-> IF k \in Chain(v, c) THEN CLUSTER_FREE ELSE v.fat[k]]
  <1> DEFINE C == Chain(v, c)
             fat == [k \in Cluster |-> IF k \in C THEN CLUSTER_FREE ELSE v.fat[k]]
             first == IF c < v.firstFree THEN c ELSE v.firstFree
             number == v.numberFree + Cardinality(C)
             w == ClearLinks(v, c)
  <1>1. w = [fat |-> fat, firstFree |-> first, numberFree |-> number]
    BY DEF ClearLinks, IsValidCluster
  <1>2. C \in SUBSET Cluster /\ \A d \in C : v.fat[d] # CLUSTER_FREE
    BY LinkFact
  <1> HIDE DEF C, w
  <1>3. fat \in [Cluster -> {CLUSTER_FREE, CLUSTER_EOF} \union Cluster]
    BY DEF Tables
  <1>4. \A k \in Cluster : fat[k] = CLUSTER_FREE <=> k \in C \/ v.fat[k] = CLUSTER_FREE
    OBVIOUS
  <1> HIDE DEF fat
  <1>5. first \in CLUSTER_FIRST..LastCluster + 1
    BY ClusterFact DEF Tables, Cluster, CLUSTER_FIRST
  <1>6. FreeClusters(w) = FreeClusters(v) \union C
    <2>1. w.fat = fat
      BY <1>1
    <2>2. QED
      BY <1>2, <1>4, <2>1 DEF FreeClusters
  <1>7. number = Cardinality(FreeClusters(v) \union C) /\ number \in 0..LastCluster - 1
    <2>1. IsFiniteSet(C) /\ IsFiniteSet(FreeClusters(v))
      BY <1>2, ClusterFact, FreeFact, FS_Subset
    <2>2. FreeClusters(v) \cap C = {}
      BY <1>2 DEF FreeClusters
    <2>3. Cardinality(FreeClusters(v) \union C) =
             Cardinality(FreeClusters(v)) + Cardinality(C) - Cardinality(FreeClusters(v) \cap C)
      BY <2>1, FS_Union
    <2>4. Cardinality(FreeClusters(v) \cap C) = 0 /\ Cardinality(C) \in Nat
          /\ Cardinality(FreeClusters(v)) \in Nat
      BY <2>1, <2>2, FS_EmptySet, FS_CardinalityType
    <2>5. FreeClusters(v) \union C \in SUBSET Cluster
      BY <1>2, FreeFact
    <2>6. Cardinality(FreeClusters(v) \union C) <= LastCluster - 1
      BY <2>5, ClusterFact, FS_Subset
    <2>7. v.numberFree = Cardinality(FreeClusters(v))
      BY DEF Counted
    <2>8. QED
      BY <2>3, <2>4, <2>6, <2>7, ClusterFact
  <1> HIDE DEF first, number
  <1>8. w \in Tables
    BY <1>1, <1>3, <1>5, <1>7 DEF Tables
  <1>9. w.numberFree = number /\ w.fat = fat
    BY <1>1
  <1>10. Counted(w)
    BY <1>6, <1>7, <1>9 DEF Counted
  <1>11. QED
    BY <1>6, <1>8, <1>9, <1>10 DEF w, C, fat

(* trimChain keeps the first n clusters of a chain and gives back the rest.   *)
LEMMA TrimFact ==
  ASSUME NEW v \in Tables, Counted(v), NEW c \in Cluster, Sound(v, c), NEW n \in 1..Size(v, c)
  PROVE  LET t == TrimChain(v, c, n)
             w == t.vol
         IN  /\ w \in Tables /\ Counted(w) /\ Sound(w, c) /\ Size(w, c) = n
             /\ Chain(w, c) \subseteq Chain(v, c)
             /\ \A k \in 0..n - 1 : Walk(w, c)[k] = Walk(v, c)[k]
             /\ t.cluster = Walk(v, c)[n - 1]
             /\ FreeClusters(w) = FreeClusters(v) \union (Chain(v, c) \ Chain(w, c))
             /\ \A k \in Cluster \ Chain(v, c) : w.fat[k] = v.fat[k]
  <1> DEFINE m == Size(v, c)
             last == Walk(v, c)[n - 1]
             t == TrimChain(v, c, n)
             w == t.vol
             W == Walk(v, c)
  <1>1. /\ m \in Nat \ {0} /\ n \in 1..m /\ n \in Nat \ {0} /\ n <= LastCluster
        /\ n <= Cardinality(Cluster) /\ Cardinality(Cluster) \in Nat
    <2>1. /\ m \in Nat \ {0} /\ m <= LastCluster /\ m <= Cardinality(Cluster)
          /\ Cardinality(Cluster) \in Nat
      BY LinksFact
    <2>2. n \in 1..m
      OBVIOUS
    <2> HIDE DEF m
    <2>3. QED
      BY <2>1, <2>2, ClusterFact
  <1>2. /\ \A k \in 0..m - 1 : W[k] \in Chain(v, c)
        /\ \A i, j \in 0..m - 1 : W[i] = W[j] => i = j
        /\ \A k \in 0..m - 2 : v.fat[W[k]] = W[k + 1]
        /\ v.fat[W[m - 1]] = CLUSTER_EOF
        /\ Chain(v, c) = {W[k] : k \in 0..m - 1} /\ Chain(v, c) \subseteq Cluster /\ W[0] = c
        /\ \A d \in Chain(v, c) : v.fat[d] # CLUSTER_FREE
    BY LinkFact, SoundFact
  <1> HIDE DEF m, W
  <1>3. last = W[n - 1] /\ n - 1 \in 0..m - 1 /\ last \in Chain(v, c) /\ last \in Cluster
    BY <1>1, <1>2 DEF W
  <1>4. t.cluster = last
    BY DEF TrimChain
  (* What is given back. *)
  <1> DEFINE Rest == {W[k] : k \in n..m - 1}
             fat == [k \in Cluster |-> IF k = last THEN CLUSTER_EOF
                                       ELSE IF k \in Rest THEN CLUSTER_FREE ELSE v.fat[k]]
  <1>5. last \notin Rest /\ Rest \subseteq Chain(v, c) /\ \A k \in 0..n - 1 : W[k] \notin Rest
    <2>1. \A k \in n..m - 1, j \in 0..n - 1 : k \in 0..m - 1 /\ j \in 0..m - 1 /\ k # j
      BY <1>1
    <2>2. n - 1 \in 0..n - 1
      BY <1>1
    <2>3. QED
      BY <1>2, <1>3, <2>1, <2>2
  <1> HIDE DEF last
  <1>6. w \in Tables /\ w.fat = fat /\ w.numberFree = Cardinality(FreeClusters(v) \union Rest)
    <2>1. CASE n = m
      <3>1. Rest = {}
        BY <1>1, <2>1
      <3>2. v.fat[last] = CLUSTER_EOF /\ NextCluster(v, last) = CLUSTER_EOF /\ Ends(v, last)
        BY <1>2, <1>3, <2>1 DEF NextCluster, Ends
      <3>3. w = [v EXCEPT !.fat[last] = CLUSTER_EOF]
        BY <3>2 DEF TrimChain, last, W
      <3>4. w.fat = [v.fat EXCEPT ![last] = CLUSTER_EOF] /\ w.firstFree = v.firstFree
            /\ w.numberFree = v.numberFree
        BY <3>3 DEF Tables
      <3>5. w \in Tables
        BY <1>3, <3>3 DEF Tables
      <3>6. w.fat = fat
        BY <1>3, <3>1, <3>4 DEF Tables
      <3>7. QED
        BY <3>1, <3>4, <3>5, <3>6 DEF Counted
    <2>2. CASE n # m
      <3>1. n \in 0..m - 1 /\ n - 1 \in 0..m - 2 /\ (n - 1) + 1 = n
        BY <1>1, <2>2
      <3> DEFINE d == W[n]
                 u == ClearLinks(v, d)
      <3>2. v.fat[last] = d /\ d \in Cluster
        BY <1>2, <1>3, <3>1
      <3>3. NextCluster(v, last) = d /\ ~Ends(v, last)
        BY <1>3, <3>2, ClusterFact DEF NextCluster, Ends
      <3>4. Sound(v, d) /\ Chain(v, d) = Rest
        BY <3>1, SuffixFact DEF m, W
      <3> HIDE DEF d, u
      <3>5. /\ u \in Tables /\ Counted(u) /\ FreeClusters(u) = FreeClusters(v) \union Rest
            /\ u.fat = [k \in Cluster |-> IF k \in Rest THEN CLUSTER_FREE ELSE v.fat[k]]
        BY <3>2, <3>4, ClearFact DEF u
      <3>6. w = [u EXCEPT !.fat[last] = CLUSTER_EOF]
        BY <3>3 DEF TrimChain, last, W, u
      <3>7. w.fat = [u.fat EXCEPT ![last] = CLUSTER_EOF] /\ w.numberFree = u.numberFree
        BY <3>5, <3>6 DEF Tables
      <3>8. w \in Tables
        BY <1>3, <3>5, <3>6 DEF Tables
      <3> HIDE DEF Rest
      <3>9. w.fat = fat
        BY <1>3, <1>5, <3>5, <3>7
      <3>10. QED
        BY <3>5, <3>7, <3>8, <3>9 DEF Counted
    <2>3. QED
      BY <2>1, <2>2
  <1> HIDE DEF t
  <1>7. FreeClusters(w) = FreeClusters(v) \union Rest
    <2>1. \A k \in Cluster : fat[k] = CLUSTER_FREE <=> k \in Rest \/ (k # last /\ v.fat[k] = CLUSTER_FREE)
      BY <1>3, <1>5, ClusterFact
    <2>2. v.fat[last] # CLUSTER_FREE
      BY <1>2, <1>3
    <2> HIDE DEF Rest, fat
    <2>3. Rest \subseteq Cluster
      BY <1>2, <1>5
    <2>4. QED
      BY <1>6, <2>1, <2>2, <2>3 DEF FreeClusters
  (* What is kept. *)
  <1> DEFINE p == [k \in 0..n - 1 |-> W[k]]
  <1>8. p \in [0..n - 1 -> Cluster] /\ \A k \in 0..n - 1 : p[k] = W[k]
    <2>1. \A k \in 0..n - 1 : k \in 0..m - 1
      BY <1>1
    <2>2. QED
      BY <1>2, <2>1
  <1> HIDE DEF p
  <1>9. IsPath(w, c, p, n)
    <2>1. p[0] = c
      BY <1>1, <1>2, <1>8
    <2>2. \A i, j \in 0..n - 1 : p[i] = p[j] => i = j
      BY <1>1, <1>2, <1>8, SMTT(60)
    <2>3. \A i \in 0..n - 2 : w.fat[p[i]] = p[i + 1]
      <3> TAKE i \in 0..n - 2
      <3>1. i \in 0..n - 1 /\ i + 1 \in 0..n - 1 /\ i \in 0..m - 1 /\ i \in 0..m - 2 /\ i # n - 1
        BY <1>1
      <3>2. p[i] = W[i] /\ p[i + 1] = W[i + 1] /\ W[i] # last /\ W[i] \notin Rest
        BY <1>2, <1>3, <1>5, <1>8, <3>1
      <3>3. W[i] \in Cluster /\ v.fat[W[i]] = W[i + 1]
        BY <1>2, <3>1
      <3> HIDE DEF Rest
      <3>4. QED
        BY <1>6, <3>2, <3>3
    <2>4. w.fat[p[n - 1]] = CLUSTER_EOF
      <3>1. n - 1 \in 0..n - 1
        BY <1>1
      <3>2. QED
        BY <1>3, <1>6, <1>8, <3>1
    <2>5. QED
      BY <2>1, <2>2, <2>3, <2>4 DEF IsPath
  <1>10. Sound(w, c)
    <2>1. n \in 1..Cardinality(Cluster)
      BY <1>1
    <2>2. QED
      BY <1>8, <1>9, <2>1 DEF Sound
  <1>11. /\ Size(w, c) = n /\ Chain(w, c) = {p[k] : k \in 0..n - 1}
         /\ \A k \in 0..LastCluster : Walk(w, c)[k] = IF k < n THEN p[k] ELSE p[n - 1]
    <2>1. c \in Cluster /\ w \in Tables
      BY <1>6
    <2>2. QED
      BY ONLY <1>1, <1>8, <1>9, <2>1, PathFact
  <1>12. \A k \in 0..n - 1 : Walk(w, c)[k] = W[k]
    BY <1>1, <1>8, <1>11, ClusterFact
  <1>13. Chain(v, c) \ Chain(w, c) = Rest /\ Chain(w, c) \subseteq Chain(v, c)
    <2>1. \A k \in 0..m - 1 : k \in 0..n - 1 \/ k \in n..m - 1
      BY <1>1
    <2>2. \A k \in 0..n - 1 : k \in 0..m - 1
      BY <1>1
    <2>3. Chain(w, c) = {W[k] : k \in 0..n - 1}
      BY <1>8, <1>11
    <2>4. QED
      BY <1>2, <1>5, <2>1, <2>2, <2>3
  <1>14. \A k \in Cluster \ Chain(v, c) : w.fat[k] = v.fat[k]
    <2> TAKE k \in Cluster \ Chain(v, c)
    <2>1. k # last /\ k \notin Rest
      BY <1>3, <1>5
    <2> HIDE DEF Rest
    <2>2. QED
      BY <1>6, <2>1
  <1>15. Counted(w)
    BY <1>6, <1>7 DEF Counted
  <1>16. QED
    BY <1>4, <1>6, <1>7, <1>10, <1>11, <1>12, <1>13, <1>14, <1>15 DEF t, last, W

-----------------------------------------------------------------------------
(* Chains that grow.                                                          *)

(* What becomes of table v when clusters are taken for the chain from c on.   *)
Grown(v, w, c) ==
    /\ w \in Tables /\ Counted(w) /\ Sound(w, c)
    /\ Size(v, c) <= Size(w, c)
    /\ \A k \in 0..Size(v, c) - 1 : Walk(w, c)[k] = Walk(v, c)[k]
    /\ Chain(v, c) \subseteq Chain(w, c)
    /\ Chain(w, c) \ Chain(v, c) \subseteq FreeClusters(v)
    /\ \A k \in Cluster \ Chain(w, c) : w.fat[k] = v.fat[k]

(* The clusters a chain may come to have.                                     *)
Room(v, c) == Cardinality(Chain(v, c) \union FreeClusters(v))

LEMMA NotGrown ==
  ASSUME NEW v \in Tables, Counted(v), NEW c \in Cluster, Sound(v, c)
  PROVE  Grown(v, v, c)
  <1>1. Size(v, c) <= Size(v, c)
    BY LinksFact
  <1>2. QED
    BY <1>1 DEF Grown

LEMMA GrownFurther ==
  ASSUME NEW u \in Tables, NEW c \in Cluster, Sound(u, c), NEW v, NEW w,
         Grown(u, v, c), Grown(v, w, c)
  PROVE  Grown(u, w, c)
  <1>1. v \in Tables /\ w \in Tables /\ Sound(v, c) /\ Sound(w, c) /\ Counted(w)
    BY DEF Grown
  <1>2. /\ Size(u, c) \in Nat /\ Size(v, c) \in Nat /\ Size(w, c) \in Nat
        /\ Size(u, c) <= Size(v, c) /\ Size(v, c) <= Size(w, c)
    BY <1>1, LinksFact DEF Grown
  <1>3. \A k \in 0..Size(u, c) - 1 : k \in 0..Size(v, c) - 1
    BY <1>2
  <1>4. \A k \in 0..Size(u, c) - 1 : Walk(w, c)[k] = Walk(u, c)[k]
    BY <1>3 DEF Grown
  <1>5. FreeClusters(v) \subseteq FreeClusters(u)
    <2> SUFFICES ASSUME NEW k \in FreeClusters(v) PROVE k \in FreeClusters(u)
      OBVIOUS
    <2>1. k \in Cluster /\ v.fat[k] = CLUSTER_FREE
      BY DEF FreeClusters
    <2>2. k \notin Chain(v, c)
      BY <1>1, <2>1, LinkFact
    <2>3. QED
      BY <2>1, <2>2 DEF Grown, FreeClusters
  <1>6. Chain(w, c) \ Chain(u, c) \subseteq FreeClusters(u) /\ Chain(u, c) \subseteq Chain(w, c)
    BY <1>5 DEF Grown
  <1>7. \A k \in Cluster \ Chain(w, c) : w.fat[k] = u.fat[k]
    BY DEF Grown
  <1>8. Size(u, c) <= Size(w, c)
    BY <1>2
  <1>9. QED
    BY <1>1, <1>4, <1>6, <1>7, <1>8 DEF Grown

(* The clusters of other files, those in use and those left.                  *)
LEMMA GrownFact ==
  ASSUME NEW v \in Tables, NEW c \in Cluster, Sound(v, c), NEW w, Grown(v, w, c)
  PROVE  /\ Chain(w, c) \subseteq Cluster
         /\ UsedClusters(w) = UsedClusters(v) \union Chain(w, c)
         /\ Room(w, c) = Room(v, c)
         /\ Room(w, c) = Size(w, c) + Cardinality(FreeClusters(w))
         /\ \A d \in Cluster : Sound(v, d) /\ Chain(v, d) \intersect Chain(v, c) = {} =>
               /\ Sound(w, d) /\ Chain(w, d) = Chain(v, d) /\ Size(w, d) = Size(v, d)
               /\ \A k \in 0..LastCluster : Walk(w, d)[k] = Walk(v, d)[k]
               /\ Chain(w, d) \intersect Chain(w, c) = {}
  <1>1. w \in Tables /\ Sound(w, c)
    BY DEF Grown
  <1>2. /\ Chain(w, c) \subseteq Cluster /\ \A k \in Chain(w, c) : w.fat[k] # CLUSTER_FREE
        /\ Chain(v, c) \subseteq Cluster /\ \A k \in Chain(v, c) : v.fat[k] # CLUSTER_FREE
    BY <1>1, LinkFact
  <1>3. FreeClusters(w) = FreeClusters(v) \ Chain(w, c)
    BY <1>2 DEF Grown, FreeClusters
  <1>4. UsedClusters(w) = UsedClusters(v) \union Chain(w, c)
    BY <1>2, <1>3 DEF UsedClusters
  <1>5. Chain(w, c) \union FreeClusters(w) = Chain(v, c) \union FreeClusters(v)
    BY <1>3 DEF Grown
  <1>6. Room(w, c) = Size(w, c) + Cardinality(FreeClusters(w))
    <2>1. IsFiniteSet(Chain(w, c)) /\ IsFiniteSet(FreeClusters(w))
      BY <1>1, <1>2, ClusterFact, FreeFact, FS_Subset
    <2>2. Chain(w, c) \cap FreeClusters(w) = {}
      BY <1>2 DEF FreeClusters
    <2>3. Cardinality(Chain(w, c) \union FreeClusters(w)) =
             Cardinality(Chain(w, c)) + Cardinality(FreeClusters(w))
               - Cardinality(Chain(w, c) \cap FreeClusters(w))
      BY <2>1, FS_Union
    <2>4. Cardinality(Chain(w, c) \cap FreeClusters(w)) = 0
          /\ Cardinality(Chain(w, c)) \in Nat /\ Cardinality(FreeClusters(w)) \in Nat
      BY <2>1, <2>2, FS_EmptySet, FS_CardinalityType
    <2>5. QED
      BY <2>3, <2>4 DEF Room, Size
  <1>7. ASSUME NEW d \in Cluster, Sound(v, d), Chain(v, d) \intersect Chain(v, c) = {}
        PROVE  /\ Sound(w, d) /\ Chain(w, d) = Chain(v, d) /\ Size(w, d) = Size(v, d)
               /\ \A k \in 0..LastCluster : Walk(w, d)[k] = Walk(v, d)[k]
               /\ Chain(w, d) \intersect Chain(w, c) = {}
    <2>1. Chain(v, d) \subseteq Cluster /\ \A k \in Chain(v, d) : v.fat[k] # CLUSTER_FREE
      BY <1>7, LinkFact
    <2>2. Chain(v, d) \intersect Chain(w, c) = {}
      BY <1>7, <2>1 DEF Grown, FreeClusters
    <2>3. \A k \in Chain(v, d) : w.fat[k] = v.fat[k]
      BY <2>1, <2>2 DEF Grown
    <2>4. /\ Sound(w, d) /\ Chain(w, d) = Chain(v, d) /\ Size(w, d) = Size(v, d)
          /\ \A k \in 0..LastCluster : Walk(w, d)[k] = Walk(v, d)[k]
      BY <1>1, <1>7, <2>3, SameChain
    <2>5. QED
      BY <2>2, <2>4
  <1>8. QED
    BY <1>2, <1>4, <1>5, <1>6, <1>7 DEF Room

(* One cluster taken for the chain that ends with "last".                     *)
LEMMA GrownByOne ==
  ASSUME ~SlackIsFree, NEW v \in Tables, Counted(v), NEW c \in Cluster, Sound(v, c)
  PROVE  LET l == LinkFreeCluster(v, LastOf(v, c)) IN
         /\ Grown(v, l.vol, c)
         /\ IF FreeClusters(v) = {}
            THEN l.cluster \notin Cluster /\ Size(l.vol, c) = Size(v, c) /\ FreeClusters(l.vol) = {}
            ELSE /\ l.cluster \in Cluster /\ Size(l.vol, c) = Size(v, c) + 1
                 /\ Walk(l.vol, c)[Size(v, c)] = l.cluster
  <1> DEFINE last == LastOf(v, c)
             l == LinkFreeCluster(v, last)
             w == l.vol
  <1>1. last \in Chain(v, c) /\ v.fat[last] = CLUSTER_EOF /\ Chain(v, c) \subseteq Cluster
        /\ \A d \in Chain(v, c) : v.fat[d] # CLUSTER_FREE
    <2>1. Size(v, c) - 1 \in 0..Size(v, c) - 1
      BY LinksFact
    <2>2. last = Walk(v, c)[Size(v, c) - 1]
      BY SoundFact
    <2>3. QED
      BY <2>1, <2>2, LinkFact
  <1>2. last \in Cluster \union {CLUSTER_FREE}
    BY <1>1
  <1>3. /\ w \in Tables /\ Counted(w)
        /\ IF FreeClusters(v) = {} THEN l.cluster \notin Cluster /\ w.fat = v.fat
           ELSE /\ l.cluster \in FreeClusters(v) /\ l.cluster # last
                /\ w.fat = [k \in Cluster |-> IF k = l.cluster THEN CLUSTER_EOF
                                              ELSE IF k = last THEN l.cluster ELSE v.fat[k]]
                /\ FreeClusters(w) = FreeClusters(v) \ {l.cluster}
    <2> HIDE DEF last
    <2>1. last \in Cluster => v.fat[last] = CLUSTER_EOF
      BY <1>1
    <2>2. QED
      BY <1>2, <2>1, TakeFact
  <1> HIDE DEF l
  <1>4. CASE FreeClusters(v) = {}
    <2>1. w.fat = v.fat /\ l.cluster \notin Cluster
      BY <1>3, <1>4
    <2>2. /\ Sound(w, c) /\ Chain(w, c) = Chain(v, c) /\ Size(w, c) = Size(v, c)
          /\ \A k \in 0..LastCluster : Walk(w, c)[k] = Walk(v, c)[k]
      BY <1>3, <2>1, SameChain
    <2>3. Size(v, c) \in Nat /\ Size(v, c) <= LastCluster
      BY LinksFact
    <2>4. \A k \in 0..Size(v, c) - 1 : k \in 0..LastCluster
      BY <2>3, ClusterFact
    <2>f. FreeClusters(w) = {}
      BY <1>4, <2>1 DEF FreeClusters
    <2>5. QED
      BY <1>3, <1>4, <2>1, <2>2, <2>3, <2>4, <2>f DEF Grown, l
  <1>5. CASE FreeClusters(v) # {}
    <2> DEFINE new == l.cluster
    <2>1. /\ new \in FreeClusters(v)
          /\ w.fat = [k \in Cluster |-> IF k = new THEN CLUSTER_EOF
                                        ELSE IF k = LastOf(v, c) THEN new ELSE v.fat[k]]
      BY <1>3, <1>5
    <2> HIDE DEF new
    <2>2. /\ Sound(w, c) /\ Size(w, c) = Size(v, c) + 1
          /\ Chain(w, c) = Chain(v, c) \union {new} /\ new \notin Chain(v, c)
          /\ \A k \in 0..Size(v, c) - 1 : Walk(w, c)[k] = Walk(v, c)[k]
          /\ Walk(w, c)[Size(v, c)] = new
      BY <1>3, <2>1, AppendFact
    <2>3. Size(v, c) <= Size(w, c)
      BY <2>2, LinksFact
    <2>4. \A k \in Cluster \ Chain(w, c) : w.fat[k] = v.fat[k]
      BY <1>1, <2>1, <2>2
    <2>5. Grown(v, w, c)
      BY <1>3, <2>1, <2>2, <2>3, <2>4 DEF Grown
    <2>6. QED
      BY <1>5, <2>1, <2>2, <2>5 DEF new, l, FreeClusters
  <1>6. QED
    BY <1>4, <1>5

-----------------------------------------------------------------------------
(* Positions.                                                                 *)

LEMMA UnitFact ==
  /\ BytesPerSector \in Nat \ {0} /\ SectorsPerCluster \in Nat \ {0}
  /\ BytesPerCluster \in Nat \ {0} /\ BytesPerSector <= BytesPerCluster
  /\ MaxSize \in Nat
  <1>1. \A b, k \in Nat \ {0} : b * k \in Nat \ {0} /\ b <= b * k
    OBVIOUS
  <1>2. QED
    BY <1>1, FileAssumption DEF BytesPerCluster

LEMMA SpanFact ==
  /\ \A i, j \in Nat : i < j => Span(i) + BytesPerCluster <= Span(j)
  /\ \A i \in Nat : Span(i) \in Nat /\ Span(i + 1) = Span(i) + BytesPerCluster
  /\ \A i, j \in Nat : i <= j <=> Span(i) <= Span(j)
  /\ Span(0) = 0
  <1> DEFINE C == BytesPerCluster
  <1>1. C \in Nat \ {0}
    BY UnitFact
  <1>2. \A i : Span(i) = i * C
    BY DEF Span
  <1> HIDE DEF C
  <1>3. \A i \in Nat : i * C \in Nat /\ (i + 1) * C = i * C + C
    BY <1>1
  <1>4. \A i \in Nat : Span(i) \in Nat /\ Span(i + 1) = Span(i) + C
    BY <1>2, <1>3
  <1>5. \A i, j \in Nat : i < j => Span(i) + C <= Span(j)
    <2> TAKE i, j \in Nat
    <2> HAVE i < j
    <2> DEFINE m == j - (i + 1)
    <2>1. m \in Nat /\ m * C \in Nat
      BY <1>3
    <2>2. j * C = m * C + i * C + C
      BY <1>1
    <2> HIDE DEF m
    <2>3. i * C \in Nat
      BY <1>3
    <2>4. i * C + C <= j * C
      BY <1>1, <2>1, <2>2, <2>3
    <2>5. QED
      BY <1>2, <2>4
  <1>6. \A i, j \in Nat : i <= j <=> Span(i) <= Span(j)
    <2> TAKE i, j \in Nat
    <2>1. Span(i) \in Nat /\ Span(j) \in Nat
      BY <1>4
    <2>2. i < j => Span(i) + C <= Span(j)
      BY <1>5
    <2>3. j < i => Span(j) + C <= Span(i)
      BY <1>5
    <2>4. QED
      BY <1>1, <2>1, <2>2, <2>3
  <1>7. 0 * C = 0
    BY <1>1
  <1>8. QED
    BY <1>2, <1>4, <1>5, <1>6, <1>7 DEF C

LEMMA RunFact ==
  /\ \A i \in Nat : Run(i) \in Nat /\ i <= Run(i)
  /\ \A i, n \in Nat : Run(i + n) = Run(i) + Run(n)
  /\ \A i, n \in Nat : i <= n <=> Run(i) <= Run(n)
  /\ Run(0) = 0 /\ Run(1) = BytesPerSector
  /\ Run(SectorsPerCluster) = BytesPerCluster
  <1> DEFINE B == BytesPerSector
  <1>1. B \in Nat \ {0} /\ SectorsPerCluster \in Nat
    BY UnitFact
  <1>2. \A i : Run(i) = i * B
    BY DEF Run
  <1>3. Run(SectorsPerCluster) = BytesPerCluster
    BY <1>1 DEF Run, BytesPerCluster
  <1> HIDE DEF B
  <1>4. \A i \in Nat : i * B \in Nat /\ i <= i * B
    BY <1>1
  <1>5. \A i \in Nat : Run(i) \in Nat /\ i <= Run(i)
    BY <1>2, <1>4
  <1>6. \A i, n \in Nat : Run(i + n) = Run(i) + Run(n)
    <2> TAKE i, n \in Nat
    <2>1. (i + n) * B = i * B + n * B
      BY <1>1
    <2>2. QED
      BY <1>2, <2>1
  <1>7. \A i, n \in Nat : i < n => Run(i) < Run(n)
    <2> TAKE i, n \in Nat
    <2> HAVE i < n
    <2> DEFINE m == n - i
    <2>1. m \in Nat \ {0} /\ i + m = n
      OBVIOUS
    <2> HIDE DEF m
    <2>2. Run(n) = Run(i) + Run(m)
      BY <1>6, <2>1
    <2>3. Run(i) \in Nat /\ Run(m) \in Nat /\ m <= Run(m)
      BY <1>5, <2>1
    <2>4. QED
      BY <2>1, <2>2, <2>3
  <1>8. \A i, n \in Nat : i <= n <=> Run(i) <= Run(n)
    <2> TAKE i, n \in Nat
    <2>1. Run(i) \in Nat /\ Run(n) \in Nat /\ (i < n => Run(i) < Run(n)) /\ (n < i => Run(n) < Run(i))
      BY <1>5, <1>7
    <2>2. QED
      BY <2>1
  <1>9. 0 * B = 0 /\ 1 * B = B
    BY <1>1
  <1>10. QED
    BY <1>2, <1>3, <1>5, <1>6, <1>8, <1>9 DEF B

(* How many clusters x bytes need.                                            *)
LEMMA ClustersForFact ==
  /\ \A x \in Nat : ClustersFor(x) \in Nat /\ x <= Span(ClustersFor(x))
  /\ \A x, m \in Nat : m < ClustersFor(x) <=> Span(m) < x
  /\ ClustersFor(0) = 0
  <1> DEFINE C == BytesPerCluster
  <1>1. C \in Nat \ {0}
    BY UnitFact
  <1>2. \A x : ClustersFor(x) = (x + C - 1) \div C
    BY DEF ClustersFor
  <1>3. \A i : Span(i) = i * C
    BY DEF Span
  <1>4. /\ \A i, j \in Nat : i < j => Span(i) + C <= Span(j)
        /\ \A i \in Nat : Span(i) \in Nat
        /\ Span(0) = 0
    BY SpanFact
  <1> HIDE DEF C
  <1>5. ASSUME NEW x \in Nat
        PROVE  /\ ClustersFor(x) \in Nat
               /\ \E r \in 0..C - 1 : x + C - 1 = Span(ClustersFor(x)) + r
    <2> DEFINE y == x + C - 1
               q == y \div C
               r == y % C
    <2>1. y \in Nat
      BY <1>1
    <2> HIDE DEF y
    <2>2. q \in Nat /\ r \in 0..C - 1 /\ y = C * q + r
      BY <1>1, <2>1
    <2> HIDE DEF q, r
    <2>3. C * q = q * C
      BY <1>1, <2>2
    <2>4. ClustersFor(x) = q
      BY <1>2 DEF q, y
    <2>5. QED
      BY <1>3, <2>2, <2>3, <2>4 DEF y
  <1>6. \A x, m \in Nat : m < ClustersFor(x) <=> Span(m) < x
    <2> TAKE x, m \in Nat
    <2> DEFINE q == ClustersFor(x)
    <2>1. q \in Nat
      BY <1>5
    <2>2. PICK r \in 0..C - 1 : x + C - 1 = Span(q) + r
      BY <1>5
    <2> HIDE DEF q
    <2>3. Span(q) \in Nat /\ Span(m) \in Nat
      BY <1>4, <2>1
    <2>4. CASE m < q
      <3>1. Span(m) + C <= Span(q)
        BY <1>4, <2>1, <2>4
      <3>2. Span(m) < x
        BY <1>1, <2>2, <2>3, <3>1
      <3>3. QED
        BY <2>4, <3>2 DEF q
    <2>5. CASE ~(m < q)
      <3>1. Span(q) <= Span(m)
        <4>1. CASE q = m
          BY <2>3, <4>1
        <4>2. CASE q < m
          <5>1. Span(q) + C <= Span(m)
            BY <1>4, <2>1, <4>2
          <5>2. QED
            BY <1>1, <2>3, <5>1
        <4>3. QED
          BY <2>1, <2>5, <4>1, <4>2
      <3>2. ~(Span(m) < x)
        BY <1>1, <2>2, <2>3, <3>1
      <3>3. QED
        BY <2>5, <3>2 DEF q
    <2>6. QED
      BY <2>4, <2>5
  <1>7. \A x \in Nat : ClustersFor(x) \in Nat /\ x <= Span(ClustersFor(x))
    <2> TAKE x \in Nat
    <2>1. ClustersFor(x) \in Nat
      BY <1>5
    <2>2. ~(ClustersFor(x) < ClustersFor(x)) /\ Span(ClustersFor(x)) \in Nat
      BY <1>4, <2>1
    <2>3. QED
      BY <1>6, <2>1, <2>2
  <1>8. ClustersFor(0) = 0
    <2>1. ~(0 < ClustersFor(0))
      BY <1>4, <1>6
    <2>2. QED
      BY <1>7, <2>1
  <1>9. QED
    BY <1>6, <1>7, <1>8

(* A position on the chain, some bytes, some sectors and a cluster further.   *)
LEMMA AtFact ==
  ASSUME NEW v \in Tables, NEW c \in Cluster, Sound(v, c), NEW p, NEW x, IsAt(v, c, p, x)
  PROVE  /\ x \in Nat /\ x <= Span(Size(v, c))
         /\ p.cluster \in Cluster /\ p.cluster \in Chain(v, c)
         /\ p.sector \in 0..SectorsPerCluster /\ p.byte \in 0..BytesPerSector - 1
         /\ p.sector = SectorsPerCluster => p.byte = 0
  <1>1. PICK k \in 0..Size(v, c) - 1 : p.cluster = Walk(v, c)[k] /\ x = Offset(k, p.sector, p.byte)
    BY DEF IsAt
  <1>2. /\ p.sector \in 0..SectorsPerCluster /\ p.byte \in 0..BytesPerSector - 1
        /\ p.sector = SectorsPerCluster => p.byte = 0
    BY DEF IsAt
  <1>3. Size(v, c) \in Nat \ {0} /\ k \in Nat /\ p.sector \in Nat /\ p.byte \in Nat
    BY <1>1, <1>2, LinksFact, UnitFact
  <1>4. x \in Nat
    <2>1. Span(k) \in Nat /\ Run(p.sector) \in Nat
      BY <1>3, SpanFact, RunFact
    <2>2. QED
      BY <1>1, <1>3, <2>1 DEF Offset
  <1>5. p.cluster \in Cluster /\ p.cluster \in Chain(v, c)
    BY <1>1, LinkFact
  <1>6. x <= Span(Size(v, c))
    <2> DEFINE S == SectorsPerCluster
               i == p.sector
               b == p.byte
               C == BytesPerCluster
               B == BytesPerSector
    <2>1. S \in Nat /\ i \in Nat /\ i <= S /\ b \in Nat /\ B \in Nat \ {0} /\ b < B /\ (i = S => b = 0)
      BY <1>2, UnitFact
    <2>2. x = Offset(k, i, b) /\ k + 1 <= Size(v, c) /\ k + 1 \in Nat
      BY <1>1, <1>3
    <2> HIDE DEF S, i, b, C, B
    <2>3. Run(i) + b <= C /\ Run(i) \in Nat
      <3>0. Run(S) = C /\ Run(i) \in Nat /\ C \in Nat
        BY <2>1, RunFact, UnitFact DEF S, C
      <3>1. CASE i = S
        BY <2>1, <3>0, <3>1
      <3>2. CASE i < S
        <4>1. Run(i + 1) <= Run(S) /\ Run(i + 1) = Run(i) + B
          <5>1. i + 1 \in Nat /\ i + 1 <= S
            BY <2>1, <3>2
          <5>2. QED
            BY <2>1, <5>1, RunFact DEF B
        <4>2. QED
          BY <2>1, <3>0, <4>1
      <3>3. QED
        BY <2>1, <3>1, <3>2
    <2>4. Span(k) + C <= Span(Size(v, c)) /\ Span(k) \in Nat /\ Span(Size(v, c)) \in Nat
          /\ C \in Nat
      BY <1>3, <2>2, SpanFact, UnitFact DEF C
    <2>5. x = Span(k) + Run(i) + b
      BY <2>2 DEF Offset
    <2>7. QED
      BY <2>1, <2>3, <2>4, <2>5
  <1>7. QED
    BY <1>2, <1>4, <1>5, <1>6

LEMMA ByteOnFact ==
  ASSUME NEW v \in Tables, NEW c \in Cluster, Sound(v, c), NEW p, NEW x, IsAt(v, c, p, x),
         p.sector < SectorsPerCluster, NEW n \in Nat, p.byte + n <= BytesPerSector,
         \E d, i, b : p = Pos(d, i, b)
  PROVE  /\ IsAt(v, c, ByteOn(p, n), x + n)
         /\ ByteOn(p, n) = Pos(p.cluster, ByteOn(p, n).sector, ByteOn(p, n).byte)
         /\ p.byte + n = BytesPerSector => ByteOn(p, n).byte = 0
  <1>1. PICK k \in 0..Size(v, c) - 1 : p.cluster = Walk(v, c)[k] /\ x = Offset(k, p.sector, p.byte)
    BY DEF IsAt
  <1>2. /\ p.sector \in Nat /\ p.byte \in Nat /\ k \in Nat
        /\ SectorsPerCluster \in Nat /\ BytesPerSector \in Nat \ {0}
    BY <1>1, LinksFact, UnitFact DEF IsAt
  <1>s. Span(k) \in Nat /\ Run(p.sector) \in Nat
    BY <1>2, SpanFact, RunFact
  <1>3. PICK d, i, b : p = Pos(d, i, b)
    OBVIOUS
  <1>4. CASE p.byte + n >= BytesPerSector
    <2>1. p.byte + n = BytesPerSector /\ ByteOn(p, n) = Pos(p.cluster, p.sector + 1, 0)
      BY <1>2, <1>4 DEF ByteOn
    <2>2. x + n = Offset(k, p.sector + 1, 0)
      <3>1. x + n = Offset(k, p.sector, p.byte + n)
        BY <1>1, <1>2, <1>s DEF Offset
      <3>2. Run(p.sector + 1) = Run(p.sector) + BytesPerSector
        BY <1>2, RunFact
      <3>3. QED
        BY <1>2, <1>s, <2>1, <3>1, <3>2 DEF Offset
    <2>3. p.sector + 1 \in 0..SectorsPerCluster /\ 0 \in 0..BytesPerSector - 1
      BY <1>2
    <2> DEFINE q == Pos(p.cluster, p.sector + 1, 0)
    <2>4. q.cluster = p.cluster /\ q.sector = p.sector + 1 /\ q.byte = 0
      BY DEF Pos
    <2> HIDE DEF q
    <2>5. IsAt(v, c, q, x + n)
      BY <1>1, <2>2, <2>3, <2>4 DEF IsAt
    <2>6. q = Pos(p.cluster, q.sector, q.byte)
      BY <2>4 DEF q
    <2>7. QED
      BY <2>1, <2>4, <2>5, <2>6 DEF q
  <1>5. CASE ~(p.byte + n >= BytesPerSector)
    <2> DEFINE q == [p EXCEPT !.byte = @ + n]
    <2>1. ByteOn(p, n) = q
      BY <1>5 DEF ByteOn
    <2>2. q = Pos(p.cluster, p.sector, p.byte + n) /\ q.cluster = p.cluster /\ q.sector = p.sector
          /\ q.byte = p.byte + n
      BY <1>3 DEF Pos
    <2> HIDE DEF q
    <2>3. q.byte \in 0..BytesPerSector - 1 /\ q.sector # SectorsPerCluster
          /\ q.sector \in 0..SectorsPerCluster
      BY <1>2, <1>5, <2>2
    <2>4. x + n = Offset(k, q.sector, q.byte)
      <3>1. Offset(k, p.sector, p.byte + n) = Offset(k, p.sector, p.byte) + n
        BY <1>2, <1>s DEF Offset
      <3>2. QED
        BY <1>1, <2>2, <3>1
    <2>5. IsAt(v, c, q, x + n)
      BY <1>1, <2>2, <2>3, <2>4 DEF IsAt
    <2>6. p.byte + n # BytesPerSector
      BY <1>2, <1>5
    <2>7. QED
      BY <2>1, <2>2, <2>5, <2>6
  <1>6. QED
    BY <1>4, <1>5

LEMMA SectorOnFact ==
  ASSUME NEW v \in Tables, NEW c \in Cluster, Sound(v, c), NEW p, NEW x, IsAt(v, c, p, x),
         p.byte = 0, NEW n \in Nat, p.sector + n <= SectorsPerCluster
  PROVE  IsAt(v, c, Pos(p.cluster, p.sector + n, 0), x + Run(n))
  <1>1. PICK k \in 0..Size(v, c) - 1 : p.cluster = Walk(v, c)[k] /\ x = Offset(k, p.sector, p.byte)
    BY DEF IsAt
  <1>2. /\ p.sector \in Nat /\ p.byte \in Nat /\ k \in Nat
        /\ SectorsPerCluster \in Nat /\ BytesPerSector \in Nat \ {0}
    BY <1>1, LinksFact, UnitFact DEF IsAt
  <1>s. Span(k) \in Nat /\ Run(p.sector) \in Nat
    BY <1>2, SpanFact, RunFact
  <1> DEFINE q == Pos(p.cluster, p.sector + n, 0)
  <1>3. q.cluster = p.cluster /\ q.sector = p.sector + n /\ q.byte = 0
    BY DEF Pos
  <1> HIDE DEF q
  <1>4. x + Run(n) = Offset(k, q.sector, q.byte)
    <2>1. Offset(k, p.sector + n, p.byte) = Offset(k, p.sector, p.byte) + Run(n)
      <3>1. Run(p.sector + n) = Run(p.sector) + Run(n) /\ Run(n) \in Nat
        BY <1>2, RunFact
      <3>2. QED
        BY <1>2, <1>s, <3>1 DEF Offset
    <2>2. QED
      BY <1>1, <1>3, <2>1
  <1>5. q.sector \in 0..SectorsPerCluster /\ q.byte \in 0..BytesPerSector - 1
    BY <1>2, <1>3
  <1>6. QED
    BY <1>1, <1>3, <1>4, <1>5 DEF IsAt, q

(* The end of a cluster is the start of the next one, if there is one.        *)
LEMMA NextFact ==
  ASSUME NEW v \in Tables, NEW c \in Cluster, Sound(v, c), NEW p, NEW x, IsAt(v, c, p, x),
         p.sector = SectorsPerCluster
  PROVE  LET next == NextCluster(v, p.cluster) IN
         IF x < Span(Size(v, c))
         THEN next \in Cluster /\ ~Ends(v, p.cluster) /\ IsAt(v, c, Pos(next, 0, p.byte), x)
         ELSE next = CLUSTER_EOF /\ Ends(v, p.cluster) /\ p.cluster = LastOf(v, c)
              /\ x = Span(Size(v, c))
  <1> DEFINE n == Size(v, c)
             next == NextCluster(v, p.cluster)
  <1>1. PICK k \in 0..n - 1 : p.cluster = Walk(v, c)[k] /\ x = Offset(k, p.sector, p.byte)
    BY DEF IsAt
  <1>2. n \in Nat \ {0} /\ k \in Nat /\ p.byte = 0 /\ 0 \in 0..BytesPerSector - 1
        /\ 0 \in 0..SectorsPerCluster /\ SectorsPerCluster \in Nat \ {0}
    BY <1>1, LinksFact, UnitFact DEF IsAt
  <1>3. p.cluster \in Cluster /\ next = v.fat[p.cluster]
    BY AtFact DEF NextCluster
  <1>4. /\ \A i \in 0..n - 1 : Walk(v, c)[i] \in Chain(v, c)
        /\ Chain(v, c) \subseteq Cluster
        /\ \A i \in 0..n - 2 : v.fat[Walk(v, c)[i]] = Walk(v, c)[i + 1]
        /\ v.fat[Walk(v, c)[n - 1]] = CLUSTER_EOF
        /\ LastOf(v, c) = Walk(v, c)[n - 1]
    BY LinkFact, SoundFact
  <1> HIDE DEF n
  <1>5. x = Span(k + 1) /\ Span(k + 1) \in Nat
    <2>1. /\ Span(k + 1) = Span(k) + BytesPerCluster /\ Span(k) \in Nat
          /\ Run(SectorsPerCluster) = BytesPerCluster /\ BytesPerCluster \in Nat
      BY <1>2, SpanFact, RunFact, UnitFact
    <2>2. QED
      BY <1>1, <1>2, <2>1 DEF Offset
  <1>6. CASE k = n - 1
    <2>1. next = CLUSTER_EOF /\ Ends(v, p.cluster)
      BY <1>1, <1>3, <1>4, <1>6 DEF Ends
    <2>2. x = Span(n) /\ ~(x < Span(n)) /\ p.cluster = LastOf(v, c)
      BY <1>1, <1>2, <1>4, <1>5, <1>6
    <2>3. QED
      BY <2>1, <2>2 DEF n
  <1>7. CASE k # n - 1
    <2>1. k \in 0..n - 2 /\ k + 1 \in 0..n - 1 /\ k + 1 < n /\ k + 1 \in Nat
      BY <1>1, <1>2, <1>7
    <2>2. next = Walk(v, c)[k + 1] /\ next \in Cluster
      BY <1>1, <1>3, <1>4, <2>1
    <2>3. ~Ends(v, p.cluster)
      BY <2>2, ClusterFact DEF Ends
    <2>4. x < Span(n)
      <3>1. Span(k + 1) + BytesPerCluster <= Span(n) /\ BytesPerCluster \in Nat \ {0}
            /\ Span(n) \in Nat
        BY <1>2, <2>1, SpanFact, UnitFact
      <3>2. QED
        BY <1>5, <3>1
    <2> HIDE DEF next
    <2> DEFINE q == Pos(next, 0, p.byte)
    <2>5. q.cluster = next /\ q.sector = 0 /\ q.byte = 0
      BY <1>2 DEF Pos
    <2> HIDE DEF q
    <2>6. x = Offset(k + 1, q.sector, q.byte)
      <3>1. Run(0) = 0
        BY RunFact
      <3>2. QED
        BY <1>5, <2>5, <3>1 DEF Offset
    <2>7. IsAt(v, c, q, x)
      BY <1>2, <2>1, <2>2, <2>5, <2>6 DEF IsAt, n
    <2>8. QED
      BY <2>2, <2>3, <2>4, <2>7 DEF q, n, next
  <1>8. QED
    BY <1>6, <1>7

(* Where offset x is.                                                         *)
LEMMA AddressFact ==
  ASSUME NEW x \in Nat
  PROVE  LET i == (x % BytesPerCluster) \div BytesPerSector IN
         /\ x \div BytesPerCluster \in Nat
         /\ i \in 0..SectorsPerCluster - 1 /\ x % BytesPerSector \in 0..BytesPerSector - 1
         /\ x = Offset(x \div BytesPerCluster, i, x % BytesPerSector)
         /\ i = 0 /\ x % BytesPerSector = 0 <=> x % BytesPerCluster = 0
  <1> DEFINE B == BytesPerSector
             C == BytesPerCluster
             S == SectorsPerCluster
             q == x \div C
             r == x % C
             i == r \div B
             b == r % B
  <1>1. B \in Nat \ {0} /\ C \in Nat \ {0} /\ S \in Nat \ {0} /\ C = S * B
    BY UnitFact DEF BytesPerCluster
  <1>2. \A k : Span(k) = k * C /\ Run(k) = k * B
    BY DEF Span, Run
  <1>3. /\ \A k \in Nat : Run(k) \in Nat /\ Span(k) \in Nat
        /\ \A k, n \in Nat : k <= n <=> Run(k) <= Run(n)
        /\ Run(S) = C /\ Run(0) = 0
    BY RunFact, SpanFact
  <1>9. \A k, n \in Nat : Run(k + n) = Run(k) + Run(n)
    BY RunFact
  <1> HIDE DEF B, C, S
  <1>4. q \in Nat /\ r \in 0..C - 1 /\ x = C * q + r
    BY <1>1
  <1> HIDE DEF q, r
  <1>5. i \in Nat /\ b \in 0..B - 1 /\ r = B * i + b
    BY <1>1, <1>4
  <1> HIDE DEF i, b
  <1>6. x = Span(q) + Run(i) + b
    <2>1. Span(q) = C * q /\ Run(i) = B * i
      BY <1>1, <1>2, <1>4, <1>5
    <2>2. C * q \in Nat /\ B * i \in Nat
      BY <1>1, <1>4, <1>5
    <2>3. QED
      BY ONLY <1>4, <1>5, <2>1, <2>2
  <1>7. i < S
    <2>1. Run(i) < C
      <3>1. r = Run(i) + b /\ Run(i) \in Nat
        BY <1>1, <1>2, <1>3, <1>4, <1>5
      <3>2. QED
        BY <1>1, <1>4, <1>5, <3>1
    <2>2. Run(i) \in Nat
      BY <1>3, <1>5
    <2>3. QED
      BY <1>1, <1>3, <1>5, <2>1, <2>2
  <1>8. x % B = b
    <2> DEFINE m == q * S + i
               d == x \div B
               e == x % B
    <2>1. m \in Nat
      BY <1>1, <1>4, <1>5
    <2>2. x = Run(m) + b
      <3>1. (q * S + i) * B = q * (S * B) + i * B
        BY <1>1, <1>4, <1>5
      <3>2. QED
        BY <1>1, <1>2, <1>6, <3>1
    <2> HIDE DEF m
    <2>3. d \in Nat /\ e \in 0..B - 1 /\ x = B * d + e
      BY <1>1
    <2> HIDE DEF d, e
    <2>4. x = Run(d) + e
      <3>1. B * d = d * B
        BY <1>1, <2>3
      <3>2. QED
        BY <1>2, <2>3, <3>1
    <2>5. Run(m) \in Nat /\ Run(d) \in Nat
      BY <1>3, <2>1, <2>3
    <2>6. \A j, k \in Nat : j < k => Run(j) + B <= Run(k)
      <3> TAKE j, k \in Nat
      <3> HAVE j < k
      <3>1. j + 1 \in Nat /\ j + 1 <= k
        OBVIOUS
      <3>2. Run(j + 1) <= Run(k)
        BY <1>3, <3>1
      <3>3. Run(j + 1) = Run(j) + B
        BY RunFact DEF B
      <3>4. QED
        BY <3>2, <3>3
    <2>7. ~(m < d)
      <3> SUFFICES ASSUME m < d PROVE FALSE
        OBVIOUS
      <3>1. Run(m) + B <= Run(d)
        BY <2>1, <2>3, <2>6
      <3>2. QED
        BY <1>1, <1>5, <2>2, <2>3, <2>4, <2>5, <3>1
    <2>8. ~(d < m)
      <3> SUFFICES ASSUME d < m PROVE FALSE
        OBVIOUS
      <3>1. Run(d) + B <= Run(m)
        BY <2>1, <2>3, <2>6
      <3>2. QED
        BY <1>1, <1>5, <2>2, <2>3, <2>4, <2>5, <3>1
    <2>9. m = d
      BY <2>1, <2>3, <2>7, <2>8
    <2>10. e = b
      BY <1>5, <2>2, <2>3, <2>4, <2>5, <2>9
    <2>11. QED
      BY <2>10 DEF e
  <1>10. i = 0 /\ b = 0 <=> r = 0
    <2>1. r = Run(i) + b /\ Run(i) \in Nat /\ i <= Run(i)
      <3>1. r = Run(i) + b /\ Run(i) \in Nat
        BY <1>1, <1>2, <1>3, <1>4, <1>5
      <3>2. i <= Run(i)
        BY <1>5, RunFact
      <3>3. QED
        BY <3>1, <3>2
    <2>2. QED
      BY <1>3, <1>5, <2>1
  <1>11. x = Offset(q, i, b)
    BY <1>6 DEF Offset
  <1>12. i \in 0..S - 1
    BY <1>1, <1>5, <1>7
  <1>13. QED
    BY <1>4, <1>5, <1>8, <1>10, <1>11, <1>12 DEF q, r, i, b, B, C, S

(* The position after the last byte of a file.                                *)
LEMMA EndFact ==
  ASSUME NEW v \in Tables, NEW c \in Cluster, Sound(v, c), NEW x \in Nat,
         x <= Span(Size(v, c)),
         Span(Size(v, c) - 1) < x \/ (x = 0 /\ Size(v, c) = 1)
  PROVE  /\ IsAt(v, c, EndPosition(v, c, x), x)
         /\ EndPosition(v, c, x) \in Position
         /\ \E d, i, b : EndPosition(v, c, x) = Pos(d, i, b)
  <1> DEFINE C == BytesPerCluster
             q == x \div C
             i == (x % C) \div BytesPerSector
             b == x % BytesPerSector
             n == Size(v, c)
             p == EndPosition(v, c, x)
  <1>1. /\ q \in Nat /\ i \in 0..SectorsPerCluster - 1 /\ b \in 0..BytesPerSector - 1
        /\ x = Offset(q, i, b)
        /\ i = 0 /\ b = 0 <=> x % C = 0
    BY AddressFact
  <1>2. n \in Nat \ {0} /\ n - 1 \in 0..n - 1 /\ n - 1 \in Nat /\ (n - 1) + 1 = n
    BY LinksFact
  <1>3. SectorsPerCluster \in Nat \ {0} /\ BytesPerSector \in Nat \ {0} /\ C \in Nat \ {0}
    BY UnitFact
  <1>4. LastOf(v, c) = Walk(v, c)[n - 1] /\ LastOf(v, c) \in Cluster
    BY <1>2, SoundFact, LinkFact
  <1>5. p.cluster = LastOf(v, c)
        /\ p.sector = (IF x > 0 /\ x % C = 0 THEN SectorsPerCluster ELSE i) /\ p.byte = b
    BY DEF EndPosition, Pos
  <1>6. \E d, j, e : p = Pos(d, j, e)
    BY DEF EndPosition
  <1> HIDE DEF q, i, b, p
  <1>7. /\ Span(q) \in Nat /\ Run(i) \in Nat /\ Run(0) = 0
        /\ Span(n - 1) \in Nat /\ Span(n) = Span(n - 1) + C
        /\ Run(SectorsPerCluster) = C
    BY <1>1, <1>2, <1>3, SpanFact, RunFact
  <1>8. Run(i) + b < C
    <2>1. i + 1 \in Nat /\ i + 1 <= SectorsPerCluster
      BY <1>1, <1>3
    <2>2. Run(i + 1) <= Run(SectorsPerCluster) /\ Run(i + 1) = Run(i) + BytesPerSector
      BY <1>1, <1>3, <2>1, RunFact
    <2>3. QED
      BY <1>1, <1>3, <1>7, <2>2
  <1>9. CASE x % C = 0 /\ x > 0
    <2>1. x = Span(q) /\ p.sector = SectorsPerCluster /\ p.byte = 0
      BY <1>1, <1>5, <1>7, <1>9 DEF Offset
    <2>2. q = n
      <3>1. ~(n < q)
        <4> SUFFICES ASSUME n < q PROVE FALSE
          OBVIOUS
        <4>1. Span(n) + C <= Span(q)
          BY <1>1, <1>2, SpanFact
        <4>2. QED
          BY <1>3, <1>7, <2>1, <4>1
      <3>2. ~(q <= n - 1)
        <4> SUFFICES ASSUME q <= n - 1 PROVE FALSE
          OBVIOUS
        <4>1. Span(q) <= Span(n - 1)
          BY <1>1, <1>2, SpanFact
        <4>2. Span(n - 1) < x
          BY <1>9
        <4>3. QED
          BY <1>7, <2>1, <4>1, <4>2
      <3>3. QED
        BY <1>1, <1>2, <3>1, <3>2
    <2>3. x = Offset(n - 1, p.sector, p.byte)
      BY <1>3, <1>7, <2>1, <2>2 DEF Offset
    <2>4. IsAt(v, c, p, x)
      BY <1>2, <1>3, <1>4, <1>5, <2>1, <2>3 DEF IsAt
    <2>5. p \in Position
      BY <1>3, <1>4, <1>5, <1>6, <2>1 DEF Position, Pos
    <2>6. QED
      BY <1>6, <2>4, <2>5 DEF p
  <1>10. CASE ~(x % C = 0 /\ x > 0)
    <2>1. p.sector = i /\ p.byte = b /\ x = Span(q) + Run(i) + b
      BY <1>1, <1>5, <1>10 DEF Offset
    <2>2. q = n - 1
      <3>1. ~(q < n - 1)
        <4> SUFFICES ASSUME q < n - 1 PROVE FALSE
          OBVIOUS
        <4>1. Span(q) + C <= Span(n - 1)
          BY <1>1, <1>2, SpanFact
        <4>2. Span(n - 1) < x
          BY <1>1, <1>2
        <4>3. QED
          BY <1>1, <1>3, <1>7, <1>8, <2>1, <4>1, <4>2
      <3>2. ~(n - 1 < q)
        <4> SUFFICES ASSUME n - 1 < q PROVE FALSE
          OBVIOUS
        <4>1. Span(n - 1) + C <= Span(q)
          BY <1>1, <1>2, SpanFact
        <4>2. Run(i) + b = 0 /\ x > 0
          BY <1>1, <1>3, <1>7, <2>1, <4>1
        <4>3. b = 0 /\ i = 0
          <5>1. i <= Run(i)
            BY <1>1, RunFact
          <5>2. QED
            BY <1>1, <1>7, <4>2, <5>1
        <4>4. QED
          BY <1>1, <1>10, <4>2, <4>3
      <3>3. QED
        BY <1>1, <1>2, <3>1, <3>2
    <2>3. x = Offset(n - 1, p.sector, p.byte)
      BY <2>1, <2>2 DEF Offset
    <2>4. p.sector \in 0..SectorsPerCluster /\ p.sector # SectorsPerCluster
          /\ p.byte \in 0..BytesPerSector - 1
      BY <1>1, <1>3, <2>1
    <2>5. IsAt(v, c, p, x)
      BY <1>2, <1>4, <1>5, <2>3, <2>4 DEF IsAt
    <2>6. p \in Position
      BY <1>3, <1>4, <1>5, <1>6, <2>4 DEF Position, Pos
    <2>7. QED
      BY <1>6, <2>5, <2>6 DEF p
  <1>11. QED
    BY <1>9, <1>10

-----------------------------------------------------------------------------
(* Where the bytes are.                                                       *)

(* The place on the volume of the byte at offset x of the file that starts    *)
(* with cluster c, and the cluster that a place is in.                        *)
Spot(v, c, x) == Span(Walk(v, c)[x \div BytesPerCluster] - CLUSTER_FIRST) + (x % BytesPerCluster)
Home(i) == CLUSTER_FIRST + (i \div BytesPerCluster)

LEMMA SplitFact ==
  /\ \A x \in Nat : /\ x \div BytesPerCluster \in Nat /\ x % BytesPerCluster \in 0..BytesPerCluster - 1
                    /\ x = Span(x \div BytesPerCluster) + (x % BytesPerCluster)
  /\ \A k \in Nat, r \in 0..BytesPerCluster - 1 :
        (Span(k) + r) \div BytesPerCluster = k /\ (Span(k) + r) % BytesPerCluster = r
  <1> DEFINE C == BytesPerCluster
  <1>1. C \in Nat \ {0}
    BY UnitFact
  <1>2. \A k : Span(k) = k * C
    BY DEF Span
  <1> HIDE DEF C
  <1>3. \A x \in Nat : x \div C \in Nat /\ x % C \in 0..C - 1 /\ x = C * (x \div C) + (x % C)
    BY <1>1
  <1>4. ASSUME NEW x \in Nat PROVE x = Span(x \div C) + (x % C)
    <2> DEFINE k == x \div C
    <2>1. k \in Nat /\ x = C * k + (x % C)
      BY <1>3
    <2> HIDE DEF k
    <2>2. C * k = k * C
      BY <1>1, <2>1
    <2>3. QED
      BY <1>2, <2>1, <2>2 DEF k
  <1>5. ASSUME NEW k \in Nat, NEW r \in 0..C - 1
        PROVE  (Span(k) + r) \div C = k /\ (Span(k) + r) % C = r
    <2> DEFINE x == Span(k) + r
               n == x \div C
               m == x % C
    <2>1. Span(k) \in Nat /\ r \in Nat /\ r < C
      BY <1>1, <1>5, SpanFact
    <2>2. x \in Nat /\ x = Span(k) + r
      BY <2>1
    <2> HIDE DEF x
    <2>3. n \in Nat /\ m \in Nat /\ m < C /\ x = Span(n) + m
      <3>1. n \in Nat /\ m \in 0..C - 1
        BY <1>3, <2>2
      <3>2. x = Span(n) + m
        BY <1>4, <2>2
      <3> HIDE DEF n, m
      <3>3. QED
        BY <1>1, <3>1, <3>2
    <2> HIDE DEF n, m
    <2>4. Span(n) \in Nat
      BY <2>3, SpanFact
    <2>5. ~(k < n)
      <3>1. k < n => Span(k) + C <= Span(n)
        BY <2>3, SpanFact DEF C
      <3>2. QED
        BY <1>1, <2>1, <2>2, <2>3, <2>4, <3>1
    <2>6. ~(n < k)
      <3>1. n < k => Span(n) + C <= Span(k)
        BY <2>3, SpanFact DEF C
      <3>2. QED
        BY <1>1, <2>1, <2>2, <2>3, <2>4, <3>1
    <2>7. n = k
      BY <2>3, <2>5, <2>6
    <2>8. m = r
      BY <2>1, <2>2, <2>3, <2>7
    <2>9. QED
      BY <2>7, <2>8 DEF n, m, x
  <1>6. QED
    BY <1>3, <1>4, <1>5 DEF C

(* A place of the volume, from the cluster and the offset in it.              *)
LEMMA PlaceFact ==
  ASSUME NEW d \in Cluster, NEW r \in 0..BytesPerCluster - 1,
         NEW i, i = Span(d - CLUSTER_FIRST) + r
  PROVE  i \in Place /\ Home(i) = d /\ i % BytesPerCluster = r
  <1> DEFINE C == BytesPerCluster
             k == d - CLUSTER_FIRST
             n == Cardinality(Cluster)
  <1>1. C \in Nat \ {0} /\ r \in Nat /\ r < C
    BY UnitFact
  <1>2. k \in Nat /\ n \in Nat /\ k < n /\ CLUSTER_FIRST + k = d
    BY ClusterFact DEF Cluster, CLUSTER_FIRST
  <1>3. Span(n) = n * C
    BY DEF Span
  <1>4. i = Span(k) + r
    OBVIOUS
  <1>p. Place = 0..Span(n) - 1
    BY <1>3 DEF Place
  <1> HIDE DEF k, n
  <1>5. Span(k) \in Nat /\ Span(n) \in Nat /\ Span(k) + C <= Span(n)
    BY <1>2, SpanFact DEF C
  <1> HIDE DEF C
  <1>6. i \in 0..Span(n) - 1
    BY <1>1, <1>4, <1>5
  <1>7. i \div C = k /\ i % C = r
    <2>1. \A j \in Nat, m \in 0..C - 1 : (Span(j) + m) \div C = j /\ (Span(j) + m) % C = m
      BY SplitFact DEF C
    <2>2. r \in 0..C - 1
      BY DEF C
    <2>3. QED
      BY <1>2, <1>4, <2>1, <2>2
  <1>8. Home(i) = CLUSTER_FIRST + k
    BY <1>7 DEF Home, C
  <1>9. QED
    BY <1>2, <1>6, <1>7, <1>8, <1>p DEF C

(* The clusters of a place.                                                   *)
LEMMA HomeFact ==
  ASSUME NEW i \in Place
  PROVE  Home(i) \in Cluster
  <1> DEFINE C == BytesPerCluster
             k == i \div C
             n == Cardinality(Cluster)
  <1>1. C \in Nat \ {0} /\ n \in Nat /\ n = LastCluster - 1
    BY UnitFact, ClusterFact
  <1>2. Span(n) \in Nat /\ Place = 0..Span(n) - 1
    <2>1. Span(n) = n * C
      BY DEF Span
    <2>2. QED
      BY <1>1, <2>1, SpanFact DEF Place
  <1>3. i \in Nat /\ i < Span(n)
    BY <1>2
  <1>4. k \in Nat /\ Span(k) <= i
    <2>1. k \in Nat /\ i % C \in 0..C - 1 /\ i = Span(k) + (i % C)
      BY <1>3, SplitFact
    <2>2. Span(k) \in Nat
      BY <2>1, SpanFact
    <2> DEFINE r == i % C
    <2>3. r \in Nat /\ i = Span(k) + r
      BY <1>1, <2>1
    <2> HIDE DEF r, k
    <2>4. QED
      BY <2>1, <2>2, <2>3
  <1> HIDE DEF k, n, C
  <1>5. ~(n <= k)
    <2>1. Span(k) \in Nat /\ (n <= k => Span(n) <= Span(k))
      BY <1>1, <1>4, SpanFact
    <2>2. QED
      BY <1>2, <1>3, <1>4, <2>1
  <1>6. CLUSTER_FIRST + k \in Cluster
    BY <1>1, <1>4, <1>5, ClusterFact DEF Cluster, CLUSTER_FIRST
  <1>7. QED
    BY <1>6 DEF Home, k, C

(* The cluster of the chain that an offset is in.                             *)
LEMMA TurnOf ==
  ASSUME NEW n \in Nat, NEW x \in Nat
  PROVE  x < Span(n) <=> x \div BytesPerCluster < n
  <1> DEFINE C == BytesPerCluster
             k == x \div C
             r == x % C
  <1>1. C \in Nat \ {0} /\ k \in Nat /\ r \in 0..C - 1 /\ x = Span(k) + r
    BY UnitFact, SplitFact
  <1> HIDE DEF k, r
  <1>2. Span(k) \in Nat /\ Span(n) \in Nat /\ r \in Nat /\ r < C
    <2>1. Span(k) \in Nat /\ Span(n) \in Nat
      BY <1>1, SpanFact
    <2> HIDE DEF C
    <2>2. QED
      BY <1>1, <2>1
  <1>3. (k < n => Span(k) + C <= Span(n)) /\ (n <= k => Span(n) <= Span(k))
    BY <1>1, SpanFact DEF C
  <1> HIDE DEF C
  <1>4. QED
    BY <1>1, <1>2, <1>3 DEF k, C

(* Each offset of a file has a place of its own, in a cluster of its chain.   *)
LEMMA SpotFact ==
  ASSUME NEW v \in Tables, NEW c \in Cluster, Sound(v, c)
  PROVE  /\ \A x \in Nat : x < Span(Size(v, c)) =>
               /\ Spot(v, c, x) \in Place /\ Home(Spot(v, c, x)) \in Chain(v, c)
         /\ \A x, y \in Nat : x < Span(Size(v, c)) /\ y < Span(Size(v, c))
                              /\ Spot(v, c, x) = Spot(v, c, y) => x = y
  <1> DEFINE C == BytesPerCluster
             n == Size(v, c)
  <1>0. C \in Nat \ {0} /\ n \in Nat
    BY UnitFact, LinksFact
  <1>1. ASSUME NEW x \in Nat, x < Span(n)
        PROVE  /\ x \div C \in 0..n - 1 /\ x % C \in 0..C - 1 /\ x = Span(x \div C) + (x % C)
               /\ Spot(v, c, x) \in Place /\ Home(Spot(v, c, x)) = Walk(v, c)[x \div C]
               /\ Home(Spot(v, c, x)) \in Chain(v, c)
               /\ Spot(v, c, x) % C = x % C
    <2> DEFINE k == x \div C
               r == x % C
               d == Walk(v, c)[k]
               i == Spot(v, c, x)
    <2>1. k \in Nat /\ r \in 0..C - 1 /\ x = Span(k) + r
      BY SplitFact
    <2>2. k < n
      <3> HIDE DEF n
      <3>1. QED
        BY <1>0, <1>1, TurnOf
    <2>3. k \in 0..n - 1
      BY <1>0, <2>1, <2>2
    <2>4. i = Span(d - CLUSTER_FIRST) + r
      BY DEF Spot
    <2>5. d \in Chain(v, c) /\ d \in Cluster
      <3> HIDE DEF k
      <3>1. QED
        BY <2>3, LinkFact
    <2> HIDE DEF k, r, d, i
    <2>6. i \in Place /\ Home(i) = d /\ i % C = r
      BY <2>1, <2>4, <2>5, PlaceFact
    <2>7. QED
      BY <2>1, <2>3, <2>5, <2>6 DEF k, r, d, i
  <1>2. ASSUME NEW x \in Nat, NEW y \in Nat, x < Span(n), y < Span(n), Spot(v, c, x) = Spot(v, c, y)
        PROVE  x = y
    <2>1. /\ x \div C \in 0..n - 1 /\ Home(Spot(v, c, x)) = Walk(v, c)[x \div C]
          /\ Spot(v, c, x) % C = x % C /\ x = Span(x \div C) + (x % C)
      BY <1>1, <1>2
    <2>2. /\ y \div C \in 0..n - 1 /\ Home(Spot(v, c, y)) = Walk(v, c)[y \div C]
          /\ Spot(v, c, y) % C = y % C /\ y = Span(y \div C) + (y % C)
      BY <1>1, <1>2
    <2> DEFINE k == x \div C
               j == y \div C
    <2>3. k \in 0..n - 1 /\ j \in 0..n - 1 /\ Walk(v, c)[k] = Walk(v, c)[j] /\ x % C = y % C
      BY <1>2, <2>1, <2>2
    <2> HIDE DEF k, j
    <2>4. k = j
      BY <2>3, LinkFact
    <2>5. QED
      BY <2>1, <2>2, <2>3, <2>4 DEF k, j
  <1>3. QED
    BY <1>1, <1>2

(* The bytes from a position on, up to the end of its cluster.                *)
LEMMA SpotRun ==
  ASSUME NEW v \in Tables, NEW c \in Cluster, Sound(v, c), NEW p, NEW x, IsAt(v, c, p, x),
         NEW j \in Nat, Run(p.sector) + p.byte + j < BytesPerCluster
  PROVE  x + j \in Nat /\ x + j < Span(Size(v, c)) /\ Spot(v, c, x + j) = At(p) + j
  <1> DEFINE C == BytesPerCluster
             n == Size(v, c)
             i == p.sector
             b == p.byte
             r == Run(i) + b + j
             y == x + j
  <1>1. PICK k \in 0..n - 1 : p.cluster = Walk(v, c)[k] /\ x = Offset(k, i, b)
    BY DEF IsAt
  <1>2. C \in Nat \ {0} /\ n \in Nat /\ k \in Nat /\ i \in Nat /\ b \in Nat /\ k < n
    BY <1>1, UnitFact, LinksFact DEF IsAt
  <1>3. Run(i) \in Nat /\ Span(k) \in Nat
    BY <1>2, RunFact, SpanFact
  <1>d. p.cluster - CLUSTER_FIRST \in Nat
    BY <1>1, LinkFact, ClusterFact DEF Cluster, CLUSTER_FIRST
  <1>4. At(p) = Span(p.cluster - CLUSTER_FIRST) + Run(i) + b
    BY DEF At, Span, Run
  <1>5. Span(p.cluster - CLUSTER_FIRST) \in Nat
    BY <1>d, SpanFact
  <1>x. x = Span(k) + Run(i) + b
    BY <1>1 DEF Offset
  <1> HIDE DEF C, n, i, b
  <1>6. r \in 0..C - 1 /\ y = Span(k) + r /\ y \in Nat
    BY <1>2, <1>3, <1>x DEF C, i, b
  <1>a. At(p) + j = Span(p.cluster - CLUSTER_FIRST) + r
    BY <1>2, <1>3, <1>4, <1>5
  <1> HIDE DEF r, y
  <1>7. y \div C = k /\ y % C = r
    <2>1. \A e \in Nat, m \in 0..C - 1 : (Span(e) + m) \div C = e /\ (Span(e) + m) % C = m
      BY SplitFact DEF C
    <2>2. QED
      BY <1>2, <1>6, <2>1
  <1>8. Spot(v, c, y) = Span(p.cluster - CLUSTER_FIRST) + r
    BY <1>1, <1>7 DEF Spot, C
  <1>9. y < Span(n)
    BY <1>2, <1>6, <1>7, TurnOf DEF C
  <1>10. QED
    BY <1>6, <1>8, <1>9, <1>a DEF y, n

(* The place of a byte is the same while the links to it are.                 *)
LEMMA SameSpot ==
  ASSUME NEW v, NEW w, NEW c, NEW n \in Nat,
         \A k \in 0..n - 1 : Walk(w, c)[k] = Walk(v, c)[k]
  PROVE  \A x \in Nat : x < Span(n) => Spot(w, c, x) = Spot(v, c, x)
  <1> TAKE x \in Nat
  <1> HAVE x < Span(n)
  <1> DEFINE k == x \div BytesPerCluster
  <1>1. k \in Nat /\ k < n
    BY SplitFact, TurnOf
  <1>2. k \in 0..n - 1
    BY <1>1
  <1>3. Walk(w, c)[k] = Walk(v, c)[k]
    <2> HIDE DEF k
    <2>1. QED
      BY <1>2
  <1>4. QED
    BY <1>3 DEF Spot

LEMMA GrownSpot ==
  ASSUME NEW v \in Tables, NEW c \in Cluster, Sound(v, c), NEW w, Grown(v, w, c)
  PROVE  /\ \A x \in Nat : x < Span(Size(v, c)) => Spot(w, c, x) = Spot(v, c, x)
         /\ Span(Size(v, c)) \in Nat /\ Span(Size(w, c)) \in Nat
         /\ Span(Size(v, c)) <= Span(Size(w, c))
  <1> DEFINE n == Size(v, c)
             m == Size(w, c)
  <1>1. n \in Nat /\ m \in Nat /\ n <= m /\ \A k \in 0..n - 1 : Walk(w, c)[k] = Walk(v, c)[k]
    BY LinksFact DEF Grown
  <1> HIDE DEF n, m
  <1>2. Span(n) \in Nat /\ Span(m) \in Nat /\ Span(n) <= Span(m)
    BY <1>1, SpanFact
  <1>3. \A x \in Nat : x < Span(n) => Spot(w, c, x) = Spot(v, c, x)
    BY <1>1, SameSpot
  <1>4. QED
    BY <1>2, <1>3 DEF n, m

-----------------------------------------------------------------------------
(* The parts of a call.                                                       *)

CallState(s) ==
    /\ s = [pos |-> s.pos, remain |-> s.remain, at |-> s.at, ok |-> s.ok,
            vol |-> s.vol, data |-> s.data, got |-> s.got]
    /\ s.pos = Pos(s.pos.cluster, s.pos.sector, s.pos.byte)

(* A call on the file that starts with cluster c, of which table v was found  *)
(* and "size" bytes, and that is to end at offset "end": its position is that *)
(* of the next byte, the last cluster is needed, or is needed for that byte,  *)
(* and nothing fails while there is room.                                     *)
Needed(s, c, size) ==
    LET before == Span(Size(s.vol, c) - 1) IN
    before < size \/ before < s.at \/ (before <= s.at /\ s.ok /\ s.remain > 0)

(* Its job is to read, write or append ("kind") from offset "low" on, when    *)
(* the clusters have the bytes "data"; byte x of the file is to be bytes[x].  *)
(* A read has what was found from there on; a write has put its bytes there,  *)
(* and has touched nothing else but, when it appends, what is past its end.   *)
Touched(s, c, end, job, x) ==
    /\ x \in Nat /\ x < Span(Size(s.vol, c)) /\ job.low <= x
    /\ x < s.at \/ (job.kind = "append" /\ end <= x)

Carried(s, c, end, job) ==
    IF job.kind = "read"
    THEN /\ s.data = job.data
         /\ s.got = [i \in 1..s.at - job.low |-> job.data[Spot(s.vol, c, job.low + i - 1)]]
    ELSE /\ \A x \in Nat : job.low <= x /\ x < s.at => s.data[Spot(s.vol, c, x)] = job.bytes[x]
         /\ \A i \in Place : \/ s.data[i] = job.data[i]
                            \/ \E x : Touched(s, c, end, job, x) /\ i = Spot(s.vol, c, x)

InCall(s, v, c, size, end, job) ==
    /\ CallState(s) /\ job.low <= s.at
    /\ s.remain \in Nat /\ s.at \in Nat /\ s.at + s.remain = end /\ s.ok \in BOOLEAN
    /\ Grown(v, s.vol, c)
    /\ IsAt(s.vol, c, s.pos, s.at)
    /\ Needed(s, c, size)
    /\ end <= Span(Room(v, c)) => s.ok
    /\ ~s.ok => FreeClusters(s.vol) = {}
    /\ Carried(s, c, end, job)

(* From s to t, n bytes were transferred.                                     *)
Moved(s, t, q, n) ==
    t = [pos |-> q, remain |-> s.remain - n, at |-> s.at + n, ok |-> s.ok,
         vol |-> s.vol, data |-> t.data, got |-> t.got]

(* What that does to the bytes: the data is that of the job, and a write that *)
(* appends may erase what is left of the cluster.                             *)
Transfer(s, t, n, job) ==
    LET a == At(s.pos) IN
    IF job.kind = "read"
    THEN /\ t.data = s.data
         /\ t.got = s.got \o [i \in 1..n |-> IF a + i - 1 \in Place THEN s.data[a + i - 1] ELSE Junk]
    ELSE \A i \in Place :
           \/ a <= i /\ i < a + n /\ t.data[i] = job.bytes[s.at + i - a]
           \/ ~(a <= i /\ i < a + n) /\ t.data[i] = s.data[i]
           \/ /\ job.kind = "append" /\ n = s.remain /\ a + n <= i
              /\ Run(s.pos.sector) + s.pos.byte + (i - a) < BytesPerCluster

Writes(job, f) == job.kind # "read" /\ \A x \in Nat : job.bytes[x] = Byte(f, x)
Zeroes(job) == job.kind # "read" /\ \A x \in Nat : job.bytes[x] = Zero

LEMMA PutMoves ==
  ASSUME NEW s, CallState(s), NEW f, NEW p, NEW n, NEW keep, NEW q
  PROVE  Moved(s, [Put(s, f, p, n, keep) EXCEPT !.pos = q], q, n) /\ Put(s, f, p, n, keep).pos = s.pos
  <1> DEFINE t == Put(s, f, p, n, keep)
  <1>1. t = [s EXCEPT !.remain = s.remain - n, !.at = s.at + n, !.data = t.data]
    BY DEF Put, CallState
  <1> HIDE DEF t
  <1>2. t = [pos |-> s.pos, remain |-> s.remain - n, at |-> s.at + n, ok |-> s.ok, vol |-> s.vol,
             data |-> t.data, got |-> s.got]
    BY <1>1 DEF CallState
  <1> DEFINE u == [t EXCEPT !.pos = q]
  <1>3. u = [pos |-> q, remain |-> s.remain - n, at |-> s.at + n, ok |-> s.ok, vol |-> s.vol,
             data |-> t.data, got |-> s.got]
    BY <1>2
  <1> HIDE DEF u
  <1>4. Moved(s, u, q, n)
    BY <1>3 DEF Moved
  <1>5. QED
    BY <1>2, <1>4 DEF u, t

LEMMA PutKeepingMoves ==
  ASSUME NEW s, CallState(s), NEW f, NEW p, NEW n, NEW q
  PROVE  Moved(s, [Put(s, f, p, n, TRUE) EXCEPT !.pos = q], q, n)
         /\ Put(s, f, p, n, TRUE).pos = s.pos
  <1> DEFINE keep == TRUE
  <1> HIDE DEF keep
  <1>1. Moved(s, [Put(s, f, p, n, keep) EXCEPT !.pos = q], q, n)
        /\ Put(s, f, p, n, keep).pos = s.pos
    BY PutMoves
  <1>2. QED
    BY <1>1 DEF keep

LEMMA PutZerosMoves ==
  ASSUME NEW s, CallState(s), NEW p, NEW n, NEW q
  PROVE  Moved(s, [PutZeros(s, p, n) EXCEPT !.pos = q], q, n) /\ PutZeros(s, p, n).pos = s.pos
  <1> DEFINE t == PutZeros(s, p, n)
  <1>1. t = [s EXCEPT !.remain = s.remain - n, !.at = s.at + n, !.data = t.data]
    BY DEF PutZeros, CallState
  <1> HIDE DEF t
  <1>2. t = [pos |-> s.pos, remain |-> s.remain - n, at |-> s.at + n, ok |-> s.ok, vol |-> s.vol,
             data |-> t.data, got |-> s.got]
    BY <1>1 DEF CallState
  <1> DEFINE u == [t EXCEPT !.pos = q]
  <1>3. u = [pos |-> q, remain |-> s.remain - n, at |-> s.at + n, ok |-> s.ok, vol |-> s.vol,
             data |-> t.data, got |-> s.got]
    BY <1>2
  <1> HIDE DEF u
  <1>4. Moved(s, u, q, n)
    BY <1>3 DEF Moved
  <1>5. QED
    BY <1>2, <1>4 DEF u, t

LEMMA GetMoves ==
  ASSUME NEW s, CallState(s), NEW p, NEW n, NEW q
  PROVE  Moved(s, [Get(s, p, n) EXCEPT !.pos = q], q, n) /\ Get(s, p, n).pos = s.pos
  <1> DEFINE t == Get(s, p, n)
  <1>1. t = [s EXCEPT !.remain = s.remain - n, !.at = s.at + n, !.got = t.got]
    BY DEF Get, CallState
  <1> HIDE DEF t
  <1>2. t = [pos |-> s.pos, remain |-> s.remain - n, at |-> s.at + n, ok |-> s.ok, vol |-> s.vol,
             data |-> s.data, got |-> t.got]
    BY <1>1 DEF CallState
  <1> DEFINE u == [t EXCEPT !.pos = q]
  <1>3. u = [pos |-> q, remain |-> s.remain - n, at |-> s.at + n, ok |-> s.ok, vol |-> s.vol,
             data |-> s.data, got |-> t.got]
    BY <1>2
  <1> HIDE DEF u
  <1>4. Moved(s, u, q, n)
    BY <1>3 DEF Moved
  <1>5. QED
    BY <1>2, <1>4 DEF u, t

LEMMA MovedParts ==
  ASSUME NEW s, NEW t, NEW q, NEW n, Moved(s, t, q, n)
  PROVE  /\ t.pos = q /\ t.remain = s.remain - n /\ t.at = s.at + n
         /\ t.ok = s.ok /\ t.vol = s.vol
  BY DEF Moved

(* Pieces of a sequence, one after the other.                                 *)
LEMMA JoinFact ==
  ASSUME NEW n \in Nat, NEW m \in Nat, NEW b
  PROVE  [i \in 1..n |-> b[i]] \o [i \in 1..m |-> b[n + i]] = [i \in 1..n + m |-> b[i]]
  <1> DEFINE g == [i \in 1..n |-> b[i]]
             h == [i \in 1..m |-> b[n + i]]
             S == {b[i] : i \in Nat}
  <1>1. g \in Seq(S) /\ Len(g) = n /\ h \in Seq(S) /\ Len(h) = m
    <2>1. g \in [1..n -> S] /\ h \in [1..m -> S]
      OBVIOUS
    <2>2. g \in Seq(S) /\ h \in Seq(S)
      BY <2>1, SeqDef
    <2>3. DOMAIN g = 1..n /\ DOMAIN h = 1..m
      OBVIOUS
    <2> HIDE DEF g, h, S
    <2>4. QED
      BY <2>2, <2>3, LenProperties
  <1>2. \A i \in 1..n : g[i] = b[i]
    OBVIOUS
  <1>3. \A i \in 1..m : h[i] = b[n + i]
    OBVIOUS
  <1> HIDE DEF g, h, S
  <1>4. /\ Len(g \o h) = n + m /\ g \o h \in Seq(S)
        /\ \A i \in 1..n + m : (g \o h)[i] = IF i <= n THEN g[i] ELSE h[i - n]
    BY <1>1, ConcatProperties
  <1>5. \A i \in 1..n + m : (g \o h)[i] = b[i]
    <2> TAKE i \in 1..n + m
    <2>1. CASE i <= n
      BY <1>2, <1>4, <2>1
    <2>2. CASE ~(i <= n)
      <3>1. i - n \in 1..m /\ n + (i - n) = i
        BY <2>2
      <3>2. QED
        BY <1>3, <1>4, <2>2, <3>1
    <2>3. QED
      BY <2>1, <2>2
  <1>6. g \o h = [i \in 1..n + m |-> (g \o h)[i]]
    BY <1>4, LenProperties
  <1>7. QED
    BY <1>5, <1>6 DEF g, h

(* The job goes on as the bytes of the sectors are transferred.               *)
LEMMA CarryFact ==
  ASSUME NEW v, NEW c \in Cluster, NEW size \in Nat, NEW job, job.low \in Nat, NEW end \in Nat,
         NEW s, InCall(s, v, c, size, end, job), NEW t, NEW n \in Nat,
         t.vol = s.vol, t.at = s.at + n, Transfer(s, t, n, job),
         Run(s.pos.sector) + s.pos.byte + n <= BytesPerCluster
  PROVE  Carried(t, c, end, job)
  <1> DEFINE a == At(s.pos)
             w == s.vol
             x0 == s.at
             low == job.low
             b == Run(s.pos.sector) + s.pos.byte
             top == Span(Size(w, c))
  <1>1. /\ w \in Tables /\ Sound(w, c) /\ IsAt(w, c, s.pos, x0) /\ x0 \in Nat /\ low \in Nat
        /\ low <= x0 /\ Carried(s, c, end, job) /\ s.remain \in Nat /\ x0 + s.remain = end
    BY DEF InCall, Grown
  <1>2. b \in Nat /\ b + n <= BytesPerCluster /\ BytesPerCluster \in Nat
    <2>1. s.pos.sector \in Nat /\ s.pos.byte \in Nat /\ BytesPerCluster \in Nat
      BY <1>1, UnitFact DEF IsAt
    <2>2. Run(s.pos.sector) \in Nat
      BY <2>1, RunFact
    <2>3. QED
      BY <2>1, <2>2
  <1>3. \A j \in Nat : b + j < BytesPerCluster =>
             x0 + j \in Nat /\ x0 + j < top /\ Spot(w, c, x0 + j) = a + j
    <2> TAKE j \in Nat
    <2> HAVE b + j < BytesPerCluster
    <2>1. Run(s.pos.sector) + s.pos.byte + j < BytesPerCluster
      BY DEF b
    <2> HIDE DEF b, a, top
    <2>2. QED
      BY <1>1, <2>1, SpotRun DEF a, top
  <1>4. /\ \A x \in Nat : x < top => Spot(w, c, x) \in Place
        /\ \A x, y \in Nat : x < top /\ y < top /\ Spot(w, c, x) = Spot(w, c, y) => x = y
    BY <1>1, SpotFact
  <1>5. top \in Nat /\ x0 <= top
    <2>1. x0 <= Span(Size(w, c)) /\ Size(w, c) \in Nat
      BY <1>1, AtFact, LinksFact
    <2>2. QED
      BY <2>1, SpanFact
  <1>6. a \in Nat
    <2>1. PICK k \in 0..Size(w, c) - 1 : s.pos.cluster = Walk(w, c)[k]
      BY <1>1 DEF IsAt
    <2>2. s.pos.cluster - CLUSTER_FIRST \in Nat
      BY <1>1, <2>1, LinkFact, ClusterFact, SMTT(60) DEF Cluster, CLUSTER_FIRST
    <2>3. Span(s.pos.cluster - CLUSTER_FIRST) \in Nat /\ s.pos.sector \in Nat /\ s.pos.byte \in Nat
      <3>1. Span(s.pos.cluster - CLUSTER_FIRST) \in Nat
        BY <2>2, SpanFact
      <3>2. s.pos.sector \in Nat /\ s.pos.byte \in Nat
        BY <1>1, UnitFact DEF IsAt
      <3>3. QED
        BY <3>1, <3>2
    <2>4. Run(s.pos.sector) \in Nat
      BY <2>3, RunFact
    <2>5. a = Span(s.pos.cluster - CLUSTER_FIRST) + Run(s.pos.sector) + s.pos.byte
      BY DEF At, Span, Run
    <2>6. QED
      BY <2>3, <2>4, <2>5
  <1>7. CASE job.kind = "read"
    <2> DEFINE g(x) == job.data[Spot(w, c, x)]
               rd == [i \in 1..n |-> IF a + i - 1 \in Place THEN s.data[a + i - 1] ELSE Junk]
    <2>1. t.data = s.data /\ t.got = s.got \o rd
      BY <1>7 DEF Transfer
    <2>2. s.data = job.data /\ s.got = [i \in 1..x0 - low |-> g(low + i - 1)]
      BY <1>1, <1>7 DEF Carried
    <2>3. ASSUME NEW i \in 1..n
          PROVE  rd[i] = g(x0 + i - 1)
      <3>1. i - 1 \in Nat /\ b + (i - 1) < BytesPerCluster
        BY <1>2
      <3> DEFINE j == i - 1
      <3>2. j \in Nat /\ b + j < BytesPerCluster
        BY <3>1
      <3>3. x0 + i - 1 = x0 + j /\ a + i - 1 = a + j
        BY <1>1, <1>6
      <3> HIDE DEF j, b, a, top, x0, w
      <3>4. x0 + j \in Nat /\ x0 + j < top /\ Spot(w, c, x0 + j) = a + j
        BY <1>3, <3>2
      <3>5. a + j \in Place
        BY <1>4, <3>4
      <3>6. rd[i] = s.data[a + j]
        BY <3>3, <3>5
      <3>7. g(x0 + i - 1) = job.data[Spot(w, c, x0 + j)]
        BY <3>3
      <3>8. QED
        BY <2>2, <3>4, <3>6, <3>7
    <2> DEFINE k == x0 - low
               e == [i \in 1..k + n |-> g(low + i - 1)]
    <2>4. k \in Nat /\ t.at - low = k + n
      BY <1>1
    <2>5. s.got = [i \in 1..k |-> e[i]]
      <3>1. \A i \in 1..k : i \in 1..k + n
        BY <2>4
      <3>2. \A i \in 1..k : e[i] = g(low + i - 1)
        BY <3>1
      <3> HIDE DEF e, g
      <3>3. QED
        BY <2>2, <3>2 DEF x0, low
    <2>6. rd = [i \in 1..n |-> e[k + i]]
      <3>1. \A i \in 1..n : k + i \in 1..k + n /\ low + (k + i) - 1 = x0 + i - 1
        BY <1>1, <2>4
      <3>2. \A i \in 1..n : e[k + i] = g(low + (k + i) - 1)
        BY <3>1
      <3> HIDE DEF g, k
      <3>3. \A i \in 1..n : e[k + i] = g(x0 + i - 1)
        <4> HIDE DEF e
        <4>1. QED
          BY <3>1, <3>2
      <3> HIDE DEF e, x0
      <3>4. rd = [i \in 1..n |-> rd[i]]
        OBVIOUS
      <3> HIDE DEF rd
      <3>5. \A i \in 1..n : rd[i] = e[k + i]
        BY <2>3, <3>3
      <3>6. QED
        BY <3>4, <3>5
    <2>7. t.got = e
      <3>1. e = [i \in 1..k + n |-> e[i]]
        OBVIOUS
      <3> HIDE DEF e, k, rd
      <3>2. QED
        BY <2>1, <2>4, <2>5, <2>6, <3>1, JoinFact
    <2>8. t.got = [i \in 1..t.at - low |-> job.data[Spot(t.vol, c, low + i - 1)]]
      BY <2>4, <2>7
    <2>9. QED
      BY <1>7, <2>1, <2>2, <2>8 DEF Carried
  <1>8. CASE job.kind # "read"
    <2>1. \A i \in Place :
             \/ a <= i /\ i < a + n /\ t.data[i] = job.bytes[x0 + i - a]
             \/ ~(a <= i /\ i < a + n) /\ t.data[i] = s.data[i]
             \/ job.kind = "append" /\ n = s.remain /\ a + n <= i /\ b + (i - a) < BytesPerCluster
      BY <1>8 DEF Transfer
    <2>2. /\ \A x \in Nat : low <= x /\ x < x0 => s.data[Spot(w, c, x)] = job.bytes[x]
          /\ \A i \in Place : \/ s.data[i] = job.data[i]
                              \/ \E x : Touched(s, c, end, job, x) /\ i = Spot(w, c, x)
      BY <1>1, <1>8 DEF Carried
    <2>p. Place \subseteq Int
      BY UnitFact, ClusterFact DEF Place
    <2>3. ASSUME NEW x \in Nat, low <= x, x < t.at
          PROVE  t.data[Spot(w, c, x)] = job.bytes[x]
      <3> DEFINE i == Spot(w, c, x)
      <3>1. CASE x < x0
        <4>1. x < top /\ i \in Place
          BY <1>1, <1>4, <1>5, <3>1
        <4>2. ASSUME a <= i, b + (i - a) < BytesPerCluster PROVE FALSE
          <5> DEFINE j == i - a
          <5>0. i \in Int
            BY <2>p, <4>1
          <5> HIDE DEF i, b, a, top, x0, w
          <5>1. j \in Nat /\ a + j = i /\ b + j < BytesPerCluster
            BY <1>6, <4>2, <5>0
          <5> HIDE DEF j
          <5>2. x0 + j \in Nat /\ x0 + j < top /\ Spot(w, c, x0 + j) = i
            BY <1>3, <5>1
          <5>3. x = x0 + j
            BY <1>4, <4>1, <5>2 DEF i
          <5>4. QED
            BY <1>1, <3>1, <5>1, <5>3
        <4>3. i \in Int
          BY <2>p, <4>1
        <4> HIDE DEF i, b, a
        <4>4. t.data[i] = s.data[i]
          <5>1. CASE a <= i /\ i < a + n
            <6>1. b + (i - a) < BytesPerCluster
              BY <1>2, <1>6, <4>3, <5>1
            <6>2. QED
              BY <4>2, <5>1, <6>1
          <5>2. CASE a + n <= i /\ b + (i - a) < BytesPerCluster
            BY <1>6, <4>2, <4>3, <5>2
          <5>3. QED
            BY <2>1, <4>1, <5>1, <5>2
        <4>5. QED
          BY <2>2, <2>3, <3>1, <4>4 DEF i
      <3>2. CASE ~(x < x0)
        <4> DEFINE j == x - x0
        <4>1. j \in Nat /\ j < n /\ x = x0 + j /\ b + j < BytesPerCluster
          BY <1>1, <1>2, <2>3, <3>2
        <4> HIDE DEF j, b, a, top, x0, w
        <4>2. x0 + j < top /\ Spot(w, c, x0 + j) = a + j
          BY <1>3, <4>1
        <4>3. a + j \in Place
          BY <1>4, <4>1, <4>2
        <4>4. a <= a + j /\ a + j < a + n /\ x0 + (a + j) - a = x0 + j /\ ~(a + n <= a + j)
          BY <1>1, <1>6, <4>1
        <4>5. t.data[a + j] = job.bytes[x0 + j]
          <5> DEFINE k == a + j
                     y == x0 + j
          <5>1. k \in Place /\ a <= k /\ k < a + n /\ x0 + k - a = y /\ ~(a + n <= k)
            BY <4>3, <4>4
          <5> HIDE DEF k, y
          <5>2. t.data[k] = job.bytes[x0 + k - a]
            BY <2>1, <5>1
          <5>3. QED
            BY <5>1, <5>2 DEF k, y
        <4>6. QED
          BY <4>1, <4>2, <4>5
      <3>3. QED
        BY <3>1, <3>2
    <2>4. ASSUME NEW i \in Place
          PROVE  t.data[i] = job.data[i] \/ \E x : Touched(t, c, end, job, x) /\ i = Spot(w, c, x)
      <3>1. ASSUME NEW j \in Nat, i = a + j, b + j < BytesPerCluster,
                   j < n \/ (job.kind = "append" /\ n = s.remain)
            PROVE  \E x : Touched(t, c, end, job, x) /\ i = Spot(w, c, x)
        <4> DEFINE x == x0 + j
        <4>1. x \in Nat /\ x < top /\ Spot(w, c, x) = i
          <5> HIDE DEF b, a, top, x0, w
          <5>1. QED
            BY <1>3, <3>1
        <4>2. low <= x /\ (x < t.at \/ (job.kind = "append" /\ end <= x))
          <5>1. CASE j < n
            BY <1>1, <5>1
          <5>2. CASE ~(j < n)
            BY <1>1, <3>1, <5>2
          <5>3. QED
            BY <5>1, <5>2
        <4> HIDE DEF x
        <4>3. Touched(t, c, end, job, x)
          BY <4>1, <4>2 DEF Touched
        <4>4. QED
          BY <4>1, <4>3
      <3>2. CASE a <= i /\ i < a + n
        <4> DEFINE j == i - a
        <4>1. j \in Nat /\ i = a + j /\ j < n /\ b + j < BytesPerCluster
          <5> HIDE DEF b, a
          <5>1. QED
            BY <1>2, <1>6, <2>p, <3>2
        <4> HIDE DEF j, b, a, x0, w
        <4>2. QED
          BY <3>1, <4>1
      <3>3. CASE job.kind = "append" /\ n = s.remain /\ a + n <= i /\ b + (i - a) < BytesPerCluster
        <4> DEFINE j == i - a
        <4>1. j \in Nat /\ i = a + j /\ b + j < BytesPerCluster
          <5> HIDE DEF b, a
          <5>1. QED
            BY <1>2, <1>6, <2>p, <3>3
        <4> HIDE DEF j, b, a, x0, w
        <4>2. QED
          BY <3>1, <3>3, <4>1
      <3>4. CASE t.data[i] = s.data[i]
        <4>1. CASE s.data[i] = job.data[i]
          BY <3>4, <4>1
        <4>2. CASE \E x : Touched(s, c, end, job, x) /\ i = Spot(w, c, x)
          <5>1. PICK x : Touched(s, c, end, job, x) /\ i = Spot(w, c, x)
            BY <4>2
          <5>2. Touched(t, c, end, job, x)
            BY <1>1, <5>1 DEF Touched
          <5>3. QED
            BY <5>1, <5>2
        <4>3. QED
          BY <2>2, <4>1, <4>2
      <3>5. QED
        BY <2>1, <3>2, <3>3, <3>4
    <2>5. QED
      BY <1>8, <2>3, <2>4 DEF Carried
  <1>9. QED
    BY <1>7, <1>8

(* It goes on as the chain grows.                                             *)
LEMMA CarriedAlong ==
  ASSUME NEW c \in Cluster, NEW job, job.low \in Nat, NEW end, NEW s,
         s.vol \in Tables, Sound(s.vol, c), s.at \in Nat, s.at <= Span(Size(s.vol, c)),
         Carried(s, c, end, job),
         NEW t, Grown(s.vol, t.vol, c), t.at = s.at, t.data = s.data, t.got = s.got
  PROVE  Carried(t, c, end, job)
  <1> DEFINE w == s.vol
             u == t.vol
             top == Span(Size(w, c))
  <1>1. /\ \A x \in Nat : x < top => Spot(u, c, x) = Spot(w, c, x)
        /\ top \in Nat /\ Span(Size(u, c)) \in Nat /\ top <= Span(Size(u, c))
    BY GrownSpot
  <1>2. \A x \in Nat : x < s.at => Spot(u, c, x) = Spot(w, c, x)
    BY <1>1
  <1>3. CASE job.kind = "read"
    <2>1. s.data = job.data
          /\ s.got = [i \in 1..s.at - job.low |-> job.data[Spot(w, c, job.low + i - 1)]]
      BY <1>3 DEF Carried
    <2>2. \A i \in 1..s.at - job.low : job.low + i - 1 \in Nat /\ job.low + i - 1 < s.at
      OBVIOUS
    <2>3. \A i \in 1..s.at - job.low : Spot(u, c, job.low + i - 1) = Spot(w, c, job.low + i - 1)
      BY <1>2, <2>2
    <2>4. t.got = [i \in 1..t.at - job.low |-> job.data[Spot(u, c, job.low + i - 1)]]
      BY <2>1, <2>3
    <2>5. QED
      BY <1>3, <2>1, <2>4 DEF Carried
  <1>4. CASE job.kind # "read"
    <2>1. /\ \A x \in Nat : job.low <= x /\ x < s.at => s.data[Spot(w, c, x)] = job.bytes[x]
          /\ \A i \in Place : \/ s.data[i] = job.data[i]
                              \/ \E x : Touched(s, c, end, job, x) /\ i = Spot(w, c, x)
      BY <1>4 DEF Carried
    <2>2. \A x \in Nat : job.low <= x /\ x < t.at => t.data[Spot(u, c, x)] = job.bytes[x]
      BY <1>2, <2>1
    <2>3. ASSUME NEW x, Touched(s, c, end, job, x)
          PROVE  Touched(t, c, end, job, x) /\ Spot(u, c, x) = Spot(w, c, x)
      BY <1>1, <2>3 DEF Touched
    <2>4. \A i \in Place : \/ t.data[i] = job.data[i]
                            \/ \E x : Touched(t, c, end, job, x) /\ i = Spot(u, c, x)
      BY <2>1, <2>3
    <2>5. QED
      BY <1>4, <2>2, <2>4 DEF Carried
  <1>5. QED
    BY <1>3, <1>4

LEMMA MovedFact ==
  ASSUME NEW v, NEW c \in Cluster, NEW size \in Nat, NEW job, job.low \in Nat,
         NEW end \in Nat, NEW s, InCall(s, v, c, size, end, job),
         NEW t, NEW q, NEW n \in Nat, Moved(s, t, q, n), Transfer(s, t, n, job), n <= s.remain,
         Run(s.pos.sector) + s.pos.byte + n <= BytesPerCluster,
         NEW x, x = s.at + n, IsAt(s.vol, c, q, x), q = Pos(q.cluster, q.sector, q.byte)
  PROVE  InCall(t, v, c, size, end, job)
  <1>1. /\ t.pos = q /\ t.remain = s.remain - n /\ t.at = s.at + n /\ t.ok = s.ok /\ t.vol = s.vol
        /\ t = [pos |-> t.pos, remain |-> t.remain, at |-> t.at, ok |-> t.ok,
                vol |-> t.vol, data |-> t.data, got |-> t.got]
    BY DEF Moved
  <1>2. /\ s.remain \in Nat /\ s.at \in Nat /\ s.at + s.remain = end /\ s.ok \in BOOLEAN
        /\ Grown(v, s.vol, c) /\ Needed(s, c, size) /\ job.low <= s.at
        /\ end <= Span(Room(v, c)) => s.ok
        /\ ~s.ok => FreeClusters(s.vol) = {}
    BY DEF InCall
  <1>3. Span(Size(s.vol, c) - 1) \in Nat
    <2>1. Size(s.vol, c) - 1 \in Nat
      BY ONLY <1>2, c \in Cluster, LinksFact DEF Grown
    <2>2. QED
      BY <2>1, SpanFact
  <1>4. CallState(t)
    BY <1>1 DEF CallState
  <1>5. t.remain \in Nat /\ t.at \in Nat /\ t.at + t.remain = end
    BY <1>1, <1>2
  <1>6. Needed(t, c, size)
    <2> DEFINE before == Span(Size(s.vol, c) - 1)
    <2>1. before < size \/ before < s.at \/ (before <= s.at /\ s.ok /\ s.remain > 0)
      BY <1>2 DEF Needed
    <2>2. before \in Nat
      BY <1>3
    <2> HIDE DEF before
    <2>3. before < size \/ before < t.at \/ (before <= t.at /\ t.ok /\ t.remain > 0)
      <3>1. CASE n = 0
        BY <1>1, <1>2, <2>1, <3>1
      <3>2. CASE n > 0
        BY <1>1, <1>2, <2>1, <2>2, <3>2
      <3>3. QED
        BY <3>1, <3>2
    <2>4. QED
      BY <1>1, <2>3 DEF before, Needed
  <1>7. IsAt(t.vol, c, t.pos, t.at)
    BY <1>1
  <1>8. Grown(v, t.vol, c) /\ t.ok \in BOOLEAN /\ (end <= Span(Room(v, c)) => t.ok)
        /\ (~t.ok => FreeClusters(t.vol) = {}) /\ job.low <= t.at
    BY <1>1, <1>2
  <1>9. Carried(t, c, end, job)
    BY <1>1, CarryFact
  <1>10. QED
    BY <1>4, <1>5, <1>6, <1>7, <1>8, <1>9 DEF InCall

LEMMA GrownAt ==
  ASSUME NEW v \in Tables, NEW w, NEW c \in Cluster, Sound(v, c), Grown(v, w, c), NEW p, NEW x,
         IsAt(v, c, p, x)
  PROVE  IsAt(w, c, p, x)
  <1>1. PICK k \in 0..Size(v, c) - 1 : p.cluster = Walk(v, c)[k] /\ x = Offset(k, p.sector, p.byte)
    BY DEF IsAt
  <1>2. w \in Tables /\ Sound(w, c) /\ Size(v, c) <= Size(w, c) /\ Walk(w, c)[k] = Walk(v, c)[k]
    BY <1>1 DEF Grown
  <1>3. Size(v, c) \in Nat /\ Size(w, c) \in Nat
    BY <1>2, LinksFact
  <1>4. k \in 0..Size(w, c) - 1
    BY <1>1, <1>2, <1>3
  <1>5. QED
    BY <1>1, <1>2, <1>4 DEF IsAt

LEMMA CheckFact ==
  ASSUME ~SlackIsFree, NEW v \in Tables, NEW c \in Cluster, Sound(v, c),
         NEW size \in Nat, NEW job, job.low \in Nat, NEW end \in Nat, NEW s, InCall(s, v, c, size, end, job)
  PROVE  LET t == CheckPosition(s) IN
         /\ InCall(t, v, c, size, end, job)
         /\ t.remain = s.remain /\ t.at = s.at /\ t.pos.byte = s.pos.byte
         /\ t.pos.sector = s.pos.sector \/ (s.pos.sector = SectorsPerCluster /\ t.pos.sector = 0)
         /\ t.ok => s.ok
         /\ t.ok /\ t.remain > 0 => t.pos.sector < SectorsPerCluster
  <1> DEFINE t == CheckPosition(s)
             w == s.vol
             p == s.pos
  <1>1. /\ CallState(s) /\ s.remain \in Nat /\ s.at \in Nat /\ s.at + s.remain = end
        /\ s.ok \in BOOLEAN /\ Grown(v, w, c) /\ IsAt(w, c, p, s.at) /\ Needed(s, c, size)
        /\ end <= Span(Room(v, c)) => s.ok
        /\ job.low <= s.at /\ (~s.ok => FreeClusters(w) = {}) /\ Carried(s, c, end, job)
    BY DEF InCall
  <1>2. w \in Tables /\ Counted(w) /\ Sound(w, c)
    BY <1>1 DEF Grown
  <1>3. /\ p.sector \in 0..SectorsPerCluster /\ p.byte \in 0..BytesPerSector - 1
        /\ p.sector = SectorsPerCluster => p.byte = 0
    BY <1>1 DEF IsAt
  <1>4. SectorsPerCluster \in Nat \ {0}
    BY UnitFact
  <1>a. s.at <= Span(Size(w, c))
    BY <1>1, <1>2, AtFact
  <1>5. CASE s.remain = 0 \/ ~s.ok \/ p.sector < SectorsPerCluster
    <2>1. t = s
      BY <1>5 DEF CheckPosition
    <2>2. s.ok /\ s.remain > 0 => s.pos.sector < SectorsPerCluster
      BY <1>5
    <2>3. QED
      BY <2>1, <2>2
  <1>6. CASE ~(s.remain = 0 \/ ~s.ok \/ p.sector < SectorsPerCluster)
    <2>1. s.remain > 0 /\ s.ok /\ p.sector = SectorsPerCluster /\ p.byte = 0
      BY <1>1, <1>3, <1>4, <1>6
    <2>2. t = Onto(s, IF Ends(w, p.cluster) THEN LinkFreeCluster(w, p.cluster)
                      ELSE [vol |-> w, cluster |-> NextCluster(w, p.cluster)])
      BY <1>6 DEF CheckPosition
    <2>3. LET next == NextCluster(w, p.cluster) IN
          IF s.at < Span(Size(w, c))
          THEN next \in Cluster /\ ~Ends(w, p.cluster) /\ IsAt(w, c, Pos(next, 0, p.byte), s.at)
          ELSE next = CLUSTER_EOF /\ Ends(w, p.cluster) /\ p.cluster = LastOf(w, c)
               /\ s.at = Span(Size(w, c))
      BY <1>1, <1>2, <2>1, NextFact
    <2>s. Size(w, c) \in Nat \ {0} /\ Span(Size(w, c)) \in Nat /\ Span(Size(w, c) - 1) < Span(Size(w, c))
      <3>1. Size(w, c) \in Nat \ {0}
        BY <1>2, LinksFact
      <3>2. /\ Span(Size(w, c) - 1) \in Nat /\ Span(Size(w, c)) \in Nat
            /\ Span((Size(w, c) - 1) + 1) = Span(Size(w, c) - 1) + BytesPerCluster
            /\ (Size(w, c) - 1) + 1 = Size(w, c) /\ BytesPerCluster \in Nat \ {0}
        <4> DEFINE n == Size(w, c)
                   m == n - 1
        <4>1. n \in Nat /\ m \in Nat /\ m + 1 = n
          BY <3>1
        <4> HIDE DEF n, m
        <4>2. Span(m) \in Nat /\ Span(n) \in Nat /\ Span(m + 1) = Span(m) + BytesPerCluster
          BY <4>1, SpanFact
        <4>3. BytesPerCluster \in Nat \ {0}
          BY UnitFact
        <4>4. QED
          BY <4>1, <4>2, <4>3 DEF n, m
      <3>3. QED
        BY <3>1, <3>2
    <2>4. CASE s.at < Span(Size(w, c))
      <3> DEFINE next == NextCluster(w, p.cluster)
                 q == Pos(next, 0, p.byte)
      <3>1. next \in Cluster /\ ~Ends(w, p.cluster) /\ IsAt(w, c, q, s.at)
        BY <2>3, <2>4
      <3> HIDE DEF next
      <3>2. t = Onto(s, [vol |-> w, cluster |-> next])
        BY <2>2, <3>1 DEF next
      <3>3. t = [s EXCEPT !.vol = w, !.pos = q]
        BY <3>1, <3>2 DEF Onto, IsValidCluster
      <3> HIDE DEF t
      <3>4. /\ t = [pos |-> q, remain |-> s.remain, at |-> s.at, ok |-> s.ok,
                    vol |-> w, data |-> s.data, got |-> s.got]
        BY <1>1, <3>3 DEF CallState
      <3>5. q.cluster = next /\ q.sector = 0 /\ q.byte = p.byte /\ q = Pos(q.cluster, q.sector, q.byte)
        BY DEF Pos
      <3> HIDE DEF q
      <3>6. Needed(t, c, size)
        BY <1>1, <3>4 DEF Needed
      <3>7. CallState(t)
        BY <3>4, <3>5 DEF CallState
      <3>c. Carried(t, c, end, job)
        <4>1. Grown(s.vol, t.vol, c)
          BY <1>2, <3>4, NotGrown
        <4>2. QED
          BY <1>1, <1>2, <1>a, <3>4, <4>1, CarriedAlong
      <3>8. InCall(t, v, c, size, end, job)
        BY <1>1, <3>1, <3>4, <3>6, <3>7, <3>c DEF InCall
      <3>9. QED
        BY <1>4, <2>1, <3>4, <3>5, <3>8 DEF t
    <2>5. CASE ~(s.at < Span(Size(w, c)))
      <3> DEFINE l == LinkFreeCluster(w, LastOf(w, c))
                 u == l.vol
      <3>1. Ends(w, p.cluster) /\ p.cluster = LastOf(w, c) /\ s.at = Span(Size(w, c))
        BY <2>3, <2>5
      <3>2. t = Onto(s, l)
        BY <2>2, <3>1
      <3>3. /\ Grown(w, u, c)
            /\ IF FreeClusters(w) = {}
               THEN l.cluster \notin Cluster /\ Size(u, c) = Size(w, c) /\ FreeClusters(u) = {}
               ELSE /\ l.cluster \in Cluster /\ Size(u, c) = Size(w, c) + 1
                    /\ Walk(u, c)[Size(w, c)] = l.cluster
        BY <1>2, GrownByOne
      <3> HIDE DEF l, t
      <3>4. Grown(v, u, c)
        BY <1>1, <3>3, GrownFurther
      <3>5. Room(v, c) = Size(w, c) + Cardinality(FreeClusters(w))
        BY <1>1, GrownFact
      <3>6. CASE FreeClusters(w) = {}
        <4>1. l.cluster \notin Cluster /\ Size(u, c) = Size(w, c)
          BY <3>3, <3>6
        <4>2. t = [s EXCEPT !.vol = u, !.ok = FALSE]
          BY <3>2, <4>1 DEF Onto, IsValidCluster
        <4>3. t = [pos |-> p, remain |-> s.remain, at |-> s.at, ok |-> FALSE,
                   vol |-> u, data |-> s.data, got |-> s.got]
          BY <1>1, <4>2 DEF CallState
        <4>4. CallState(t)
          BY <1>1, <4>3 DEF CallState
        <4>5. Needed(t, c, size)
          BY <2>s, <3>1, <4>1, <4>3 DEF Needed
        <4>6. IsAt(u, c, p, s.at)
          BY <1>1, <1>2, <3>3, GrownAt
        <4>7. ~(end <= Span(Room(v, c)))
          <5>1. Room(v, c) = Size(w, c)
            <6>1. Cardinality(FreeClusters(w)) = 0
              BY <3>6, FS_EmptySet
            <6>2. QED
              BY <2>s, <3>5, <6>1
          <5>2. QED
            BY <1>1, <2>s, <2>1, <3>1, <5>1
        <4>c. Carried(t, c, end, job)
          BY <1>1, <1>2, <1>a, <3>3, <4>3, CarriedAlong
        <4>f. FreeClusters(u) = {}
          BY <3>3, <3>6
        <4>8. InCall(t, v, c, size, end, job)
          BY <1>1, <3>4, <4>3, <4>4, <4>5, <4>6, <4>7, <4>c, <4>f DEF InCall
        <4>9. QED
          BY <4>3, <4>8 DEF t
      <3>7. CASE FreeClusters(w) # {}
        <4> DEFINE q == Pos(l.cluster, 0, p.byte)
                   n == Size(w, c)
        <4>1. l.cluster \in Cluster /\ Size(u, c) = n + 1 /\ Walk(u, c)[n] = l.cluster
          BY <3>3, <3>7
        <4>2. t = [s EXCEPT !.vol = u, !.pos = q]
          BY <3>2, <4>1 DEF Onto, IsValidCluster
        <4>3. t = [pos |-> q, remain |-> s.remain, at |-> s.at, ok |-> s.ok,
                   vol |-> u, data |-> s.data, got |-> s.got]
          BY <1>1, <4>2 DEF CallState
        <4>4. q.cluster = l.cluster /\ q.sector = 0 /\ q.byte = 0 /\ q = Pos(q.cluster, q.sector, q.byte)
          BY <2>1 DEF Pos
        <4> HIDE DEF q
        <4>5. CallState(t)
          BY <4>3, <4>4 DEF CallState
        <4>6. n \in Nat \ {0} /\ Size(u, c) - 1 = n /\ n \in 0..Size(u, c) - 1
          BY <2>s, <4>1
        <4> HIDE DEF n
        <4>7. Needed(t, c, size)
          BY <2>s, <2>1, <3>1, <4>3, <4>6 DEF Needed, n
        <4>8. IsAt(u, c, q, s.at)
          <5>1. s.at = Offset(n, q.sector, q.byte)
            <6>1. Run(0) = 0 /\ Span(n) \in Nat
              BY <2>s, RunFact DEF n
            <6>2. QED
              BY <3>1, <4>4, <6>1 DEF Offset, n
          <5>2. 0 \in 0..SectorsPerCluster /\ 0 \in 0..BytesPerSector - 1 /\ SectorsPerCluster # 0
            BY <1>4, UnitFact
          <5>3. QED
            BY <4>1, <4>4, <4>6, <5>1, <5>2 DEF IsAt
        <4>c. Carried(t, c, end, job)
          BY <1>1, <1>2, <1>a, <3>3, <4>3, CarriedAlong
        <4>k. t.pos = q /\ t.remain = s.remain /\ t.at = s.at /\ t.vol = u /\ t.ok = s.ok
          BY <4>3
        <4>9. InCall(t, v, c, size, end, job)
          BY <1>1, <2>1, <3>4, <4>5, <4>7, <4>8, <4>c, <4>k DEF InCall
        <4>10. QED
          BY <1>4, <2>1, <4>3, <4>4, <4>9 DEF t
      <3>8. QED
        BY <3>6, <3>7
    <2>6. QED
      BY <2>4, <2>5
  <1>7. QED
    BY <1>5, <1>6

(* What is repeated has a result: that of as many turns as there may be.      *)
AnyTurn(kind, f, t) ==
    IF kind = "read" THEN ReadCluster(t)
    ELSE IF kind = "write" THEN WriteCluster(t, f) ELSE ZeroSector(t)

Turns(kind, f, s, n, r) ==
    /\ r = [k \in 0..n |-> r[k]]
    /\ \A k \in 0..n : r[k] = IF k = 0 THEN s ELSE AnyTurn(kind, f, r[k - 1])

LEMMA TurnsExist == ASSUME NEW kind, NEW f, NEW s PROVE \E r : Turns(kind, f, s, MaxSize, r)
  <1> DEFINE S == {n \in Nat : ~ \E r : Turns(kind, f, s, n, r)}
  <1>1. S = {}
    <2> SUFFICES ASSUME S # {} PROVE FALSE
      OBVIOUS
    <2>1. PICK m \in S : \A n \in S : m <= n
      BY LeastFact
    <2>2. m \in Nat /\ ~ \E r : Turns(kind, f, s, m, r)
      BY <2>1
    <2>3. CASE m = 0
      <3> DEFINE r == [k \in 0..0 |-> s]
      <3>1. Turns(kind, f, s, 0, r)
        BY DEF Turns
      <3>2. QED
        BY <2>2, <2>3, <3>1
    <2>4. CASE m # 0
      <3>1. m - 1 \in Nat /\ m - 1 \notin S
        BY <2>1, <2>2, <2>4
      <3>2. PICK g : Turns(kind, f, s, m - 1, g)
        BY <3>1
      <3> DEFINE r == [k \in 0..m |-> IF k = m THEN AnyTurn(kind, f, g[m - 1]) ELSE g[k]]
      <3>3. /\ \A k \in 0..m - 1 : r[k] = g[k]
            /\ r[m] = AnyTurn(kind, f, g[m - 1]) /\ r = [k \in 0..m |-> r[k]]
        BY <2>2
      <3> HIDE DEF r
      <3>4. \A k \in 0..m : r[k] = IF k = 0 THEN s ELSE AnyTurn(kind, f, r[k - 1])
        <4> TAKE k \in 0..m
        <4>1. CASE k = m
          <5>1. m - 1 \in 0..m - 1
            BY <3>1
          <5>2. r[k - 1] = g[m - 1]
            BY <3>3, <4>1, <5>1
          <5>3. QED
            BY <2>4, <3>3, <4>1, <5>2
        <4>2. CASE k # m
          <5>1. k \in 0..m - 1 /\ (k # 0 => k - 1 \in 0..m - 1)
            BY <2>2, <4>2
          <5>2. r[k] = g[k] /\ (k # 0 => r[k - 1] = g[k - 1])
            BY <3>3, <5>1
          <5>3. g[k] = IF k = 0 THEN s ELSE AnyTurn(kind, f, g[k - 1])
            BY <3>2, <5>1 DEF Turns
          <5>4. QED
            BY <5>2, <5>3
        <4>3. QED
          BY <4>1, <4>2
      <3>5. QED
        BY <2>2, <3>3, <3>4 DEF Turns
    <2>5. QED
      BY <2>3, <2>4
  <1>2. MaxSize \notin S
    BY <1>1
  <1>3. QED
    BY <1>2, UnitFact

WriteClusters(s, f) == LET Cluster_(t) == WriteCluster(t, f) IN Repeat(Cluster_, s)
ReadClusters(s) == Repeat(ReadCluster, s)
ZeroSectors(s) == Repeat(ZeroSector, s)

LEMMA RepeatWrite ==
  ASSUME NEW s, NEW f
  PROVE  \E r : /\ r[0] = s /\ WriteClusters(s, f) = r[MaxSize]
                /\ \A k \in 0..MaxSize : k # 0 => r[k] = WriteCluster(r[k - 1], f)
  <1> DEFINE Is(r) == r = [k \in 0..MaxSize |-> IF k = 0 THEN s ELSE WriteCluster(r[k - 1], f)]
  <1>1. \E r : Is(r)
    <2>1. \A t : AnyTurn("write", f, t) = WriteCluster(t, f)
      BY DEF AnyTurn
    <2>2. PICK r : Turns("write", f, s, MaxSize, r)
      BY TurnsExist
    <2>3. /\ r = [k \in 0..MaxSize |-> r[k]]
          /\ \A k \in 0..MaxSize : r[k] = IF k = 0 THEN s ELSE AnyTurn("write", f, r[k - 1])
      BY <2>2 DEF Turns
    <2>4. Is(r)
      BY <2>1, <2>3
    <2>5. QED
      BY <2>4
  <1> DEFINE r == CHOOSE r : Is(r)
  <1>2. Is(r)
    BY <1>1
  <1>3. WriteClusters(s, f) = r[MaxSize]
    BY DEF WriteClusters, Repeat
  <1> HIDE DEF r
  <1>4. 0 \in 0..MaxSize
    BY UnitFact
  <1>5. r[0] = s /\ \A k \in 0..MaxSize : k # 0 => r[k] = WriteCluster(r[k - 1], f)
    BY <1>2, <1>4
  <1>6. QED
    BY <1>3, <1>5

LEMMA RepeatRead ==
  ASSUME NEW s
  PROVE  \E r : /\ r[0] = s /\ ReadClusters(s) = r[MaxSize]
                /\ \A k \in 0..MaxSize : k # 0 => r[k] = ReadCluster(r[k - 1])
  <1> DEFINE Is(r) == r = [k \in 0..MaxSize |-> IF k = 0 THEN s ELSE ReadCluster(r[k - 1])]
  <1>1. \E r : Is(r)
    <2>1. \A t : AnyTurn("read", 0, t) = ReadCluster(t)
      BY DEF AnyTurn
    <2>2. PICK r : Turns("read", 0, s, MaxSize, r)
      BY TurnsExist
    <2>3. /\ r = [k \in 0..MaxSize |-> r[k]]
          /\ \A k \in 0..MaxSize : r[k] = IF k = 0 THEN s ELSE AnyTurn("read", 0, r[k - 1])
      BY <2>2 DEF Turns
    <2>4. Is(r)
      BY <2>1, <2>3
    <2>5. QED
      BY <2>4
  <1> DEFINE r == CHOOSE r : Is(r)
  <1>2. Is(r)
    BY <1>1
  <1>3. ReadClusters(s) = r[MaxSize]
    BY DEF ReadClusters, Repeat
  <1> HIDE DEF r
  <1>4. 0 \in 0..MaxSize
    BY UnitFact
  <1>5. r[0] = s /\ \A k \in 0..MaxSize : k # 0 => r[k] = ReadCluster(r[k - 1])
    BY <1>2, <1>4
  <1>6. QED
    BY <1>3, <1>5

LEMMA RepeatZero ==
  ASSUME NEW s
  PROVE  \E r : /\ r[0] = s /\ ZeroSectors(s) = r[MaxSize]
                /\ \A k \in 0..MaxSize : k # 0 => r[k] = ZeroSector(r[k - 1])
  <1> DEFINE Is(r) == r = [k \in 0..MaxSize |-> IF k = 0 THEN s ELSE ZeroSector(r[k - 1])]
  <1>1. \E r : Is(r)
    <2>1. \A t : AnyTurn("zero", 0, t) = ZeroSector(t)
      BY DEF AnyTurn
    <2>2. PICK r : Turns("zero", 0, s, MaxSize, r)
      BY TurnsExist
    <2>3. /\ r = [k \in 0..MaxSize |-> r[k]]
          /\ \A k \in 0..MaxSize : r[k] = IF k = 0 THEN s ELSE AnyTurn("zero", 0, r[k - 1])
      BY <2>2 DEF Turns
    <2>4. Is(r)
      BY <2>1, <2>3
    <2>5. QED
      BY <2>4
  <1> DEFINE r == CHOOSE r : Is(r)
  <1>2. Is(r)
    BY <1>1
  <1>3. ZeroSectors(s) = r[MaxSize]
    BY DEF ZeroSectors, Repeat
  <1> HIDE DEF r
  <1>4. 0 \in 0..MaxSize
    BY UnitFact
  <1>5. r[0] = s /\ \A k \in 0..MaxSize : k # 0 => r[k] = ZeroSector(r[k - 1])
    BY <1>2, <1>4
  <1>6. QED
    BY <1>3, <1>5

-----------------------------------------------------------------------------
(* The parts of a transfer.                                                   *)

LEMMA InCallFact ==
  ASSUME NEW v, NEW c, NEW size, NEW job, job.low \in Nat,
         NEW end \in Nat, NEW s, InCall(s, v, c, size, end, job)
  PROVE  /\ CallState(s) /\ s.pos = Pos(s.pos.cluster, s.pos.sector, s.pos.byte)
         /\ s.vol \in Tables /\ Sound(s.vol, c) /\ s.ok \in BOOLEAN
         /\ s.remain \in Nat /\ s.at \in Nat /\ s.at + s.remain = end /\ s.remain <= end
         /\ IsAt(s.vol, c, s.pos, s.at)
         /\ s.pos.sector \in 0..SectorsPerCluster /\ s.pos.byte \in 0..BytesPerSector - 1
         /\ s.pos.sector = SectorsPerCluster => s.pos.byte = 0
  BY DEF InCall, CallState, Grown, IsAt

(* A position is at a place of the volume; a sector fits in its cluster.      *)
LEMMA PlaceOfAt ==
  ASSUME NEW v \in Tables, NEW c \in Cluster, Sound(v, c), NEW p, NEW x, IsAt(v, c, p, x)
  PROVE  At(p) \in Nat
  <1>1. PICK k \in 0..Size(v, c) - 1 : p.cluster = Walk(v, c)[k]
    BY DEF IsAt
  <1>2. p.cluster - CLUSTER_FIRST \in Nat
    BY <1>1, LinkFact, ClusterFact DEF Cluster, CLUSTER_FIRST
  <1>3. p.sector \in Nat /\ p.byte \in Nat
    BY UnitFact DEF IsAt
  <1>4. Span(p.cluster - CLUSTER_FIRST) \in Nat /\ Run(p.sector) \in Nat
    BY <1>2, <1>3, SpanFact, RunFact
  <1>5. At(p) = Span(p.cluster - CLUSTER_FIRST) + Run(p.sector) + p.byte
    BY DEF At, Span, Run
  <1>6. QED
    BY <1>3, <1>4, <1>5

LEMMA SectorFits ==
  ASSUME NEW i \in 0..SectorsPerCluster, i < SectorsPerCluster
  PROVE  Run(i) \in Nat /\ Run(i) + BytesPerSector <= BytesPerCluster
  <1> DEFINE n == SectorsPerCluster - i
  <1>1. i \in Nat /\ n \in Nat /\ i + n = SectorsPerCluster /\ 1 <= n
    BY UnitFact
  <1> HIDE DEF n
  <1>2. Run(i + n) = Run(i) + Run(n) /\ Run(i) \in Nat /\ Run(n) \in Nat
    BY <1>1, RunFact
  <1>3. Run(1) <= Run(n) /\ Run(1) = BytesPerSector /\ Run(SectorsPerCluster) = BytesPerCluster
    BY <1>1, RunFact
  <1>4. QED
    BY <1>1, <1>2, <1>3, UnitFact

(* The bytes that the parts write and read are those of the job.              *)
LEMMA PutTransfers ==
  ASSUME NEW v, NEW c \in Cluster, NEW size, NEW job, job.low \in Nat, NEW end \in Nat,
         NEW s, InCall(s, v, c, size, end, job), NEW f, Writes(job, f), NEW p, p = s.pos,
         NEW n \in Nat, NEW keep,
         keep \/ (job.kind = "append" /\ n = s.remain /\ s.pos.sector < SectorsPerCluster),
         NEW q, NEW t, t = [Put(s, f, p, n, keep) EXCEPT !.pos = q]
  PROVE  Transfer(s, t, n, job)
  <1> DEFINE a == At(s.pos)
             x0 == s.at
             erased == IF keep THEN a + n ELSE a - s.pos.byte + BytesPerSector
             b == Run(s.pos.sector) + s.pos.byte
  <1>1. /\ CallState(s) /\ s.vol \in Tables /\ Sound(s.vol, c) /\ x0 \in Nat
        /\ IsAt(s.vol, c, s.pos, x0)
        /\ s.pos.sector \in 0..SectorsPerCluster /\ s.pos.byte \in 0..BytesPerSector - 1
    BY InCallFact
  <1>2. a \in Nat
    BY <1>1, PlaceOfAt
  <1>3. Place \subseteq Int
    BY UnitFact, ClusterFact DEF Place
  <1>4. t.data = [i \in Place |-> IF a <= i /\ i < a + n THEN Byte(f, x0 + i - a)
                                  ELSE IF a + n <= i /\ i < erased THEN Zero ELSE s.data[i]]
    <2>1. [Put(s, f, p, n, keep) EXCEPT !.pos = q].data = Put(s, f, p, n, keep).data
      <3> DEFINE u == Put(s, f, p, n, keep)
      <3>1. u = [s EXCEPT !.remain = s.remain - n, !.at = s.at + n, !.data = u.data]
        BY <1>1 DEF Put, CallState
      <3> HIDE DEF u
      <3>2. u = [pos |-> s.pos, remain |-> s.remain - n, at |-> s.at + n, ok |-> s.ok, vol |-> s.vol,
                 data |-> u.data, got |-> s.got]
        BY <1>1, <3>1 DEF CallState
      <3>3. [u EXCEPT !.pos = q].data = u.data
        BY <3>2
      <3>4. QED
        BY <3>3 DEF u
    <2>2. Put(s, f, p, n, keep).data =
            [i \in Place |-> IF a <= i /\ i < a + n THEN Byte(f, x0 + i - a)
                             ELSE IF a + n <= i /\ i < erased THEN Zero ELSE s.data[i]]
      BY <1>1 DEF Put, CallState
    <2>3. QED
      BY <2>1, <2>2
  <1>5. job.kind # "read" /\ \A x \in Nat : job.bytes[x] = Byte(f, x)
    BY DEF Writes
  <1>6. ASSUME NEW i \in Place
        PROVE  \/ a <= i /\ i < a + n /\ t.data[i] = job.bytes[x0 + i - a]
               \/ ~(a <= i /\ i < a + n) /\ t.data[i] = s.data[i]
               \/ /\ job.kind = "append" /\ n = s.remain /\ a + n <= i
                  /\ b + (i - a) < BytesPerCluster
    <2>1. i \in Int
      BY <1>3
    <2>2. CASE a <= i /\ i < a + n
      <3> DEFINE x == x0 + i - a
      <3>1. x \in Nat
        BY <1>1, <1>2, <2>1, <2>2
      <3>2. t.data[i] = Byte(f, x)
        BY <1>4, <2>2
      <3> HIDE DEF x
      <3>3. t.data[i] = job.bytes[x]
        BY <1>5, <3>1, <3>2
      <3>4. QED
        BY <2>2, <3>3 DEF x
    <2>3. CASE ~(a <= i /\ i < a + n) /\ ~(a + n <= i /\ i < erased)
      <3>1. t.data[i] = s.data[i]
        BY <1>4, <2>3
      <3>2. QED
        BY <2>3, <3>1
    <2>4. CASE a + n <= i /\ i < erased
      <3>1. ~keep
        BY <1>2, <2>1, <2>4
      <3>2. job.kind = "append" /\ n = s.remain /\ s.pos.sector < SectorsPerCluster
        BY <3>1
      <3>3. i < a - s.pos.byte + BytesPerSector
        BY <2>4, <3>1
      <3>4. Run(s.pos.sector) \in Nat /\ Run(s.pos.sector) + BytesPerSector <= BytesPerCluster
        BY <1>1, <3>2, SectorFits
      <3>5. BytesPerSector \in Nat /\ BytesPerCluster \in Nat /\ s.pos.byte \in Nat
        BY <1>1, UnitFact
      <3> HIDE DEF a, erased
      <3>6. b + (i - a) < BytesPerCluster
        BY <1>2, <2>1, <3>3, <3>4, <3>5
      <3>7. QED
        BY <2>4, <3>2, <3>6
    <2>5. QED
      BY <2>2, <2>3, <2>4
  <1>7. QED
    BY <1>5, <1>6 DEF Transfer

LEMMA PutKeepingTransfers ==
  ASSUME NEW v, NEW c \in Cluster, NEW size, NEW job, job.low \in Nat, NEW end \in Nat,
         NEW s, InCall(s, v, c, size, end, job), NEW f, Writes(job, f), NEW p, p = s.pos,
         NEW n \in Nat, NEW q, NEW t, t = [Put(s, f, p, n, TRUE) EXCEPT !.pos = q]
  PROVE  Transfer(s, t, n, job)
  <1> DEFINE keep == TRUE
  <1>1. keep /\ t = [Put(s, f, p, n, keep) EXCEPT !.pos = q]
    OBVIOUS
  <1> HIDE DEF keep
  <1>2. QED
    BY <1>1, PutTransfers

LEMMA PutZerosTransfers ==
  ASSUME NEW v, NEW c \in Cluster, NEW size, NEW job, job.low \in Nat, NEW end \in Nat,
         NEW s, InCall(s, v, c, size, end, job), Zeroes(job), NEW p, p = s.pos,
         NEW n \in Nat, NEW q, NEW t, t = [PutZeros(s, p, n) EXCEPT !.pos = q]
  PROVE  Transfer(s, t, n, job)
  <1> DEFINE a == At(s.pos)
             x0 == s.at
  <1>1. /\ CallState(s) /\ s.vol \in Tables /\ Sound(s.vol, c) /\ x0 \in Nat
        /\ IsAt(s.vol, c, s.pos, x0)
    BY InCallFact
  <1>2. a \in Nat
    BY <1>1, PlaceOfAt
  <1>3. Place \subseteq Int
    BY UnitFact, ClusterFact DEF Place
  <1>4. t.data = [i \in Place |-> IF a <= i /\ i < a + n THEN Zero ELSE s.data[i]]
    <2> DEFINE u == PutZeros(s, p, n)
    <2>1. u = [s EXCEPT !.remain = s.remain - n, !.at = s.at + n, !.data = u.data]
      BY <1>1 DEF PutZeros, CallState
    <2>2. u.data = [i \in Place |-> IF a <= i /\ i < a + n THEN Zero ELSE s.data[i]]
      BY <1>1 DEF PutZeros, CallState
    <2> HIDE DEF u
    <2>3. u = [pos |-> s.pos, remain |-> s.remain - n, at |-> s.at + n, ok |-> s.ok, vol |-> s.vol,
               data |-> u.data, got |-> s.got]
      BY <1>1, <2>1 DEF CallState
    <2>4. [u EXCEPT !.pos = q].data = u.data
      BY <2>3
    <2>5. QED
      BY <2>2, <2>4 DEF u
  <1>5. job.kind # "read" /\ \A x \in Nat : job.bytes[x] = Zero
    BY DEF Zeroes
  <1>6. ASSUME NEW i \in Place
        PROVE  \/ a <= i /\ i < a + n /\ t.data[i] = job.bytes[x0 + i - a]
               \/ ~(a <= i /\ i < a + n) /\ t.data[i] = s.data[i]
    <2>1. i \in Int
      BY <1>3
    <2>2. CASE a <= i /\ i < a + n
      <3> DEFINE x == x0 + i - a
      <3>1. x \in Nat
        BY <1>1, <1>2, <2>1, <2>2
      <3>2. t.data[i] = Zero
        BY <1>4, <2>2
      <3> HIDE DEF x
      <3>3. t.data[i] = job.bytes[x]
        BY <1>5, <3>1, <3>2
      <3>4. QED
        BY <2>2, <3>3 DEF x
    <2>3. CASE ~(a <= i /\ i < a + n)
      BY <1>4, <2>3
    <2>4. QED
      BY <2>2, <2>3
  <1>7. QED
    BY <1>5, <1>6 DEF Transfer

LEMMA GetTransfers ==
  ASSUME NEW s, CallState(s), NEW job, job.kind = "read", NEW p, p = s.pos, NEW n,
         NEW q, NEW t, t = [Get(s, p, n) EXCEPT !.pos = q]
  PROVE  Transfer(s, t, n, job)
  <1> DEFINE a == At(s.pos)
             u == Get(s, p, n)
             rd == [i \in 1..n |-> IF a + i - 1 \in Place THEN s.data[a + i - 1] ELSE Junk]
  <1>1. u = [s EXCEPT !.remain = s.remain - n, !.at = s.at + n, !.got = s.got \o rd]
    BY DEF Get, CallState
  <1> HIDE DEF u, rd
  <1>2. u = [pos |-> s.pos, remain |-> s.remain - n, at |-> s.at + n, ok |-> s.ok, vol |-> s.vol,
             data |-> s.data, got |-> s.got \o rd]
    BY <1>1 DEF CallState
  <1>3. t.data = s.data /\ t.got = s.got \o rd
    BY <1>2 DEF u
  <1>4. QED
    BY <1>3 DEF Transfer, rd

(* Whole sectors in x bytes.                                                  *)
LEMMA SectorsInFact ==
  ASSUME NEW x \in Nat
  PROVE  LET n == x \div BytesPerSector IN
         n \in Nat /\ n * BytesPerSector = Run(n) /\ Run(n) <= x /\ x < Run(n) + BytesPerSector
  <1> DEFINE B == BytesPerSector
             n == x \div B
             e == x % B
  <1>1. B \in Nat \ {0}
    BY UnitFact
  <1>2. \A k : Run(k) = k * B
    BY DEF Run
  <1> HIDE DEF B
  <1>3. n \in Nat /\ e \in 0..B - 1 /\ x = B * n + e
    BY <1>1
  <1> HIDE DEF n, e
  <1>4. B * n = n * B
    BY <1>1, <1>3
  <1>5. Run(n) = n * B /\ Run(n) \in Nat /\ x = Run(n) + e
    <2>1. Run(n) = n * B /\ x = Run(n) + e
      BY <1>2, <1>3, <1>4
    <2>2. Run(n) \in Nat
      BY <1>3, RunFact
    <2>3. QED
      BY <2>1, <2>2
  <1>6. QED
    BY <1>1, <1>3, <1>5 DEF n, B

LEMMA InSectorFact ==
  ASSUME NEW v, NEW c, NEW size, NEW job, job.low \in Nat,
         NEW end \in Nat, NEW s, InCall(s, v, c, size, end, job)
  PROVE  LET n == InSector(s) IN
         /\ n \in Nat /\ n <= s.remain /\ s.pos.byte + n <= BytesPerSector
         /\ s.pos.byte + n = BytesPerSector \/ n = s.remain
         /\ n >= BytesPerSector => s.pos.byte = 0
  <1>1. /\ s.remain \in Nat /\ s.pos.byte \in 0..BytesPerSector - 1
        /\ BytesPerSector \in Nat \ {0}
    BY InCallFact, UnitFact
  <1>2. QED
    BY <1>1 DEF InSector, Smaller

LEMMA SectorsLeftFact ==
  ASSUME NEW v, NEW c, NEW size, NEW job, job.low \in Nat,
         NEW end \in Nat, NEW s, InCall(s, v, c, size, end, job)
  PROVE  LET n == SectorsLeft(s) IN
         /\ n \in Nat /\ n * BytesPerSector = Run(n) /\ Run(n) \in Nat /\ Run(n) <= s.remain
         /\ s.pos.sector + n <= SectorsPerCluster
         /\ s.pos.sector + n = SectorsPerCluster \/ s.remain - Run(n) < BytesPerSector
         /\ n >= SectorsPerCluster => s.pos.sector = 0 /\ s.remain >= BytesPerCluster
  <1> DEFINE B == BytesPerSector
             S == SectorsPerCluster
             i == s.pos.sector
             x == s.remain
             n == SectorsLeft(s)
             d == S - i
  <1>1. x \in Nat /\ i \in 0..S /\ S \in Nat \ {0} /\ B \in Nat \ {0}
    BY InCallFact, UnitFact
  <1> HIDE DEF B, S, i, x
  <1>2. d \in Nat /\ i + d = S
    BY <1>1
  <1>3. n = IF x > d * B THEN d ELSE x \div B
    BY DEF SectorsLeft, B, S, i, x
  <1>4. d * B = Run(d) /\ Run(d) \in Nat /\ Run(S) = BytesPerCluster
    BY <1>2, RunFact DEF Run, B, S
  <1> HIDE DEF n, d
  <1>5. CASE x > Run(d)
    <2>1. n = d
      BY <1>3, <1>4, <1>5
    <2>2. n >= S => i = 0 /\ x >= BytesPerCluster
      <3> SUFFICES ASSUME n >= S PROVE i = 0 /\ x >= BytesPerCluster
        OBVIOUS
      <3>1. d = S /\ i = 0
        BY <1>1, <1>2, <2>1
      <3>2. QED
        BY <1>1, <1>4, <1>5, <3>1
    <2>3. n * B = Run(n) /\ Run(n) \in Nat /\ Run(n) <= x /\ n \in Nat /\ i + n = S
      BY <1>1, <1>2, <1>4, <1>5, <2>1
    <2>4. QED
      BY <1>1, <2>2, <2>3 DEF n, B, S, i, x
  <1>6. CASE ~(x > Run(d))
    <2>1. n = x \div B
      BY <1>3, <1>4, <1>6
    <2>2. n \in Nat /\ n * B = Run(n) /\ Run(n) <= x /\ x < Run(n) + B
      BY <1>1, <2>1, SectorsInFact DEF B
    <2>3. Run(n) \in Nat /\ Run(n) <= Run(d)
      BY <1>1, <1>4, <1>6, <2>2, RunFact
    <2>4. n <= d
      BY <1>2, <2>2, <2>3, RunFact
    <2>5. n >= S => i = 0 /\ x >= BytesPerCluster
      <3> SUFFICES ASSUME n >= S PROVE i = 0 /\ x >= BytesPerCluster
        OBVIOUS
      <3>1. d = S /\ i = 0 /\ n = S
        BY <1>1, <1>2, <2>2, <2>4
      <3>2. QED
        BY <1>4, <2>2, <3>1
    <2>6. i + n <= S /\ x - Run(n) < B
      BY <1>1, <1>2, <2>2, <2>3, <2>4
    <2>7. QED
      BY <2>2, <2>3, <2>5, <2>6 DEF n, B, S, i, x
  <1>7. QED
    BY <1>1, <1>4, <1>5, <1>6

(* How far the parts of a transfer have come, as long as there is more.       *)
More(s) == s.ok /\ s.remain > 0
AtSector(s) == More(s) => s.pos.byte = 0
LoopReady(s) == More(s) =>
    /\ s.pos.byte = 0
    /\ \/ s.pos.sector = SectorsPerCluster
       \/ s.pos.sector = 0 /\ s.remain >= BytesPerCluster
       \/ s.remain < BytesPerSector
InCluster(s) == More(s) =>
    /\ s.pos.byte = 0 /\ s.pos.sector < SectorsPerCluster
    /\ s.pos.sector = 0 \/ s.remain < BytesPerSector
LastSector(s) == More(s) =>
    s.pos.byte = 0 /\ s.pos.sector < SectorsPerCluster /\ s.remain < BytesPerSector

(* To the end of the sector.                                                  *)
LEMMA ToSectorEnd ==
  ASSUME NEW v, NEW c \in Cluster, NEW size \in Nat, NEW job, job.low \in Nat, NEW end \in Nat,
         NEW s, InCall(s, v, c, size, end, job), s.pos.sector < SectorsPerCluster,
         NEW t, Moved(s, t, ByteOn(s.pos, InSector(s)), InSector(s)),
         Transfer(s, t, InSector(s), job)
  PROVE  InCall(t, v, c, size, end, job) /\ AtSector(t) /\ t.ok = s.ok /\ t.vol = s.vol
         /\ t.at = s.at + InSector(s)
  <1> DEFINE n == InSector(s)
             q == ByteOn(s.pos, n)
  <1>1. /\ n \in Nat /\ n <= s.remain /\ s.pos.byte + n <= BytesPerSector
        /\ s.pos.byte + n = BytesPerSector \/ n = s.remain
    BY InSectorFact
  <1>2. s.vol \in Tables /\ Sound(s.vol, c) /\ IsAt(s.vol, c, s.pos, s.at) /\ s.remain \in Nat
        /\ s.pos = Pos(s.pos.cluster, s.pos.sector, s.pos.byte)
        /\ s.pos.sector \in 0..SectorsPerCluster /\ s.pos.byte \in 0..BytesPerSector - 1
    BY InCallFact
  <1> HIDE DEF n
  <1>f. Run(s.pos.sector) + s.pos.byte + n <= BytesPerCluster
    <2>1. Run(s.pos.sector) \in Nat /\ Run(s.pos.sector) + BytesPerSector <= BytesPerCluster
      BY <1>2, SectorFits
    <2>2. QED
      BY <1>1, <1>2, <2>1, UnitFact
  <1>3. /\ IsAt(s.vol, c, q, s.at + n) /\ q = Pos(s.pos.cluster, q.sector, q.byte)
        /\ s.pos.byte + n = BytesPerSector => q.byte = 0
    BY <1>1, <1>2, ByteOnFact
  <1>4. q = Pos(q.cluster, q.sector, q.byte)
    BY <1>3 DEF Pos
  <1>5. Moved(s, t, q, n) /\ Transfer(s, t, n, job)
    BY DEF n
  <1> HIDE DEF q
  <1>6. InCall(t, v, c, size, end, job) /\ t.pos = q /\ t.remain = s.remain - n /\ t.ok = s.ok
        /\ t.vol = s.vol /\ t.at = s.at + n
    <2>1. InCall(t, v, c, size, end, job)
      BY <1>1, <1>2, <1>3, <1>4, <1>5, <1>f, MovedFact
    <2>2. QED
      BY <1>5, <2>1, MovedParts
  <1>7. AtSector(t)
    BY <1>1, <1>2, <1>3, <1>6 DEF AtSector, More
  <1>8. QED
    BY <1>6, <1>7 DEF n

(* Whole sectors.                                                             *)
LEMMA SectorsMove ==
  ASSUME NEW v, NEW c \in Cluster, NEW size \in Nat, NEW job, job.low \in Nat, NEW end \in Nat,
         NEW s, InCall(s, v, c, size, end, job), s.pos.byte = 0,
         NEW n \in Nat, NEW m, m = Run(n), m <= s.remain,
         NEW i \in 0..SectorsPerCluster, i = s.pos.sector + n,
         NEW q, q = Pos(s.pos.cluster, i, 0), NEW t, Moved(s, t, q, m), Transfer(s, t, m, job)
  PROVE  InCall(t, v, c, size, end, job)
  <1>1. s.vol \in Tables /\ Sound(s.vol, c) /\ IsAt(s.vol, c, s.pos, s.at)
    BY InCallFact
  <1> DEFINE x == s.at + m
  <1>2. IsAt(s.vol, c, q, x)
    BY <1>1, SectorOnFact, UnitFact
  <1>3. q = Pos(q.cluster, q.sector, q.byte)
    BY DEF Pos
  <1>4. m \in Nat
    BY RunFact
  <1>5. x = s.at + m
    OBVIOUS
  <1> HIDE DEF x
  <1>6. Run(s.pos.sector) + s.pos.byte + m <= BytesPerCluster
    <2>1. s.pos.sector \in Nat /\ SectorsPerCluster \in Nat /\ i \in Nat /\ i <= SectorsPerCluster
      BY <1>1, UnitFact DEF IsAt
    <2>2. Run(s.pos.sector + n) = Run(s.pos.sector) + Run(n) /\ Run(s.pos.sector) \in Nat
      BY <2>1, RunFact
    <2>3. Run(i) <= Run(SectorsPerCluster) /\ Run(SectorsPerCluster) = BytesPerCluster
      BY <2>1, RunFact
    <2>4. QED
      BY <1>4, <2>2, <2>3
  <1>7. QED
    BY <1>1, <1>2, <1>3, <1>4, <1>5, <1>6, MovedFact

LEMMA ClusterMoves ==
  ASSUME NEW v, NEW c \in Cluster, NEW size \in Nat, NEW job, job.low \in Nat, NEW end \in Nat,
         NEW s, InCall(s, v, c, size, end, job), s.pos.byte = 0, s.pos.sector = 0,
         BytesPerCluster <= s.remain,
         NEW q, q = Pos(s.pos.cluster, SectorsPerCluster, 0),
         NEW t, Moved(s, t, q, BytesPerCluster), Transfer(s, t, BytesPerCluster, job)
  PROVE  InCall(t, v, c, size, end, job)
  <1> DEFINE n == SectorsPerCluster
             m == BytesPerCluster
  <1>1. n \in Nat /\ n = s.pos.sector + n /\ n \in 0..SectorsPerCluster /\ m = Run(n)
    BY UnitFact, RunFact
  <1>2. Moved(s, t, q, m) /\ Transfer(s, t, m, job) /\ m <= s.remain /\ q = Pos(s.pos.cluster, n, 0)
    OBVIOUS
  <1> HIDE DEF n, m
  <1>3. QED
    BY ONLY <1>1, <1>2, InCall(s, v, c, size, end, job), s.pos.byte = 0,
       c \in Cluster, size \in Nat, job.low \in Nat,
       end \in Nat, SectorsMove

(* To the end of the cluster.                                                 *)
LEMMA ToClusterEnd ==
  ASSUME NEW v, NEW c \in Cluster, NEW size \in Nat, NEW job, job.low \in Nat, NEW end \in Nat,
         NEW s, InCall(s, v, c, size, end, job), s.pos.byte = 0,
         NEW q, q = Pos(s.pos.cluster, s.pos.sector + SectorsLeft(s), 0),
         NEW t, Moved(s, t, q, SectorsLeft(s) * BytesPerSector),
         Transfer(s, t, SectorsLeft(s) * BytesPerSector, job)
  PROVE  /\ InCall(t, v, c, size, end, job) /\ t.pos.byte = 0
         /\ t.pos.sector = SectorsPerCluster \/ t.remain < BytesPerSector
  <1> DEFINE n == SectorsLeft(s)
             m == n * BytesPerSector
             i == s.pos.sector + n
  <1>1. /\ n \in Nat /\ m = Run(n) /\ m <= s.remain /\ i \in 0..SectorsPerCluster
        /\ i = SectorsPerCluster \/ s.remain - m < BytesPerSector
    <2>1. s.pos.sector \in 0..SectorsPerCluster /\ SectorsPerCluster \in Nat
      BY InCallFact, UnitFact
    <2>2. /\ n \in Nat /\ m = Run(n) /\ Run(n) \in Nat /\ Run(n) <= s.remain
          /\ i <= SectorsPerCluster
          /\ i = SectorsPerCluster \/ s.remain - Run(n) < BytesPerSector
      BY SectorsLeftFact
    <2> HIDE DEF n, m
    <2>3. QED
      BY <2>1, <2>2
  <1>2. Moved(s, t, q, m) /\ Transfer(s, t, m, job) /\ q = Pos(s.pos.cluster, i, 0)
        /\ i = s.pos.sector + n
    OBVIOUS
  <1> HIDE DEF n, m, i
  <1>3. InCall(t, v, c, size, end, job)
    BY <1>1, <1>2, SectorsMove
  <1>4. t.pos.sector = i /\ t.pos.byte = 0 /\ t.remain = s.remain - m
    <2>1. t.pos = q /\ t.remain = s.remain - m
      BY <1>2, MovedParts
    <2>2. QED
      BY <1>2, <2>1 DEF Pos
  <1>5. QED
    BY <1>1, <1>3, <1>4

(* _FAT_write.                                                                *)
LEMMA WriteToSectorEndFact ==
  ASSUME NEW v, NEW c \in Cluster, NEW size \in Nat, NEW job, job.low \in Nat, NEW end \in Nat,
         NEW f, Writes(job, f), NEW s, InCall(s, v, c, size, end, job), s.remain > 0,
         s.ok => s.pos.sector < SectorsPerCluster
  PROVE  LET t == WriteToSectorEnd(s, f) IN
         InCall(t, v, c, size, end, job) /\ AtSector(t) /\ (t.ok <=> s.ok)
  <1> DEFINE t == WriteToSectorEnd(s, f)
             n == InSector(s)
  <1>1. CASE n < BytesPerSector /\ s.ok
    <2>1. t = [Put(s, f, s.pos, n, TRUE) EXCEPT !.pos = ByteOn(Put(s, f, s.pos, n, TRUE).pos, n)]
      BY <1>1 DEF WriteToSectorEnd
    <2>2. CallState(s)
      BY DEF InCall
    <2> DEFINE p == s.pos
    <2> HIDE DEF n, p
    <2>3. Put(s, f, p, n, TRUE).pos = s.pos
      BY <2>2, PutKeepingMoves
    <2>n. n \in Nat /\ p = s.pos
      BY InSectorFact DEF n, p
    <2>4. Moved(s, t, ByteOn(s.pos, n), n) /\ Transfer(s, t, n, job)
      <3> DEFINE q == ByteOn(s.pos, n)
      <3> HIDE DEF q
      <3>1. Moved(s, [Put(s, f, p, n, TRUE) EXCEPT !.pos = q], q, n)
        BY <2>2, PutKeepingMoves
      <3>2. t = [Put(s, f, p, n, TRUE) EXCEPT !.pos = q]
        BY <2>1, <2>3 DEF q, p
      <3> HIDE DEF t
      <3>3. Transfer(s, t, n, job)
        BY <2>n, <3>2, PutKeepingTransfers
      <3>4. QED
        BY <3>1, <3>2, <3>3 DEF q
    <2> HIDE DEF t
    <2>5. InCall(t, v, c, size, end, job) /\ AtSector(t) /\ t.ok = s.ok
      <3>1. s.pos.sector < SectorsPerCluster
        BY <1>1
      <3>2. Moved(s, t, ByteOn(s.pos, InSector(s)), InSector(s)) /\ Transfer(s, t, InSector(s), job)
        BY <2>4 DEF n
      <3>3. QED
        BY ONLY <3>1, <3>2, InCall(s, v, c, size, end, job),
           c \in Cluster, size \in Nat, job.low \in Nat, end \in Nat,
           ToSectorEnd
    <2>6. QED
      BY <2>5 DEF t
  <1>2. CASE ~(n < BytesPerSector /\ s.ok)
    <2>1. t = s
      BY <1>2 DEF WriteToSectorEnd
    <2>2. n \in Nat /\ (n >= BytesPerSector => s.pos.byte = 0) /\ BytesPerSector \in Nat
      BY InSectorFact, UnitFact
    <2>3. AtSector(s)
      BY <1>2, <2>2 DEF AtSector, More
    <2>4. QED
      BY <2>1, <2>3
  <1>3. QED
    BY <1>1, <1>2

LEMMA WriteToClusterEndFact ==
  ASSUME NEW v, NEW c \in Cluster, NEW size \in Nat, NEW job, job.low \in Nat, NEW end \in Nat,
         NEW f, Writes(job, f), NEW s, InCall(s, v, c, size, end, job), AtSector(s)
  PROVE  LET t == WriteToClusterEnd(s, f) IN
         InCall(t, v, c, size, end, job) /\ LoopReady(t) /\ (t.ok <=> s.ok)
  <1> DEFINE t == WriteToClusterEnd(s, f)
             n == SectorsLeft(s)
             m == n * BytesPerSector
  <1>1. /\ n \in Nat /\ m = Run(n) /\ Run(n) \in Nat /\ Run(n) <= s.remain
        /\ s.pos.sector + n <= SectorsPerCluster
        /\ s.pos.sector + n = SectorsPerCluster \/ s.remain - Run(n) < BytesPerSector
        /\ n >= SectorsPerCluster => s.pos.sector = 0 /\ s.remain >= BytesPerCluster
    BY SectorsLeftFact
  <1>2. /\ CallState(s) /\ s.pos = Pos(s.pos.cluster, s.pos.sector, s.pos.byte) /\ s.remain \in Nat
        /\ s.pos.sector \in 0..SectorsPerCluster /\ SectorsPerCluster \in Nat \ {0}
        /\ s.ok \in BOOLEAN
    BY InCallFact, UnitFact
  <1>3. CASE 0 < n /\ n < SectorsPerCluster /\ s.ok
    <2>1. t = [Put(s, f, s.pos, m, TRUE) EXCEPT !.pos = SectorOn(Put(s, f, s.pos, m, TRUE).pos, n)]
      BY <1>3 DEF WriteToClusterEnd
    <2>2. s.pos.byte = 0
      <3>1. n <= Run(n)
        BY <1>1, RunFact
      <3>2. More(s)
        BY <1>1, <1>2, <1>3, <3>1 DEF More
      <3>3. QED
        BY <3>2 DEF AtSector
    <2> HIDE DEF n, m
    <2> DEFINE p == s.pos
               q == Pos(s.pos.cluster, s.pos.sector + n, 0)
    <2>3. SectorOn(s.pos, n) = q
      BY <1>2, <2>2 DEF SectorOn, Pos
    <2>p. p = s.pos /\ m \in Nat
      BY <1>1
    <2> HIDE DEF p, q
    <2>4. Put(s, f, p, m, TRUE).pos = s.pos /\ Moved(s, [Put(s, f, p, m, TRUE) EXCEPT !.pos = q], q, m)
      BY <1>2, PutKeepingMoves
    <2>5. t = [Put(s, f, p, m, TRUE) EXCEPT !.pos = q]
      BY <2>1, <2>3, <2>4 DEF p
    <2> HIDE DEF t
    <2>6. Moved(s, t, q, m) /\ Transfer(s, t, m, job)
      BY <2>4, <2>5, <2>p, PutKeepingTransfers
    <2>7. /\ InCall(t, v, c, size, end, job) /\ t.ok = s.ok /\ t.pos.byte = 0
          /\ t.pos.sector = SectorsPerCluster \/ t.remain < BytesPerSector
      <3>1. Moved(s, t, q, SectorsLeft(s) * BytesPerSector)
            /\ Transfer(s, t, SectorsLeft(s) * BytesPerSector, job)
            /\ q = Pos(s.pos.cluster, s.pos.sector + SectorsLeft(s), 0)
        BY <2>6 DEF q, n, m
      <3>2. /\ InCall(t, v, c, size, end, job) /\ t.pos.byte = 0
            /\ t.pos.sector = SectorsPerCluster \/ t.remain < BytesPerSector
        BY <2>2, <3>1, ToClusterEnd
      <3>3. QED
        BY <2>6, <3>2, MovedParts
    <2>8. QED
      BY <2>7 DEF t, LoopReady
  <1>4. CASE ~(0 < n /\ n < SectorsPerCluster /\ s.ok)
    <2>1. t = s
      BY <1>4 DEF WriteToClusterEnd
    <2> HIDE DEF n
    <2>2. LoopReady(s)
      <3> SUFFICES ASSUME More(s)
                   PROVE  /\ s.pos.byte = 0
                          /\ \/ s.pos.sector = SectorsPerCluster
                             \/ s.pos.sector = 0 /\ s.remain >= BytesPerCluster
                             \/ s.remain < BytesPerSector
        BY DEF LoopReady
      <3>1. s.pos.byte = 0 /\ s.ok
        BY DEF AtSector, More
      <3>2. CASE n = 0
        <4>1. Run(n) = 0
          BY <3>2, RunFact
        <4>2. QED
          BY <1>1, <1>2, <3>1, <3>2, <4>1
      <3>3. CASE n # 0
        BY <1>1, <1>2, <1>4, <3>1, <3>3
      <3>4. QED
        BY <3>2, <3>3
    <2>3. QED
      BY <2>1, <2>2
  <1>5. QED
    BY <1>3, <1>4

LEMMA WriteClusterFact ==
  ASSUME ~SlackIsFree, NEW v \in Tables, NEW c \in Cluster, Sound(v, c),
         NEW size \in Nat, NEW job, job.low \in Nat, NEW end \in Nat,
         NEW f, Writes(job, f), NEW s, InCall(s, v, c, size, end, job), LoopReady(s)
  PROVE  LET t == WriteCluster(s, f) IN
         /\ InCall(t, v, c, size, end, job) /\ LoopReady(t)
         /\ t.remain < BytesPerCluster \/ ~t.ok \/ t.remain + 1 <= s.remain
  <1> DEFINE t == WriteCluster(s, f)
  <1>u. /\ SectorsPerCluster \in Nat \ {0} /\ BytesPerCluster \in Nat \ {0}
        /\ BytesPerSector \in Nat \ {0} /\ BytesPerSector <= BytesPerCluster
        /\ Run(SectorsPerCluster) = BytesPerCluster
    BY UnitFact, RunFact
  <1>s. s.remain \in Nat
    BY InCallFact
  <1>1. CASE s.remain < BytesPerCluster \/ ~s.ok
    <2>1. t = s
      BY <1>1 DEF WriteCluster
    <2>2. QED
      BY <1>1, <2>1
  <1>2. CASE ~(s.remain < BytesPerCluster \/ ~s.ok)
    <2> DEFINE x == CheckPosition(s)
    <2>1. t = PutCluster(x, f)
      BY <1>2 DEF WriteCluster
    <2>2. /\ InCall(x, v, c, size, end, job)
          /\ x.remain = s.remain /\ x.pos.byte = s.pos.byte
          /\ x.pos.sector = s.pos.sector \/ (s.pos.sector = SectorsPerCluster /\ x.pos.sector = 0)
          /\ x.ok /\ x.remain > 0 => x.pos.sector < SectorsPerCluster
      BY CheckFact
    <2> HIDE DEF x, t
    <2>3. CASE ~x.ok
      <3>1. t = x
        BY <2>1, <2>3 DEF PutCluster
      <3>2. QED
        BY <2>2, <2>3, <3>1 DEF LoopReady, More, t
    <2>4. CASE x.ok
      <3>1. x.pos.sector = 0 /\ x.pos.byte = 0
        <4>1. s.remain > 0 /\ s.ok /\ ~(s.remain < BytesPerSector)
          BY <1>2, <1>s, <1>u
        <4>2. s.pos.byte = 0 /\ (s.pos.sector = SectorsPerCluster \/ s.pos.sector = 0)
          BY <4>1 DEF LoopReady, More
        <4>3. x.pos.sector # SectorsPerCluster
          BY <1>u, <2>2, <2>4, <4>1
        <4>4. QED
          BY <2>2, <4>2, <4>3
      <3>2. CallState(x) /\ x.pos = Pos(x.pos.cluster, x.pos.sector, x.pos.byte)
        BY <2>2, InCallFact
      <3> DEFINE p == Pos(x.pos.cluster, 0, 0)
                 m == BytesPerCluster
                 y == Put(x, f, p, m, TRUE)
                 q == Pos(x.pos.cluster, SectorsPerCluster, 0)
      <3>3. t = [y EXCEPT !.pos.sector = SectorsPerCluster]
        BY <2>1, <2>4 DEF PutCluster
      <3>4. q = [x.pos EXCEPT !.sector = SectorsPerCluster]
        BY <3>1, <3>2 DEF Pos
      <3>p. p = x.pos /\ m \in Nat
        BY <1>u, <3>1, <3>2
      <3> HIDE DEF p, m, q
      <3>5. y.pos = x.pos /\ Moved(x, [y EXCEPT !.pos = q], q, m)
        BY <3>2, PutKeepingMoves
      <3>y. y = Put(x, f, p, m, TRUE)
        OBVIOUS
      <3> HIDE DEF y
      <3>6. t = [y EXCEPT !.pos = q]
        BY <3>3, <3>4, <3>5
      <3>7. Moved(x, t, q, m) /\ Transfer(x, t, m, job)
        <4>1. t = [Put(x, f, p, m, TRUE) EXCEPT !.pos = q]
          BY <3>6, <3>y
        <4>2. Transfer(x, t, m, job)
          BY <2>2, <3>p, <4>1, PutKeepingTransfers
        <4>3. QED
          BY <3>5, <3>6, <4>2
      <3>8. BytesPerCluster <= x.remain
        BY <1>u, <1>2, <1>s, <2>2
      <3>9. /\ InCall(t, v, c, size, end, job) /\ t.remain = x.remain - BytesPerCluster
            /\ t.pos.byte = 0 /\ t.pos.sector = SectorsPerCluster
        <4>1. q = Pos(x.pos.cluster, SectorsPerCluster, 0) /\ Moved(x, t, q, BytesPerCluster)
              /\ Transfer(x, t, BytesPerCluster, job)
          BY <3>7 DEF q, m
        <4>2. InCall(t, v, c, size, end, job)
          BY <2>2, <3>1, <3>8, <4>1, ClusterMoves
        <4>3. t.pos = q /\ t.remain = x.remain - BytesPerCluster
          BY <4>1, MovedParts
        <4>4. QED
          BY <4>1, <4>2, <4>3 DEF Pos
      <3>10. t.remain + 1 <= s.remain
        BY <1>s, <1>u, <2>2, <3>9
      <3>11. LoopReady(t)
        BY <3>9 DEF LoopReady
      <3>12. QED
        BY <3>9, <3>10, <3>11 DEF t
    <2>5. QED
      BY <2>3, <2>4
  <1>3. QED
    BY <1>1, <1>2

LEMMA WriteClustersFact ==
  ASSUME ~SlackIsFree, NEW v \in Tables, NEW c \in Cluster, Sound(v, c),
         NEW size \in Nat, NEW job, job.low \in Nat, NEW end \in 0..MaxSize,
         NEW f, Writes(job, f), NEW s, InCall(s, v, c, size, end, job), LoopReady(s)
  PROVE  LET t == WriteClusters(s, f) IN
         /\ InCall(t, v, c, size, end, job) /\ LoopReady(t)
         /\ t.remain < BytesPerCluster \/ ~t.ok
  <1> DEFINE J(t, k) == /\ InCall(t, v, c, size, end, job) /\ LoopReady(t)
                        /\ t.remain < BytesPerCluster \/ ~t.ok \/ t.remain + k <= end
  <1>0. end \in Nat /\ MaxSize \in Nat /\ BytesPerCluster \in Nat \ {0}
    BY UnitFact
  <1>1. PICK r : /\ r[0] = s /\ WriteClusters(s, f) = r[MaxSize]
                 /\ \A k \in 0..MaxSize : k # 0 => r[k] = WriteCluster(r[k - 1], f)
    BY RepeatWrite
  <1>2. J(r[0], 0)
    BY <1>0, <1>1, InCallFact
  <1>3. ASSUME NEW k \in 0..MaxSize, k # 0, J(r[k - 1], k - 1) PROVE J(r[k], k)
    <2> DEFINE x == r[k - 1]
               y == r[k]
    <2>1. y = WriteCluster(x, f)
      BY <1>1, <1>3
    <2>2. InCall(x, v, c, size, end, job) /\ LoopReady(x)
          /\ (x.remain < BytesPerCluster \/ ~x.ok \/ x.remain + (k - 1) <= end)
      BY <1>3
    <2> HIDE DEF x, y
    <2>3. /\ InCall(y, v, c, size, end, job) /\ LoopReady(y)
          /\ y.remain < BytesPerCluster \/ ~y.ok \/ y.remain + 1 <= x.remain
      BY <1>0, <2>1, <2>2, WriteClusterFact
    <2>4. CASE x.remain < BytesPerCluster \/ ~x.ok
      <3>1. y = x
        BY <2>1, <2>4 DEF WriteCluster
      <3>2. QED
        BY <2>3, <2>4, <3>1 DEF y
    <2>5. CASE x.remain + (k - 1) <= end
      <3>1. x.remain \in Nat /\ y.remain \in Nat /\ k \in Nat
        BY <1>0, <2>2, <2>3, InCallFact
      <3>2. y.remain < BytesPerCluster \/ ~y.ok \/ y.remain + k <= end
        BY <1>0, <2>3, <2>5, <3>1
      <3>3. QED
        BY <2>3, <3>2 DEF y
    <2>6. QED
      BY <2>2, <2>4, <2>5
  <1> HIDE DEF J
  <1>4. \A k \in 0..MaxSize : J(r[k], k)
    <2> DEFINE S == {k \in 0..MaxSize : ~J(r[k], k)}
    <2>1. S = {}
      <3> SUFFICES ASSUME S # {} PROVE FALSE
        OBVIOUS
      <3>1. S \in SUBSET Nat
        BY <1>0
      <3>2. PICK m \in S : \A k \in S : m <= k
        BY <3>1, LeastFact
      <3>3. m \in 0..MaxSize /\ ~J(r[m], m) /\ m # 0
        BY <1>2, <3>2
      <3>4. m - 1 \in 0..MaxSize /\ ~(m <= m - 1)
        BY <1>0, <3>3
      <3>5. J(r[m - 1], m - 1)
        BY <3>2, <3>4
      <3>6. QED
        BY <1>3, <3>3, <3>5
    <2>2. QED
      BY <2>1
  <1> DEFINE t == WriteClusters(s, f)
  <1>5. J(t, MaxSize)
    BY <1>0, <1>1, <1>4
  <1> HIDE DEF t
  <1>6. /\ InCall(t, v, c, size, end, job) /\ LoopReady(t)
        /\ t.remain < BytesPerCluster \/ ~t.ok \/ t.remain + MaxSize <= end
    BY <1>5 DEF J
  <1>7. t.remain \in Nat
    BY <1>0, <1>6, InCallFact
  <1>8. t.remain < BytesPerCluster \/ ~t.ok
    BY <1>0, <1>6, <1>7
  <1>9. QED
    BY <1>6, <1>8 DEF t

(* The sectors left when less than a cluster is, and their number.            *)
LEMMA LastSectorsFact ==
  ASSUME NEW v, NEW c \in Cluster, NEW size \in Nat, NEW job, job.low \in Nat, NEW end \in Nat,
         NEW s, InCall(s, v, c, size, end, job), InCluster(s),
         s.remain < BytesPerCluster \/ ~s.ok
  PROVE  LET n == s.remain \div BytesPerSector
             m == n * BytesPerSector
         IN  /\ n \in Nat /\ m = Run(n) /\ m \in Nat /\ m <= s.remain /\ s.remain - m < BytesPerSector
             /\ n > 0 /\ s.ok => s.pos.byte = 0 /\ s.pos.sector = 0 /\ n < SectorsPerCluster
             /\ ~(n > 0 /\ s.ok) => LastSector(s)
  <1> DEFINE n == s.remain \div BytesPerSector
             m == n * BytesPerSector
  <1>1. s.remain \in Nat /\ BytesPerSector \in Nat \ {0} /\ SectorsPerCluster \in Nat
    BY InCallFact, UnitFact
  <1>2. n \in Nat /\ m = Run(n) /\ Run(n) <= s.remain /\ s.remain < Run(n) + BytesPerSector
    BY <1>1, SectorsInFact
  <1> HIDE DEF n, m
  <1>3. Run(n) \in Nat /\ n <= Run(n) /\ Run(SectorsPerCluster) = BytesPerCluster
    BY <1>2, RunFact
  <1>4. ASSUME n > 0, s.ok PROVE s.pos.byte = 0 /\ s.pos.sector = 0 /\ n < SectorsPerCluster
    <2>1. More(s) /\ s.remain < BytesPerCluster
      BY <1>1, <1>2, <1>3, <1>4 DEF More
    <2>2. Run(1) <= Run(n) /\ Run(1) = BytesPerSector
      BY <1>2, <1>4, RunFact
    <2>3. ~(s.remain < BytesPerSector)
      BY <1>1, <1>2, <1>3, <2>2
    <2>4. s.pos.byte = 0 /\ s.pos.sector = 0
      BY <2>1, <2>3 DEF InCluster
    <2>5. ~(SectorsPerCluster <= n)
      <3> SUFFICES ASSUME SectorsPerCluster <= n PROVE FALSE
        OBVIOUS
      <3>1. Run(SectorsPerCluster) <= Run(n)
        BY <1>1, <1>2, RunFact
      <3>2. QED
        BY <1>1, <1>2, <1>3, <2>1, <3>1, UnitFact
    <2>6. QED
      BY <1>1, <1>2, <2>4, <2>5
  <1>5. ASSUME ~(n > 0 /\ s.ok) PROVE LastSector(s)
    <2> SUFFICES ASSUME More(s)
                 PROVE  s.pos.byte = 0 /\ s.pos.sector < SectorsPerCluster /\ s.remain < BytesPerSector
      BY DEF LastSector
    <2>1. n = 0
      BY <1>2, <1>5 DEF More
    <2>2. Run(n) = 0
      BY <2>1, RunFact
    <2>3. QED
      BY <1>1, <1>2, <2>2 DEF InCluster
  <1>6. QED
    BY <1>1, <1>2, <1>3, <1>4, <1>5 DEF n, m

(* So many sectors on.                                                        *)
LEMMA LastSectorsMove ==
  ASSUME NEW v, NEW c \in Cluster, NEW size \in Nat, NEW job, job.low \in Nat, NEW end \in Nat,
         NEW s, InCall(s, v, c, size, end, job), s.pos.byte = 0, s.pos.sector = 0,
         NEW n \in Nat, n < SectorsPerCluster, NEW m \in Nat, m = Run(n), m <= s.remain,
         s.remain - m < BytesPerSector,
         NEW q, q = Pos(s.pos.cluster, n, 0), NEW t, Moved(s, t, q, m), Transfer(s, t, m, job)
  PROVE  InCall(t, v, c, size, end, job) /\ LastSector(t)
  <1>1. n \in 0..SectorsPerCluster /\ n = s.pos.sector + n
    BY UnitFact
  <1>2. InCall(t, v, c, size, end, job)
    BY <1>1, SectorsMove
  <1>3. t.pos.byte = 0 /\ t.pos.sector = n /\ t.remain = s.remain - m
    <2>1. t.pos = q /\ t.remain = s.remain - m
      BY MovedParts
    <2>2. QED
      BY <2>1 DEF Pos
  <1>4. LastSector(t)
    BY <1>3 DEF LastSector
  <1>5. QED
    BY <1>2, <1>4

(* The rest, in a sector.                                                     *)
LEMMA RestMoves ==
  ASSUME NEW v, NEW c \in Cluster, NEW size \in Nat, NEW job, job.low \in Nat, NEW end \in Nat,
         NEW s, InCall(s, v, c, size, end, job), LastSector(s), More(s),
         NEW q, q = Pos(s.pos.cluster, s.pos.sector, s.remain),
         NEW t, Moved(s, t, q, s.remain), Transfer(s, t, s.remain, job)
  PROVE  InCall(t, v, c, size, end, job) /\ t.remain = 0
  <1> DEFINE n == s.remain
             x == s.at + n
             p == s.pos
  <1>1. /\ p.byte = 0 /\ p.sector < SectorsPerCluster /\ n < BytesPerSector
    BY DEF LastSector
  <1>2. s.vol \in Tables /\ Sound(s.vol, c) /\ IsAt(s.vol, c, p, s.at) /\ n \in Nat
        /\ p = Pos(p.cluster, p.sector, p.byte)
    BY InCallFact
  <1>3. q = ByteOn(p, n)
    <2>1. ~(p.byte + n >= BytesPerSector)
      BY <1>1, <1>2, UnitFact
    <2>2. ByteOn(p, n) = [p EXCEPT !.byte = p.byte + n]
      BY <2>1 DEF ByteOn
    <2>3. p.byte + n = n
      BY <1>1, <1>2
    <2>4. QED
      BY <1>2, <2>2, <2>3 DEF Pos
  <1>4. p.byte + n <= BytesPerSector
    BY <1>1, <1>2, UnitFact
  <1>f. Run(s.pos.sector) + s.pos.byte + n <= BytesPerCluster
    <2>1. p.sector \in 0..SectorsPerCluster
      BY InCallFact
    <2>2. Run(p.sector) \in Nat /\ Run(p.sector) + BytesPerSector <= BytesPerCluster
      BY <1>1, <2>1, SectorFits
    <2>3. QED
      BY <1>1, <1>2, <1>4, <2>2, UnitFact
  <1>5. x = s.at + n /\ n <= s.remain /\ Moved(s, t, q, n) /\ Transfer(s, t, n, job)
        /\ s.remain - n = 0
    BY <1>2
  <1>6. \E d, i, b : p = Pos(d, i, b)
    BY <1>2
  <1> HIDE DEF p
  <1>7. IsAt(s.vol, c, q, x)
    BY <1>1, <1>2, <1>3, <1>4, <1>6, ByteOnFact
  <1>8. q = Pos(q.cluster, q.sector, q.byte)
    BY DEF Pos
  <1> HIDE DEF n, x
  <1>9. InCall(t, v, c, size, end, job)
    BY <1>2, <1>5, <1>7, <1>8, <1>f, MovedFact
  <1>10. t.remain = s.remain - n
    BY <1>5, MovedParts
  <1>11. QED
    BY <1>5, <1>9, <1>10

LEMMA WriteSectorsFact ==
  ASSUME NEW v, NEW c \in Cluster, NEW size \in Nat, NEW job, job.low \in Nat, NEW end \in Nat,
         NEW f, Writes(job, f), NEW s, InCall(s, v, c, size, end, job), InCluster(s),
         s.remain < BytesPerCluster \/ ~s.ok
  PROVE  LET t == WriteSectors(s, f) IN InCall(t, v, c, size, end, job) /\ LastSector(t)
  <1> DEFINE t == WriteSectors(s, f)
             n == s.remain \div BytesPerSector
             m == n * BytesPerSector
             p == Pos(s.pos.cluster, 0, 0)
             y == Put(s, f, p, m, TRUE)
             q == Pos(s.pos.cluster, n, 0)
  <1>1. /\ n \in Nat /\ m = Run(n) /\ m \in Nat /\ m <= s.remain /\ s.remain - m < BytesPerSector
        /\ n > 0 /\ s.ok => s.pos.byte = 0 /\ s.pos.sector = 0 /\ n < SectorsPerCluster
        /\ ~(n > 0 /\ s.ok) => LastSector(s)
    BY LastSectorsFact
  <1>2. CallState(s) /\ s.pos = Pos(s.pos.cluster, s.pos.sector, s.pos.byte)
    BY InCallFact
  <1>3. CASE n > 0 /\ s.ok
    <2>1. t = [y EXCEPT !.pos = SectorOn(y.pos, n)]
      BY <1>3 DEF WriteSectors
    <2>p. p = s.pos
      BY <1>1, <1>2, <1>3
    <2> HIDE DEF n, m, p
    <2>2. SectorOn(s.pos, n) = q
      BY <1>1, <1>2, <1>3 DEF SectorOn, Pos
    <2> HIDE DEF q, t
    <2>3. y.pos = s.pos /\ Moved(s, [y EXCEPT !.pos = q], q, m)
      BY <1>2, PutKeepingMoves
    <2>y. y = Put(s, f, p, m, TRUE)
      OBVIOUS
    <2> HIDE DEF y
    <2>t. t = [y EXCEPT !.pos = q]
      BY <2>1, <2>2, <2>3
    <2>4. Moved(s, t, q, m) /\ Transfer(s, t, m, job)
      <3>1. t = [Put(s, f, p, m, TRUE) EXCEPT !.pos = q]
        BY <2>t, <2>y
      <3>2. Transfer(s, t, m, job)
        BY <1>1, <2>p, <3>1, PutKeepingTransfers
      <3>3. QED
        BY <2>3, <2>t, <3>2
    <2>5. q = Pos(s.pos.cluster, n, 0)
      BY DEF q
    <2>6. InCall(t, v, c, size, end, job) /\ LastSector(t)
      BY <1>1, <1>3, <2>4, <2>5, LastSectorsMove
    <2>7. QED
      BY <2>6 DEF t
  <1>4. CASE ~(n > 0 /\ s.ok)
    <2>1. t = s
      BY <1>4 DEF WriteSectors
    <2>2. QED
      BY <1>1, <1>4, <2>1
  <1>5. QED
    BY <1>3, <1>4

LEMMA WriteRestFact ==
  ASSUME NEW v, NEW c \in Cluster, NEW size \in Nat, NEW job, job.low \in Nat,
         NEW end \in Nat, NEW f, Writes(job, f), NEW appending, appending => job.kind = "append",
         NEW s, InCall(s, v, c, size, end, job), LastSector(s)
  PROVE  LET t == WriteRest(s, f, appending) IN
         InCall(t, v, c, size, end, job) /\ (t.remain = 0 \/ ~t.ok)
  <1> DEFINE t == WriteRest(s, f, appending)
             n == s.remain
             p == [s.pos EXCEPT !.byte = 0]
             keep == ~appending
             y == Put(s, f, p, n, keep)
             q == Pos(s.pos.cluster, s.pos.sector, s.remain)
  <1>1. CallState(s) /\ s.pos = Pos(s.pos.cluster, s.pos.sector, s.pos.byte) /\ n \in Nat
    BY InCallFact
  <1>2. CASE n > 0 /\ s.ok
    <2>1. t = [y EXCEPT !.pos.byte = y.pos.byte + n]
      BY <1>2 DEF WriteRest
    <2>2. More(s) /\ s.pos.byte = 0 /\ s.pos.sector < SectorsPerCluster
      BY <1>2 DEF More, LastSector
    <2>p. p = s.pos /\ (keep \/ (job.kind = "append" /\ n = s.remain))
      BY <1>1, <2>2 DEF Pos
    <2>3. q = [s.pos EXCEPT !.byte = s.pos.byte + n]
      <3>1. s.pos.byte + n = n
        BY <1>1, <2>2
      <3>2. [s.pos EXCEPT !.byte = n] = Pos(s.pos.cluster, s.pos.sector, n)
        BY <1>1 DEF Pos
      <3>3. QED
        BY <3>1, <3>2
    <2> HIDE DEF n, p, keep, q, t
    <2>4. y.pos = s.pos /\ Moved(s, [y EXCEPT !.pos = q], q, n)
      BY <1>1, PutMoves
    <2>y. y = Put(s, f, p, n, keep)
      OBVIOUS
    <2> HIDE DEF y
    <2>5. t = [y EXCEPT !.pos = q]
      BY <2>1, <2>3, <2>4
    <2>t. Transfer(s, t, n, job)
      <3>1. t = [Put(s, f, p, n, keep) EXCEPT !.pos = q]
        BY <2>5, <2>y
      <3>2. QED
        BY <1>1, <2>2, <2>p, <3>1, PutTransfers
    <2>6. Moved(s, t, q, s.remain) /\ q = Pos(s.pos.cluster, s.pos.sector, s.remain)
          /\ Transfer(s, t, s.remain, job)
      BY <2>4, <2>5, <2>t DEF n, q
    <2>7. InCall(t, v, c, size, end, job) /\ t.remain = 0
      BY <2>2, <2>6, RestMoves
    <2>8. QED
      BY <2>7 DEF t
  <1>3. CASE ~(n > 0 /\ s.ok)
    <2>1. t = s /\ (s.remain = 0 \/ ~s.ok)
      BY <1>1, <1>3 DEF WriteRest
    <2>2. QED
      BY <2>1
  <1>4. QED
    BY <1>2, <1>3

(* A write goes on to its last byte, or to where it found no cluster.         *)
LEMMA WrittenFact ==
  ASSUME ~SlackIsFree, NEW v \in Tables, NEW c \in Cluster, Sound(v, c),
         NEW size \in Nat, NEW job, job.low \in Nat, NEW end \in 0..MaxSize,
         NEW f, Writes(job, f), NEW appending, appending => job.kind = "append",
         NEW s, InCall(s, v, c, size, end, job), s.remain > 0
  PROVE  LET t == Written(s, f, appending) IN
         InCall(t, v, c, size, end, job) /\ (t.remain = 0 \/ ~t.ok)
  <1> DEFINE s1 == CheckPosition(s)
             s2 == WriteToSectorEnd(s1, f)
             s3 == WriteToClusterEnd(s2, f)
             s4 == WriteClusters(s3, f)
             s5 == CheckPosition(s4)
             s6 == WriteSectors(s5, f)
             s7 == WriteRest(s6, f, appending)
  <1>0. end \in Nat /\ SectorsPerCluster \in Nat \ {0} /\ BytesPerSector <= BytesPerCluster
        /\ BytesPerSector \in Nat /\ BytesPerCluster \in Nat
    BY UnitFact
  <1>1. Written(s, f, appending) = s7
    BY DEF Written, WriteClusters
  <1>2. /\ InCall(s1, v, c, size, end, job) /\ s1.remain = s.remain
        /\ s1.ok /\ s1.remain > 0 => s1.pos.sector < SectorsPerCluster
    BY <1>0, CheckFact
  <1> HIDE DEF s1
  <1>3. InCall(s2, v, c, size, end, job) /\ AtSector(s2)
    <2>1. s1.remain > 0 /\ (s1.ok => s1.pos.sector < SectorsPerCluster)
      BY <1>2
    <2>2. QED
      BY <1>0, <1>2, <2>1, WriteToSectorEndFact
  <1> HIDE DEF s2
  <1>4. InCall(s3, v, c, size, end, job) /\ LoopReady(s3)
    BY <1>0, <1>3, WriteToClusterEndFact
  <1> HIDE DEF s3
  <1>5. InCall(s4, v, c, size, end, job) /\ LoopReady(s4) /\ (s4.remain < BytesPerCluster \/ ~s4.ok)
    BY <1>4, WriteClustersFact
  <1> HIDE DEF s4
  <1>6. /\ InCall(s5, v, c, size, end, job)
        /\ s5.remain = s4.remain /\ s5.pos.byte = s4.pos.byte
        /\ s5.pos.sector = s4.pos.sector
              \/ (s4.pos.sector = SectorsPerCluster /\ s5.pos.sector = 0)
        /\ s5.ok => s4.ok
        /\ s5.ok /\ s5.remain > 0 => s5.pos.sector < SectorsPerCluster
    BY <1>0, <1>5, CheckFact
  <1> HIDE DEF s5
  <1>7. InCluster(s5) /\ (s5.remain < BytesPerCluster \/ ~s5.ok)
    <2>1. s5.remain < BytesPerCluster \/ ~s5.ok
      BY <1>5, <1>6
    <2>2. ASSUME More(s5)
          PROVE  /\ s5.pos.byte = 0 /\ s5.pos.sector < SectorsPerCluster
                 /\ s5.pos.sector = 0 \/ s5.remain < BytesPerSector
      <3>1. More(s4) /\ s5.pos.sector < SectorsPerCluster
        BY <1>6, <2>2 DEF More
      <3>2. /\ s4.pos.byte = 0
            /\ \/ s4.pos.sector = SectorsPerCluster
               \/ s4.pos.sector = 0 /\ s4.remain >= BytesPerCluster
               \/ s4.remain < BytesPerSector
        BY <1>5, <3>1 DEF LoopReady
      <3>3. s5.pos.sector # SectorsPerCluster
        BY <1>0, <3>1
      <3>4. QED
        BY <1>6, <3>1, <3>2, <3>3
    <2>3. QED
      BY <2>1, <2>2 DEF InCluster
  <1>8. InCall(s6, v, c, size, end, job) /\ LastSector(s6)
    BY <1>0, <1>6, <1>7, WriteSectorsFact
  <1> HIDE DEF s6
  <1>9. InCall(s7, v, c, size, end, job) /\ (s7.remain = 0 \/ ~s7.ok)
    BY <1>0, <1>8, WriteRestFact
  <1>10. QED
    BY <1>1, <1>9

(* file_extend.                                                               *)
LEMMA ZeroToSectorEndFact ==
  ASSUME NEW v, NEW c \in Cluster, NEW size \in Nat, NEW job, job.low \in Nat, NEW end \in Nat,
         Zeroes(job), NEW s, InCall(s, v, c, size, end, job), s.pos.sector < SectorsPerCluster
  PROVE  LET t == ZeroToSectorEnd(s) IN InCall(t, v, c, size, end, job) /\ AtSector(t)
  <1> DEFINE t == ZeroToSectorEnd(s)
             n == InSector(s)
             p == s.pos
             y == PutZeros(s, p, n)
             q == ByteOn(s.pos, n)
  <1>1. CASE s.pos.byte > 0 \/ s.remain < BytesPerSector
    <2>1. t = [y EXCEPT !.pos = ByteOn(y.pos, n)]
      BY <1>1 DEF ZeroToSectorEnd
    <2>2. CallState(s)
      BY DEF InCall
    <2>n. n \in Nat /\ p = s.pos
      BY InSectorFact
    <2> HIDE DEF n, p
    <2>3. y.pos = s.pos
      BY <2>2, PutZerosMoves
    <2>4. t = [y EXCEPT !.pos = q]
      BY <2>1, <2>3
    <2> HIDE DEF q
    <2>5. Moved(s, [y EXCEPT !.pos = q], q, n)
      BY <2>2, PutZerosMoves
    <2>t. Transfer(s, t, n, job)
      <3> HIDE DEF t
      <3>1. QED
        BY <2>4, <2>n, PutZerosTransfers
    <2> HIDE DEF t, y
    <2>6. Moved(s, t, ByteOn(s.pos, InSector(s)), InSector(s)) /\ Transfer(s, t, InSector(s), job)
      BY <2>4, <2>5, <2>t DEF q, n
    <2>7. InCall(t, v, c, size, end, job) /\ AtSector(t)
      BY <2>6, ToSectorEnd
    <2>8. QED
      BY <2>7 DEF t
  <1>2. CASE ~(s.pos.byte > 0 \/ s.remain < BytesPerSector)
    <2>1. t = s
      BY <1>2 DEF ZeroToSectorEnd
    <2>2. s.pos.byte \in 0..BytesPerSector - 1
      BY InCallFact
    <2>3. AtSector(s)
      BY <1>2, <2>2 DEF AtSector
    <2>4. QED
      BY <2>1, <2>3
  <1>3. QED
    BY <1>1, <1>2

LEMMA ZeroSectorFact ==
  ASSUME ~SlackIsFree, NEW v \in Tables, NEW c \in Cluster, Sound(v, c),
         NEW size \in Nat, NEW job, job.low \in Nat, Zeroes(job),
         NEW end \in Nat, NEW s, InCall(s, v, c, size, end, job), AtSector(s)
  PROVE  LET t == ZeroSector(s) IN
         /\ InCall(t, v, c, size, end, job) /\ AtSector(t)
         /\ t.remain < BytesPerSector \/ ~t.ok \/ t.remain + 1 <= s.remain
  <1> DEFINE t == ZeroSector(s)
  <1>u. SectorsPerCluster \in Nat \ {0} /\ BytesPerSector \in Nat \ {0} /\ Run(1) = BytesPerSector
    BY UnitFact, RunFact
  <1>s. s.remain \in Nat
    BY InCallFact
  <1>1. CASE s.remain < BytesPerSector \/ ~s.ok
    <2>1. t = s
      BY <1>1 DEF ZeroSector
    <2>2. QED
      BY <1>1, <2>1
  <1>2. CASE ~(s.remain < BytesPerSector \/ ~s.ok)
    <2> DEFINE x == CheckPosition(s)
    <2>1. t = PutZeroSector(x)
      BY <1>2 DEF ZeroSector
    <2>2. /\ InCall(x, v, c, size, end, job)
          /\ x.remain = s.remain /\ x.pos.byte = s.pos.byte
          /\ x.ok /\ x.remain > 0 => x.pos.sector < SectorsPerCluster
      BY CheckFact
    <2> HIDE DEF x, t
    <2>3. CASE ~x.ok
      <3>1. t = x
        BY <2>1, <2>3 DEF PutZeroSector
      <3>2. QED
        BY <2>2, <2>3, <3>1 DEF AtSector, More, t
    <2>4. CASE x.ok
      <3>1. x.pos.sector < SectorsPerCluster /\ x.pos.byte = 0
        <4>1. More(s)
          BY <1>2, <1>s, <1>u DEF More
        <4>2. QED
          BY <2>2, <2>4, <4>1 DEF AtSector, More
      <3>2. CallState(x) /\ x.pos = Pos(x.pos.cluster, x.pos.sector, x.pos.byte)
            /\ x.pos.sector \in 0..SectorsPerCluster
        BY <2>2, InCallFact
      <3> DEFINE p == x.pos
                 m == BytesPerSector
                 y == PutZeros(x, p, m)
                 i == x.pos.sector + 1
                 q == Pos(x.pos.cluster, i, 0)
      <3>3. t = [y EXCEPT !.pos = SectorOn(y.pos, 1)]
        BY <2>1, <2>4 DEF PutZeroSector
      <3>4. q = SectorOn(x.pos, 1)
        BY <3>1, <3>2 DEF Pos, SectorOn
      <3>i. i \in 0..SectorsPerCluster
        BY <1>u, <3>1, <3>2
      <3>p. p = x.pos /\ m \in Nat
        BY <1>u
      <3> HIDE DEF p, m, q
      <3>5. y.pos = x.pos /\ Moved(x, [y EXCEPT !.pos = q], q, m)
        BY <3>2, PutZerosMoves
      <3>y. y = PutZeros(x, p, m)
        OBVIOUS
      <3> HIDE DEF y
      <3>6. t = [y EXCEPT !.pos = q]
        BY <3>3, <3>4, <3>5
      <3>7. Moved(x, t, q, m) /\ Transfer(x, t, m, job)
        <4>1. t = [PutZeros(x, p, m) EXCEPT !.pos = q]
          BY <3>6, <3>y
        <4>2. Transfer(x, t, m, job)
          BY <2>2, <3>p, <4>1, PutZerosTransfers
        <4>3. QED
          BY <3>5, <3>6, <4>2
      <3> DEFINE one == 1
      <3>8. one \in Nat /\ m = Run(one) /\ m <= x.remain /\ i = x.pos.sector + one
            /\ q = Pos(x.pos.cluster, i, 0)
        BY <1>u, <1>2, <1>s, <2>2 DEF m, q
      <3> HIDE DEF one, i
      <3>9. InCall(t, v, c, size, end, job)
        BY <2>2, <3>1, <3>i, <3>7, <3>8, SectorsMove
      <3>10. t.pos.byte = 0 /\ t.remain = x.remain - m
        <4>1. t.pos = q /\ t.remain = x.remain - m
          BY <3>7, MovedParts
        <4>2. QED
          BY <3>8, <4>1 DEF Pos
      <3>11. t.remain + 1 <= s.remain
        BY <1>s, <1>u, <2>2, <3>10 DEF m
      <3>12. AtSector(t)
        BY <3>10 DEF AtSector
      <3>13. QED
        BY <3>9, <3>11, <3>12 DEF t
    <2>5. QED
      BY <2>3, <2>4
  <1>3. QED
    BY <1>1, <1>2

LEMMA ZeroSectorsFact ==
  ASSUME ~SlackIsFree, NEW v \in Tables, NEW c \in Cluster, Sound(v, c),
         NEW size \in Nat, NEW job, job.low \in Nat, Zeroes(job),
         NEW end \in 0..MaxSize, NEW s, InCall(s, v, c, size, end, job), AtSector(s)
  PROVE  LET t == ZeroSectors(s) IN
         /\ InCall(t, v, c, size, end, job) /\ AtSector(t)
         /\ t.remain < BytesPerSector \/ ~t.ok
  <1> DEFINE J(t, k) == /\ InCall(t, v, c, size, end, job) /\ AtSector(t)
                        /\ t.remain < BytesPerSector \/ ~t.ok \/ t.remain + k <= end
  <1>0. end \in Nat /\ MaxSize \in Nat /\ BytesPerSector \in Nat \ {0}
    BY UnitFact
  <1>1. PICK r : /\ r[0] = s /\ ZeroSectors(s) = r[MaxSize]
                 /\ \A k \in 0..MaxSize : k # 0 => r[k] = ZeroSector(r[k - 1])
    BY RepeatZero
  <1>2. J(r[0], 0)
    BY <1>0, <1>1, InCallFact
  <1>3. ASSUME NEW k \in 0..MaxSize, k # 0, J(r[k - 1], k - 1) PROVE J(r[k], k)
    <2> DEFINE x == r[k - 1]
               y == r[k]
    <2>1. y = ZeroSector(x)
      BY <1>1, <1>3
    <2>2. InCall(x, v, c, size, end, job) /\ AtSector(x)
          /\ (x.remain < BytesPerSector \/ ~x.ok \/ x.remain + (k - 1) <= end)
      BY <1>3
    <2> HIDE DEF x, y
    <2>3. /\ InCall(y, v, c, size, end, job) /\ AtSector(y)
          /\ y.remain < BytesPerSector \/ ~y.ok \/ y.remain + 1 <= x.remain
      BY <1>0, <2>1, <2>2, ZeroSectorFact
    <2>4. CASE x.remain < BytesPerSector \/ ~x.ok
      <3>1. y = x
        BY <2>1, <2>4 DEF ZeroSector
      <3>2. QED
        BY <2>3, <2>4, <3>1 DEF y
    <2>5. CASE x.remain + (k - 1) <= end
      <3>1. x.remain \in Nat /\ y.remain \in Nat /\ k \in Nat
        BY <1>0, <2>2, <2>3, InCallFact
      <3>2. y.remain < BytesPerSector \/ ~y.ok \/ y.remain + k <= end
        BY <1>0, <2>3, <2>5, <3>1
      <3>3. QED
        BY <2>3, <3>2 DEF y
    <2>6. QED
      BY <2>2, <2>4, <2>5
  <1> HIDE DEF J
  <1>4. \A k \in 0..MaxSize : J(r[k], k)
    <2> DEFINE S == {k \in 0..MaxSize : ~J(r[k], k)}
    <2>1. S = {}
      <3> SUFFICES ASSUME S # {} PROVE FALSE
        OBVIOUS
      <3>1. S \in SUBSET Nat
        BY <1>0
      <3>2. PICK m \in S : \A k \in S : m <= k
        BY <3>1, LeastFact
      <3>3. m \in 0..MaxSize /\ ~J(r[m], m) /\ m # 0
        BY <1>2, <3>2
      <3>4. m - 1 \in 0..MaxSize /\ ~(m <= m - 1)
        BY <1>0, <3>3
      <3>5. J(r[m - 1], m - 1)
        BY <3>2, <3>4
      <3>6. QED
        BY <1>3, <3>3, <3>5
    <2>2. QED
      BY <2>1
  <1> DEFINE t == ZeroSectors(s)
  <1>5. J(t, MaxSize)
    BY <1>0, <1>1, <1>4
  <1> HIDE DEF t
  <1>6. /\ InCall(t, v, c, size, end, job) /\ AtSector(t)
        /\ t.remain < BytesPerSector \/ ~t.ok \/ t.remain + MaxSize <= end
    BY <1>5 DEF J
  <1>7. t.remain \in Nat
    BY <1>0, <1>6, InCallFact
  <1>8. t.remain < BytesPerSector \/ ~t.ok
    BY <1>0, <1>6, <1>7
  <1>9. QED
    BY <1>6, <1>8 DEF t

LEMMA ZeroRestFact ==
  ASSUME NEW v, NEW c \in Cluster, NEW size \in Nat, NEW job, job.low \in Nat, NEW end \in Nat,
         Zeroes(job), NEW s, InCall(s, v, c, size, end, job), LastSector(s)
  PROVE  LET t == ZeroRest(s) IN InCall(t, v, c, size, end, job) /\ (t.remain = 0 \/ ~t.ok)
  <1> DEFINE t == ZeroRest(s)
             n == s.remain
             p == [s.pos EXCEPT !.byte = 0]
             y == PutZeros(s, p, n)
             q == Pos(s.pos.cluster, s.pos.sector, s.remain)
  <1>1. CallState(s) /\ s.pos = Pos(s.pos.cluster, s.pos.sector, s.pos.byte) /\ n \in Nat
    BY InCallFact
  <1>2. CASE ~(n = 0 \/ ~s.ok)
    <2>1. t = [y EXCEPT !.pos.byte = n]
      BY <1>2 DEF ZeroRest
    <2>2. More(s)
      BY <1>1, <1>2 DEF More
    <2>3. q = [s.pos EXCEPT !.byte = n]
      BY <1>1 DEF Pos
    <2>p. p = s.pos
      BY <1>1, <2>2 DEF LastSector, Pos
    <2> HIDE DEF n, p, q, t
    <2>4. y.pos = s.pos /\ Moved(s, [y EXCEPT !.pos = q], q, n)
      BY <1>1, PutZerosMoves
    <2>y. y = PutZeros(s, p, n)
      OBVIOUS
    <2> HIDE DEF y
    <2>5. t = [y EXCEPT !.pos = q]
      BY <2>1, <2>3, <2>4
    <2>t. Transfer(s, t, n, job)
      <3>1. t = [PutZeros(s, p, n) EXCEPT !.pos = q]
        BY <2>5, <2>y
      <3>2. QED
        BY <1>1, <2>p, <3>1, PutZerosTransfers
    <2>6. Moved(s, t, q, s.remain) /\ q = Pos(s.pos.cluster, s.pos.sector, s.remain)
          /\ Transfer(s, t, s.remain, job)
      BY <2>4, <2>5, <2>t DEF n, q
    <2>7. InCall(t, v, c, size, end, job) /\ t.remain = 0
      BY <2>2, <2>6, RestMoves
    <2>8. QED
      BY <2>7 DEF t
  <1>3. CASE n = 0 \/ ~s.ok
    <2>1. t = s
      BY <1>3 DEF ZeroRest
    <2>2. QED
      BY <1>3, <2>1
  <1>4. QED
    BY <1>2, <1>3

(* A table whose chain from c on is as long as "size" bytes need, or has the  *)
(* first cluster of a file that is empty.                                     *)
Fits(v, c, size) ==
    /\ size <= Span(Size(v, c))
    /\ Span(Size(v, c) - 1) < size \/ (size = 0 /\ Size(v, c) = 1)

(* What starts to transfer where the file is.                                 *)
LEMMA EmptyFact ==
  ASSUME NEW b
  PROVE  [i \in 1..0 |-> b[i]] = <<>>
  <1>1. <<>> \in Seq({}) /\ Len(<<>>) = 0
    BY EmptySeq
  <1>2. DOMAIN <<>> = 1..0 /\ <<>> = [i \in 1..0 |-> <<>>[i]]
    BY <1>1, LenProperties
  <1>3. 1..0 = {}
    OBVIOUS
  <1>4. QED
    BY <1>2, <1>3

LEMMA CallStarts ==
  ASSUME NEW v \in Tables, Counted(v), NEW c \in Cluster, Sound(v, c), NEW size \in Nat,
         Fits(v, c, size), NEW p, p = Pos(p.cluster, p.sector, p.byte), NEW x \in Nat,
         IsAt(v, c, p, x), NEW n \in Nat \ {0}, NEW d, NEW g, NEW end, end = x + n,
         NEW job, job.low = x, job.data = d, job.kind = "read" => g = <<>>
  PROVE  LET s == [pos |-> p, remain |-> n, at |-> x, ok |-> TRUE, vol |-> v, data |-> d, got |-> g]
         IN  InCall(s, v, c, size, end, job) /\ s.remain > 0
  <1> DEFINE s == [pos |-> p, remain |-> n, at |-> x, ok |-> TRUE, vol |-> v, data |-> d, got |-> g]
  <1>1. s.pos = p /\ s.remain = n /\ s.at = x /\ s.ok = TRUE /\ s.vol = v /\ s.data = d /\ s.got = g
    OBVIOUS
  <1>2. s = [pos |-> s.pos, remain |-> s.remain, at |-> s.at, ok |-> s.ok,
             vol |-> s.vol, data |-> s.data, got |-> s.got]
    OBVIOUS
  <1> HIDE DEF s
  <1>3. CallState(s)
    BY <1>1, <1>2 DEF CallState
  <1>4. Grown(v, s.vol, c)
    BY <1>1, NotGrown
  <1>5. Needed(s, c, size)
    <2>1. CASE Span(Size(v, c) - 1) < size
      BY <1>1, <2>1 DEF Needed
    <2>2. CASE size = 0 /\ Size(v, c) = 1
      <3>1. Size(v, c) - 1 = 0 /\ Span(0) = 0
        BY <2>2, SpanFact
      <3>2. Span(Size(s.vol, c) - 1) = 0
        BY <1>1, <3>1
      <3>3. QED
        BY <1>1, <3>2 DEF Needed
    <2>3. QED
      BY <2>1, <2>2 DEF Fits
  <1>6. s.remain \in Nat /\ s.at \in Nat /\ s.at + s.remain = end /\ s.ok \in BOOLEAN /\ s.remain > 0
    <2>1. s.remain \in Nat /\ s.at \in Nat /\ s.remain > 0
      BY <1>1
    <2>2. s.at + s.remain = end
      BY <1>1
    <2>3. s.ok \in BOOLEAN
      BY <1>1
    <2>4. QED
      BY <2>1, <2>2, <2>3
  <1>7. IsAt(s.vol, c, s.pos, s.at) /\ (end <= Span(Room(v, c)) => s.ok)
    BY <1>1
  <1>c. Carried(s, c, end, job)
    <2>1. CASE job.kind = "read"
      <3> DEFINE b == [i \in Nat |-> job.data[Spot(s.vol, c, job.low + i - 1)]]
      <3>1. s.got = <<>> /\ s.data = job.data /\ s.at - job.low = 0
        BY <1>1, <2>1
      <3>2. [i \in 1..0 |-> job.data[Spot(s.vol, c, job.low + i - 1)]] = [i \in 1..0 |-> b[i]]
        OBVIOUS
      <3> HIDE DEF b
      <3>3. s.got = [i \in 1..0 |-> job.data[Spot(s.vol, c, job.low + i - 1)]]
        BY <3>1, <3>2, EmptyFact
      <3>4. QED
        BY <2>1, <3>1, <3>3 DEF Carried
    <2>2. CASE job.kind # "read"
      <3>1. s.data = job.data /\ \A y \in Nat : ~(job.low <= y /\ y < s.at)
        BY <1>1
      <3>2. QED
        BY <2>2, <3>1 DEF Carried
    <2>3. QED
      BY <2>1, <2>2
  <1>8. InCall(s, v, c, size, end, job)
    <2>1. job.low <= s.at
      BY <1>1
    <2>2. ~s.ok => FreeClusters(s.vol) = {}
      BY <1>1
    <2>3. QED
      BY <1>3, <1>4, <1>5, <1>6, <1>7, <1>c, <2>1, <2>2 DEF InCall
  <1>9. QED
    BY <1>6, <1>8 DEF s

LEMMA ExtendedFact ==
  ASSUME ~SlackIsFree, NEW v \in Tables, Counted(v), NEW c \in Cluster, Sound(v, c),
         NEW size \in Nat, Fits(v, c, size), NEW to \in 0..MaxSize, size < to,
         NEW job, job.low = size, job.data = data, Zeroes(job)
  PROVE  LET t == Extended(v, c, size, to) IN
         InCall(t, v, c, size, to, job) /\ (t.remain = 0 \/ ~t.ok)
  <1> DEFINE s0 == [pos |-> EndPosition(v, c, size), remain |-> to - size, at |-> size, ok |-> TRUE,
                    vol |-> v, data |-> data, got |-> <<>>]
             s1 == CheckPosition(s0)
             s2 == ZeroToSectorEnd(s1)
             s3 == ZeroSectors(s2)
             s4 == CheckPosition(s3)
             s5 == ZeroRest(s4)
  <1>0. to \in Nat /\ MaxSize \in Nat /\ job.low \in Nat
    BY UnitFact
  <1>1. Extended(v, c, size, to) = IF s1.ok THEN s5 ELSE s1
    BY DEF Extended, ZeroFrom, ZeroSectors
  <1>2. InCall(s0, v, c, size, to, job) /\ s0.remain > 0
    <2> DEFINE p == EndPosition(v, c, size)
               n == to - size
    <2>1. IsAt(v, c, p, size) /\ \E d, i, b : p = Pos(d, i, b)
      BY EndFact DEF Fits
    <2>2. p = Pos(p.cluster, p.sector, p.byte)
      BY <2>1 DEF Pos
    <2>3. n \in Nat \ {0} /\ to = size + n
      BY <1>0
    <2> HIDE DEF p, n
    <2>4. job.kind # "read"
      BY DEF Zeroes
    <2>5. QED
      BY <2>1, <2>2, <2>3, <2>4, CallStarts DEF p, n
  <1> HIDE DEF s0
  <1>3. /\ InCall(s1, v, c, size, to, job) /\ s1.remain = s0.remain
        /\ s1.ok /\ s1.remain > 0 => s1.pos.sector < SectorsPerCluster
    BY <1>0, <1>2, CheckFact
  <1> HIDE DEF s1
  <1>4. CASE ~s1.ok
    BY <1>1, <1>3, <1>4
  <1>5. CASE s1.ok
    <2>1. InCall(s2, v, c, size, to, job) /\ AtSector(s2)
      <3>1. s1.pos.sector < SectorsPerCluster
        BY <1>2, <1>3, <1>5
      <3>2. QED
        BY <1>0, <1>3, <3>1, ZeroToSectorEndFact
    <2> HIDE DEF s2
    <2>2. InCall(s3, v, c, size, to, job) /\ AtSector(s3) /\ (s3.remain < BytesPerSector \/ ~s3.ok)
      BY <1>0, <2>1, ZeroSectorsFact
    <2> HIDE DEF s3
    <2>3. /\ InCall(s4, v, c, size, to, job)
          /\ s4.remain = s3.remain /\ s4.pos.byte = s3.pos.byte
          /\ s4.ok => s3.ok
          /\ s4.ok /\ s4.remain > 0 => s4.pos.sector < SectorsPerCluster
      BY <1>0, <2>2, CheckFact
    <2> HIDE DEF s4
    <2>4. LastSector(s4)
      BY <2>2, <2>3 DEF LastSector, AtSector, More
    <2>5. InCall(s5, v, c, size, to, job) /\ (s5.remain = 0 \/ ~s5.ok)
      BY <1>0, <2>3, <2>4, ZeroRestFact
    <2>6. QED
      BY <1>1, <1>5, <2>5
  <1>6. QED
    BY <1>4, <1>5

(* _FAT_read.                                                                 *)
LEMMA ReadToSectorEndFact ==
  ASSUME NEW v, NEW c \in Cluster, NEW size \in Nat, NEW job, job.low \in Nat, NEW end \in Nat,
         job.kind = "read", NEW s, InCall(s, v, c, size, end, job), s.pos.sector < SectorsPerCluster
  PROVE  LET t == ReadToSectorEnd(s) IN
         InCall(t, v, c, size, end, job) /\ AtSector(t) /\ t.vol = s.vol /\ t.ok = s.ok
  <1> DEFINE t == ReadToSectorEnd(s)
             n == InSector(s)
  <1>1. CASE n < BytesPerSector
    <2> DEFINE y == Get(s, s.pos, n)
    <2>1. t = [y EXCEPT !.pos = ByteOn(y.pos, n)]
      BY <1>1 DEF ReadToSectorEnd
    <2>2. CallState(s)
      BY DEF InCall
    <2> DEFINE p == s.pos
               q == ByteOn(s.pos, n)
    <2> HIDE DEF n, p, q
    <2>3. Get(s, p, n).pos = s.pos /\ Moved(s, [Get(s, p, n) EXCEPT !.pos = q], q, n)
      BY <2>2, GetMoves
    <2>4. t = [Get(s, p, n) EXCEPT !.pos = q]
      BY <2>1, <2>3 DEF q, p
    <2> HIDE DEF t, y
    <2>t. Transfer(s, t, n, job)
      <3>1. p = s.pos
        BY DEF p
      <3>2. QED
        BY <2>2, <2>4, <3>1, GetTransfers
    <2>5. Moved(s, t, ByteOn(s.pos, InSector(s)), InSector(s)) /\ Transfer(s, t, InSector(s), job)
      BY <2>3, <2>4, <2>t DEF n, q
    <2>6. InCall(t, v, c, size, end, job) /\ AtSector(t) /\ t.vol = s.vol /\ t.ok = s.ok
      BY ONLY <2>5, InCall(s, v, c, size, end, job),
         c \in Cluster, size \in Nat, job.low \in Nat, end \in Nat,
         s.pos.sector < SectorsPerCluster, ToSectorEnd
    <2>7. QED
      BY <2>6 DEF t
  <1>2. CASE ~(n < BytesPerSector)
    <2>1. t = s
      BY <1>2 DEF ReadToSectorEnd
    <2>2. n \in Nat /\ (n >= BytesPerSector => s.pos.byte = 0) /\ BytesPerSector \in Nat
      BY InSectorFact, UnitFact
    <2>3. AtSector(s)
      BY <1>2, <2>2 DEF AtSector, More
    <2>4. QED
      BY <2>1, <2>3
  <1>3. QED
    BY <1>1, <1>2

LEMMA ReadToClusterEndFact ==
  ASSUME NEW v, NEW c \in Cluster, NEW size \in Nat, NEW job, job.low \in Nat, NEW end \in Nat,
         job.kind = "read", NEW s, InCall(s, v, c, size, end, job), AtSector(s), s.ok
  PROVE  LET t == ReadToClusterEnd(s) IN
         /\ InCall(t, v, c, size, end, job) /\ t.vol = s.vol
         /\ More(t) => t.pos.byte = 0
         /\ More(t) => t.pos.sector = SectorsPerCluster \/ t.remain < BytesPerSector
  <1> DEFINE t == ReadToClusterEnd(s)
             n == SectorsLeft(s)
             m == n * BytesPerSector
  <1>1. /\ n \in Nat /\ m = Run(n) /\ Run(n) \in Nat /\ Run(n) <= s.remain
        /\ s.pos.sector + n <= SectorsPerCluster
        /\ s.pos.sector + n = SectorsPerCluster \/ s.remain - Run(n) < BytesPerSector
    BY SectorsLeftFact
  <1>2. /\ CallState(s) /\ s.pos = Pos(s.pos.cluster, s.pos.sector, s.pos.byte) /\ s.remain \in Nat
        /\ s.pos.sector \in 0..SectorsPerCluster /\ SectorsPerCluster \in Nat \ {0}
    BY InCallFact, UnitFact
  <1>3. CASE n > 0
    <2> DEFINE y == Get(s, s.pos, m)
    <2>1. t = [y EXCEPT !.pos = SectorOn(y.pos, n)]
      BY <1>3 DEF ReadToClusterEnd
    <2>2. s.pos.byte = 0
      <3>1. n <= Run(n)
        BY <1>1, RunFact
      <3>2. More(s)
        BY <1>1, <1>2, <1>3, <3>1 DEF More
      <3>3. QED
        BY <3>2 DEF AtSector
    <2> HIDE DEF n, m
    <2> DEFINE p == s.pos
               q == Pos(s.pos.cluster, s.pos.sector + n, 0)
    <2>3. SectorOn(s.pos, n) = q
      BY <1>2, <2>2 DEF SectorOn, Pos
    <2> HIDE DEF p, q
    <2>4. Get(s, p, m).pos = s.pos /\ Moved(s, [Get(s, p, m) EXCEPT !.pos = q], q, m)
      BY <1>2, GetMoves
    <2>5. t = [Get(s, p, m) EXCEPT !.pos = q]
      BY <2>1, <2>3, <2>4 DEF p
    <2> HIDE DEF t, y
    <2>t. Transfer(s, t, m, job)
      <3>1. p = s.pos
        BY DEF p
      <3>2. QED
        BY <1>2, <2>5, <3>1, GetTransfers
    <2>6. Moved(s, t, q, SectorsLeft(s) * BytesPerSector)
          /\ Transfer(s, t, SectorsLeft(s) * BytesPerSector, job)
          /\ q = Pos(s.pos.cluster, s.pos.sector + SectorsLeft(s), 0)
      BY <2>4, <2>5, <2>t DEF q, n, m
    <2>7. /\ InCall(t, v, c, size, end, job) /\ t.pos.byte = 0
          /\ t.pos.sector = SectorsPerCluster \/ t.remain < BytesPerSector
      BY <2>2, <2>6, ToClusterEnd
    <2>8. t.vol = s.vol
      BY <2>6, MovedParts
    <2>9. QED
      BY <2>7, <2>8 DEF t
  <1>4. CASE ~(n > 0)
    <2>1. t = s
      BY <1>4 DEF ReadToClusterEnd
    <2> HIDE DEF n
    <2>2. n = 0 /\ Run(0) = 0
      BY <1>1, <1>4, RunFact
    <2>3. s.pos.sector = SectorsPerCluster \/ s.remain < BytesPerSector
      BY <1>1, <1>2, <2>2
    <2>4. QED
      BY <2>1, <2>3 DEF AtSector
  <1>5. QED
    BY <1>3, <1>4

(* On to the next cluster, which is there as long as there is more to read.   *)
LEMMA ReadOnFact ==
  ASSUME NEW v \in Tables, NEW c \in Cluster, Sound(v, c), NEW size \in Nat, NEW job, job.low \in Nat,
         NEW end \in Nat,
         end <= Span(Size(v, c)), NEW s, InCall(s, v, c, size, end, job), s.vol = v
  PROVE  LET t == ReadOn(s) IN
         /\ InCall(t, v, c, size, end, job) /\ t.vol = v
         /\ t.remain = s.remain /\ t.pos.byte = s.pos.byte /\ (t.ok <=> s.ok)
         /\ t.pos.sector = s.pos.sector \/ (s.pos.sector = SectorsPerCluster /\ t.pos.sector = 0)
         /\ More(t) => t.pos.sector < SectorsPerCluster
  <1> DEFINE t == ReadOn(s)
             p == s.pos
             next == NextCluster(v, p.cluster)
  <1>1. /\ CallState(s) /\ s.remain \in Nat /\ s.at \in Nat /\ s.at + s.remain = end
        /\ s.ok \in BOOLEAN /\ Grown(v, v, c) /\ IsAt(v, c, p, s.at) /\ Needed(s, c, size)
        /\ end <= Span(Room(v, c)) => s.ok
        /\ job.low <= s.at /\ (~s.ok => FreeClusters(v) = {}) /\ Carried(s, c, end, job)
    BY DEF InCall
  <1>2. /\ p = Pos(p.cluster, p.sector, p.byte)
        /\ p.sector \in 0..SectorsPerCluster /\ SectorsPerCluster \in Nat \ {0}
    BY InCallFact, UnitFact
  <1>3. CASE p.sector < SectorsPerCluster \/ ~s.ok
    <2>1. t = s
      BY <1>3 DEF ReadOn
    <2>2. QED
      BY <1>3, <2>1 DEF More
  <1>4. CASE ~(p.sector < SectorsPerCluster \/ ~s.ok)
    <2>1. p.sector = SectorsPerCluster /\ s.ok
      BY <1>2, <1>4
    <2>2. IF s.at < Span(Size(v, c))
          THEN next \in Cluster /\ ~Ends(v, p.cluster) /\ IsAt(v, c, Pos(next, 0, p.byte), s.at)
          ELSE next = CLUSTER_EOF /\ Ends(v, p.cluster) /\ p.cluster = LastOf(v, c)
               /\ s.at = Span(Size(v, c))
      BY <1>1, <2>1, NextFact
    <2>3. CASE s.at < Span(Size(v, c))
      <3> DEFINE q == Pos(next, 0, p.byte)
      <3>1. next \in Cluster /\ IsAt(v, c, q, s.at)
        BY <2>2, <2>3
      <3>2. t = [s EXCEPT !.pos = q]
        BY <1>4, <3>1, ClusterFact DEF ReadOn, IsValidCluster
      <3> HIDE DEF t
      <3>3. t = [pos |-> q, remain |-> s.remain, at |-> s.at, ok |-> s.ok,
                 vol |-> v, data |-> s.data, got |-> s.got]
        BY <1>1, <3>2 DEF CallState
      <3>4. q.sector = 0 /\ q.byte = p.byte /\ q = Pos(q.cluster, q.sector, q.byte)
        BY DEF Pos
      <3> HIDE DEF q
      <3>5. Needed(t, c, size)
        BY <1>1, <3>3 DEF Needed
      <3>6. CallState(t)
        BY <3>3, <3>4 DEF CallState
      <3>c. Carried(t, c, end, job)
        <4>1. s.at <= Span(Size(v, c))
          BY <1>1, AtFact
        <4>2. QED
          BY <1>1, <3>3, <4>1, CarriedAlong
      <3>7. InCall(t, v, c, size, end, job)
        BY <1>1, <3>1, <3>3, <3>5, <3>6, <3>c DEF InCall
      <3>8. QED
        BY <1>2, <2>1, <3>3, <3>4, <3>7 DEF t
    <2>4. CASE ~(s.at < Span(Size(v, c)))
      <3>1. next = CLUSTER_EOF /\ s.at = Span(Size(v, c))
        BY <2>2, <2>4
      <3>2. s.remain = 0
        BY <1>1, <3>1
      <3>3. t = [s EXCEPT !.pos.sector = SectorsPerCluster]
        BY <1>4, <3>1, <3>2 DEF ReadOn
      <3> HIDE DEF t
      <3>4. [p EXCEPT !.sector = SectorsPerCluster] = p
        BY <1>2, <2>1 DEF Pos
      <3>5. t = s
        BY <1>1, <3>3, <3>4 DEF CallState
      <3>6. QED
        BY <3>2, <3>5 DEF t, More
    <2>5. QED
      BY <2>3, <2>4
  <1>5. QED
    BY <1>3, <1>4

LEMMA ReadClusterFact ==
  ASSUME NEW v \in Tables, NEW c \in Cluster, Sound(v, c), NEW size \in Nat, NEW job, job.low \in Nat,
         job.kind = "read", NEW end \in Nat,
         end <= Span(Size(v, c)), NEW s, InCall(s, v, c, size, end, job), s.vol = v, InCluster(s)
  PROVE  LET t == ReadCluster(s) IN
         /\ InCall(t, v, c, size, end, job) /\ t.vol = v /\ InCluster(t)
         /\ t.remain < BytesPerCluster \/ ~t.ok \/ t.remain + 1 <= s.remain
  <1> DEFINE t == ReadCluster(s)
  <1>u. /\ SectorsPerCluster \in Nat \ {0} /\ BytesPerCluster \in Nat \ {0}
        /\ BytesPerSector \in Nat \ {0} /\ BytesPerSector <= BytesPerCluster
    BY UnitFact
  <1>s. s.remain \in Nat /\ CallState(s) /\ s.pos = Pos(s.pos.cluster, s.pos.sector, s.pos.byte)
    BY InCallFact
  <1>1. CASE ~(s.remain >= BytesPerCluster /\ s.ok)
    <2>1. t = s
      BY <1>1 DEF ReadCluster
    <2>2. s.remain < BytesPerCluster \/ ~s.ok
      BY <1>1, <1>s, <1>u
    <2>3. QED
      BY <2>1, <2>2
  <1>2. CASE s.remain >= BytesPerCluster /\ s.ok
    <2> DEFINE p == Pos(s.pos.cluster, 0, 0)
               m == BytesPerCluster
               y == Get(s, p, m)
               x == [y EXCEPT !.pos.sector = SectorsPerCluster]
               q == Pos(s.pos.cluster, SectorsPerCluster, 0)
    <2>1. t = ReadOn(x)
      BY <1>2 DEF ReadCluster
    <2>2. s.pos.byte = 0 /\ s.pos.sector = 0
      <3>1. s.remain > 0 /\ ~(s.remain < BytesPerSector)
        BY <1>2, <1>s, <1>u
      <3>2. QED
        BY <1>2, <3>1 DEF InCluster, More
    <2>3. q = [s.pos EXCEPT !.sector = SectorsPerCluster]
      BY <1>s, <2>2 DEF Pos
    <2>p. p = s.pos
      BY <1>s, <2>2
    <2> HIDE DEF p, m, q, t
    <2>4. y.pos = s.pos /\ Moved(s, [y EXCEPT !.pos = q], q, m)
      BY <1>s, GetMoves
    <2>y. y = Get(s, p, m)
      OBVIOUS
    <2> HIDE DEF y
    <2>5. x = [y EXCEPT !.pos = q]
      BY <2>3, <2>4
    <2> HIDE DEF x
    <2>t. Transfer(s, x, m, job)
      <3>1. x = [Get(s, p, m) EXCEPT !.pos = q]
        BY <2>5, <2>y
      <3>2. QED
        BY <1>s, <2>p, <3>1, GetTransfers
    <2>6. Moved(s, x, q, BytesPerCluster) /\ q = Pos(s.pos.cluster, SectorsPerCluster, 0)
          /\ Transfer(s, x, BytesPerCluster, job)
      BY <2>4, <2>5, <2>t DEF m, q
    <2>7. InCall(x, v, c, size, end, job)
      BY <1>2, <2>2, <2>6, ClusterMoves
    <2>8. x.pos = q /\ x.remain = s.remain - BytesPerCluster /\ x.vol = v
      BY <2>6, MovedParts
    <2>9. x.pos.sector = SectorsPerCluster /\ x.pos.byte = 0
      BY <2>6, <2>8 DEF Pos
    <2>10. /\ InCall(t, v, c, size, end, job) /\ t.vol = v
           /\ t.remain = x.remain /\ t.pos.byte = x.pos.byte
           /\ t.pos.sector = x.pos.sector \/ (x.pos.sector = SectorsPerCluster /\ t.pos.sector = 0)
           /\ More(t) => t.pos.sector < SectorsPerCluster
      BY <2>1, <2>7, <2>8, ReadOnFact
    <2>11. InCluster(t)
      BY <1>u, <2>9, <2>10 DEF InCluster
    <2>12. t.remain + 1 <= s.remain
      BY <1>s, <1>u, <2>8, <2>10
    <2>13. QED
      BY <2>10, <2>11, <2>12 DEF t
  <1>3. QED
    BY <1>1, <1>2

LEMMA ReadClustersFact ==
  ASSUME NEW v \in Tables, NEW c \in Cluster, Sound(v, c), NEW size \in Nat, NEW job, job.low \in Nat,
         job.kind = "read", NEW end \in 0..MaxSize,
         end <= Span(Size(v, c)), NEW s, InCall(s, v, c, size, end, job), s.vol = v, InCluster(s)
  PROVE  LET t == ReadClusters(s) IN
         /\ InCall(t, v, c, size, end, job) /\ t.vol = v /\ InCluster(t)
         /\ t.remain < BytesPerCluster \/ ~t.ok
  <1> DEFINE J(t, k) == /\ InCall(t, v, c, size, end, job) /\ t.vol = v /\ InCluster(t)
                        /\ t.remain < BytesPerCluster \/ ~t.ok \/ t.remain + k <= end
  <1>0. end \in Nat /\ MaxSize \in Nat /\ BytesPerCluster \in Nat \ {0}
    BY UnitFact
  <1>1. PICK r : /\ r[0] = s /\ ReadClusters(s) = r[MaxSize]
                 /\ \A k \in 0..MaxSize : k # 0 => r[k] = ReadCluster(r[k - 1])
    BY RepeatRead
  <1>2. J(r[0], 0)
    BY <1>0, <1>1, InCallFact
  <1>3. ASSUME NEW k \in 0..MaxSize, k # 0, J(r[k - 1], k - 1) PROVE J(r[k], k)
    <2> DEFINE x == r[k - 1]
               y == r[k]
    <2>1. y = ReadCluster(x)
      BY <1>1, <1>3
    <2>2. InCall(x, v, c, size, end, job) /\ x.vol = v /\ InCluster(x)
          /\ (x.remain < BytesPerCluster \/ ~x.ok \/ x.remain + (k - 1) <= end)
      BY <1>3
    <2> HIDE DEF x, y
    <2>3. /\ InCall(y, v, c, size, end, job) /\ y.vol = v /\ InCluster(y)
          /\ y.remain < BytesPerCluster \/ ~y.ok \/ y.remain + 1 <= x.remain
      BY <1>0, <2>1, <2>2, ReadClusterFact
    <2>n. x.remain \in Nat /\ y.remain \in Nat /\ k \in Nat
      BY <1>0, <2>2, <2>3, InCallFact
    <2>4. CASE x.remain < BytesPerCluster \/ ~x.ok
      <3>1. y = x
        BY <1>0, <2>1, <2>4, <2>n DEF ReadCluster
      <3>2. QED
        BY <2>3, <2>4, <3>1 DEF y
    <2>5. CASE x.remain + (k - 1) <= end
      <3>1. y.remain < BytesPerCluster \/ ~y.ok \/ y.remain + k <= end
        BY <1>0, <2>3, <2>5, <2>n
      <3>2. QED
        BY <2>3, <3>1 DEF y
    <2>6. QED
      BY <2>2, <2>4, <2>5
  <1> HIDE DEF J
  <1>4. \A k \in 0..MaxSize : J(r[k], k)
    <2> DEFINE S == {k \in 0..MaxSize : ~J(r[k], k)}
    <2>1. S = {}
      <3> SUFFICES ASSUME S # {} PROVE FALSE
        OBVIOUS
      <3>1. S \in SUBSET Nat
        BY <1>0
      <3>2. PICK m \in S : \A k \in S : m <= k
        BY <3>1, LeastFact
      <3>3. m \in 0..MaxSize /\ ~J(r[m], m) /\ m # 0
        BY <1>2, <3>2
      <3>4. m - 1 \in 0..MaxSize /\ ~(m <= m - 1)
        BY <1>0, <3>3
      <3>5. J(r[m - 1], m - 1)
        BY <3>2, <3>4
      <3>6. QED
        BY <1>3, <3>3, <3>5
    <2>2. QED
      BY <2>1
  <1> DEFINE t == ReadClusters(s)
  <1>5. J(t, MaxSize)
    BY <1>0, <1>1, <1>4
  <1> HIDE DEF t
  <1>6. /\ InCall(t, v, c, size, end, job) /\ t.vol = v /\ InCluster(t)
        /\ t.remain < BytesPerCluster \/ ~t.ok \/ t.remain + MaxSize <= end
    BY <1>5 DEF J
  <1>7. t.remain \in Nat
    BY <1>0, <1>6, InCallFact
  <1>8. t.remain < BytesPerCluster \/ ~t.ok
    BY <1>0, <1>6, <1>7
  <1>9. QED
    BY <1>6, <1>8 DEF t

LEMMA ReadSectorsFact ==
  ASSUME NEW v, NEW c \in Cluster, NEW size \in Nat, NEW job, job.low \in Nat, NEW end \in Nat,
         job.kind = "read", NEW s, InCall(s, v, c, size, end, job), InCluster(s),
         s.remain < BytesPerCluster \/ ~s.ok
  PROVE  LET t == ReadSectors(s) IN
         InCall(t, v, c, size, end, job) /\ t.vol = s.vol /\ LastSector(t)
  <1> DEFINE t == ReadSectors(s)
             n == s.remain \div BytesPerSector
             m == n * BytesPerSector
             p == Pos(s.pos.cluster, 0, 0)
             y == Get(s, p, m)
             q == Pos(s.pos.cluster, n, 0)
  <1>1. /\ n \in Nat /\ m = Run(n) /\ m \in Nat /\ m <= s.remain /\ s.remain - m < BytesPerSector
        /\ n > 0 /\ s.ok => s.pos.byte = 0 /\ s.pos.sector = 0 /\ n < SectorsPerCluster
        /\ ~(n > 0 /\ s.ok) => LastSector(s)
    BY LastSectorsFact
  <1>2. CallState(s) /\ s.pos = Pos(s.pos.cluster, s.pos.sector, s.pos.byte)
    BY InCallFact
  <1>3. CASE n > 0 /\ s.ok
    <2>1. t = [y EXCEPT !.pos = SectorOn(y.pos, n)]
      BY <1>3 DEF ReadSectors
    <2>p. p = s.pos
      BY <1>1, <1>2, <1>3
    <2> HIDE DEF n, m, p
    <2>2. SectorOn(s.pos, n) = q
      BY <1>1, <1>2, <1>3 DEF SectorOn, Pos
    <2> HIDE DEF q, t
    <2>3. y.pos = s.pos /\ Moved(s, [y EXCEPT !.pos = q], q, m)
      BY <1>2, GetMoves
    <2>y. y = Get(s, p, m)
      OBVIOUS
    <2> HIDE DEF y
    <2>t. t = [y EXCEPT !.pos = q]
      BY <2>1, <2>2, <2>3
    <2>4. Moved(s, t, q, m) /\ Transfer(s, t, m, job)
      <3>1. t = [Get(s, p, m) EXCEPT !.pos = q]
        BY <2>t, <2>y
      <3>2. Transfer(s, t, m, job)
        BY <1>2, <2>p, <3>1, GetTransfers
      <3>3. QED
        BY <2>3, <2>t, <3>2
    <2>5. q = Pos(s.pos.cluster, n, 0)
      BY DEF q
    <2>6. InCall(t, v, c, size, end, job) /\ LastSector(t)
      BY <1>1, <1>3, <2>4, <2>5, LastSectorsMove
    <2>7. t.vol = s.vol
      BY <2>4, MovedParts
    <2>8. QED
      BY <2>6, <2>7 DEF t
  <1>4. CASE ~(n > 0 /\ s.ok)
    <2>1. t = s
      BY <1>4 DEF ReadSectors
    <2>2. QED
      BY <1>1, <1>4, <2>1
  <1>5. QED
    BY <1>3, <1>4

LEMMA ReadRestFact ==
  ASSUME NEW v, NEW c \in Cluster, NEW size \in Nat, NEW job, job.low \in Nat, NEW end \in Nat,
         job.kind = "read", NEW s, InCall(s, v, c, size, end, job), LastSector(s)
  PROVE  LET t == ReadRest(s) IN
         InCall(t, v, c, size, end, job) /\ t.vol = s.vol /\ (t.remain = 0 \/ ~t.ok)
  <1> DEFINE t == ReadRest(s)
             n == s.remain
             p == [s.pos EXCEPT !.byte = 0]
             y == Get(s, p, n)
             q == Pos(s.pos.cluster, s.pos.sector, s.remain)
  <1>1. CallState(s) /\ s.pos = Pos(s.pos.cluster, s.pos.sector, s.pos.byte) /\ n \in Nat
    BY InCallFact
  <1>2. CASE n > 0 /\ s.ok
    <2>1. t = [y EXCEPT !.pos.byte = y.pos.byte + n]
      BY <1>2 DEF ReadRest
    <2>2. More(s) /\ s.pos.byte = 0
      BY <1>2 DEF More, LastSector
    <2>p. p = s.pos
      BY <1>1, <2>2 DEF Pos
    <2>3. q = [s.pos EXCEPT !.byte = s.pos.byte + n]
      <3>1. s.pos.byte + n = n
        BY <1>1, <2>2
      <3>2. [s.pos EXCEPT !.byte = n] = Pos(s.pos.cluster, s.pos.sector, n)
        BY <1>1 DEF Pos
      <3>3. QED
        BY <3>1, <3>2
    <2> HIDE DEF n, p, q, t
    <2>4. y.pos = s.pos /\ Moved(s, [y EXCEPT !.pos = q], q, n)
      BY <1>1, GetMoves
    <2>y. y = Get(s, p, n)
      OBVIOUS
    <2> HIDE DEF y
    <2>5. t = [y EXCEPT !.pos = q]
      BY <2>1, <2>3, <2>4
    <2>t. Transfer(s, t, n, job)
      <3>1. t = [Get(s, p, n) EXCEPT !.pos = q]
        BY <2>5, <2>y
      <3>2. QED
        BY <1>1, <2>p, <3>1, GetTransfers
    <2>6. Moved(s, t, q, s.remain) /\ q = Pos(s.pos.cluster, s.pos.sector, s.remain)
          /\ Transfer(s, t, s.remain, job)
      BY <2>4, <2>5, <2>t DEF n, q
    <2>7. InCall(t, v, c, size, end, job) /\ t.vol = s.vol /\ t.remain = 0
      <3>1. InCall(t, v, c, size, end, job) /\ t.remain = 0
        BY <2>2, <2>6, RestMoves
      <3>2. t.vol = s.vol
        BY <2>6, MovedParts
      <3>3. QED
        BY <3>1, <3>2
    <2>8. QED
      BY <2>7 DEF t
  <1>3. CASE ~(n > 0 /\ s.ok)
    <2>1. t = s /\ (s.remain = 0 \/ ~s.ok)
      BY <1>1, <1>3 DEF ReadRest
    <2>2. QED
      BY <2>1
  <1>4. QED
    BY <1>2, <1>3

(* A read of what the file has keeps to its chain, and gets all of it.        *)
LEMMA TransferredFact ==
  ASSUME NEW v \in Tables, NEW c \in Cluster, Sound(v, c), NEW size \in Nat, NEW job, job.low \in Nat,
         job.kind = "read", NEW end \in 0..MaxSize,
         end <= Span(Size(v, c)), NEW s, InCall(s, v, c, size, end, job), s.vol = v, s.ok,
         s.pos.sector < SectorsPerCluster
  PROVE  LET t == Transferred(s) IN InCall(t, v, c, size, end, job) /\ t.vol = v /\ t.remain = 0
  <1> DEFINE s1 == ReadToSectorEnd(s)
             s2 == ReadToClusterEnd(s1)
             s3 == ReadOn(s2)
             s4 == ReadClusters(s3)
             s5 == ReadSectors(s4)
             s6 == ReadRest(s5)
  <1>0. end \in Nat
    BY UnitFact
  <1>1. Transferred(s) = s6
    BY DEF Transferred, ReadClusters
  <1>2. InCall(s1, v, c, size, end, job) /\ AtSector(s1) /\ s1.vol = v /\ s1.ok
    BY <1>0, ReadToSectorEndFact
  <1> HIDE DEF s1
  <1>3. /\ InCall(s2, v, c, size, end, job) /\ s2.vol = v
        /\ More(s2) => s2.pos.byte = 0
        /\ More(s2) => s2.pos.sector = SectorsPerCluster \/ s2.remain < BytesPerSector
    BY <1>0, <1>2, ReadToClusterEndFact
  <1> HIDE DEF s2
  <1>4. /\ InCall(s3, v, c, size, end, job) /\ s3.vol = v
        /\ s3.remain = s2.remain /\ s3.pos.byte = s2.pos.byte /\ (s3.ok <=> s2.ok)
        /\ s3.pos.sector = s2.pos.sector \/ (s2.pos.sector = SectorsPerCluster /\ s3.pos.sector = 0)
        /\ More(s3) => s3.pos.sector < SectorsPerCluster
    BY <1>0, <1>3, ReadOnFact
  <1> HIDE DEF s3
  <1>5. InCluster(s3)
    <2> SUFFICES ASSUME More(s3)
                 PROVE  /\ s3.pos.byte = 0 /\ s3.pos.sector < SectorsPerCluster
                        /\ s3.pos.sector = 0 \/ s3.remain < BytesPerSector
      BY DEF InCluster
    <2>1. More(s2) /\ s3.pos.sector < SectorsPerCluster
      BY <1>4 DEF More
    <2>2. SectorsPerCluster \in Nat
      BY UnitFact
    <2>3. QED
      BY <1>3, <1>4, <2>1, <2>2
  <1>6. /\ InCall(s4, v, c, size, end, job) /\ s4.vol = v /\ InCluster(s4)
        /\ s4.remain < BytesPerCluster \/ ~s4.ok
    BY <1>4, <1>5, ReadClustersFact
  <1> HIDE DEF s4
  <1>7. InCall(s5, v, c, size, end, job) /\ s5.vol = v /\ LastSector(s5)
    BY <1>0, <1>6, ReadSectorsFact
  <1> HIDE DEF s5
  <1>8. InCall(s6, v, c, size, end, job) /\ s6.vol = v /\ (s6.remain = 0 \/ ~s6.ok)
    BY <1>0, <1>7, ReadRestFact
  <1> HIDE DEF s6
  <1>9. s6.ok
    <2>1. Grown(v, v, c) /\ (end <= Span(Room(v, c)) => s6.ok)
      BY <1>8 DEF InCall
    <2>2. Size(v, c) \in Nat /\ Room(v, c) \in Nat /\ Size(v, c) <= Room(v, c)
      BY <2>1, LinksFact, GrownFact, FreeFact
    <2>3. Span(Size(v, c)) <= Span(Room(v, c)) /\ Span(Size(v, c)) \in Nat /\ Span(Room(v, c)) \in Nat
      BY <2>2, SpanFact
    <2>4. QED
      BY <1>0, <2>1, <2>3
  <1>10. QED
    BY <1>1, <1>8, <1>9

-----------------------------------------------------------------------------
(* What a call makes of the chain of its file.                                *)

(* What a finished transfer leaves.                                           *)
LEMMA DoneFact ==
  ASSUME NEW v \in Tables, NEW c \in Cluster, Sound(v, c), NEW size \in Nat, NEW job, job.low \in Nat,
         size <= Span(Size(v, c)), NEW end \in Nat, NEW t, InCall(t, v, c, size, end, job),
         t.remain = 0 \/ ~t.ok, NEW z, z = (IF t.at > size THEN t.at ELSE size)
  PROVE  /\ Grown(v, t.vol, c) /\ t.at \in Nat /\ t.remain \in Nat /\ t.at + t.remain = end
         /\ job.low <= t.at /\ z > 0 /\ Size(t.vol, c) = ClustersFor(z) /\ Fits(t.vol, c, z)
         /\ IsAt(t.vol, c, t.pos, t.at) /\ t.pos \in Position
         /\ end <= Span(Room(v, c)) => t.ok
         /\ ~t.ok => FreeClusters(t.vol) = {}
         /\ Carried(t, c, end, job)
  <1> DEFINE w == t.vol
             n == Size(w, c)
             m == n - 1
  <1>1. /\ CallState(t) /\ t.remain \in Nat /\ t.at \in Nat /\ t.at + t.remain = end /\ job.low <= t.at
        /\ t.ok \in BOOLEAN /\ Grown(v, w, c) /\ IsAt(w, c, t.pos, t.at) /\ Needed(t, c, size)
        /\ end <= Span(Room(v, c)) => t.ok
        /\ (~t.ok => FreeClusters(w) = {}) /\ Carried(t, c, end, job)
    BY DEF InCall
  <1>2. w \in Tables /\ Sound(w, c) /\ Size(v, c) <= n /\ Size(v, c) \in Nat /\ n \in Nat \ {0}
    BY <1>1, LinksFact DEF Grown
  <1>3. t.at <= Span(n) /\ t.pos.cluster \in Cluster
        /\ t.pos.sector \in 0..SectorsPerCluster /\ t.pos.byte \in 0..BytesPerSector - 1
    BY <1>1, <1>2, AtFact
  <1>4. Span(m) < size \/ Span(m) < t.at
    BY <1>1 DEF Needed
  <1>5. m \in Nat /\ ~(n <= m)
    BY <1>2
  <1> HIDE DEF w, n, m
  <1>6. Span(n) \in Nat /\ Span(m) \in Nat /\ Span(Size(v, c)) \in Nat /\ Span(Size(v, c)) <= Span(n)
    BY <1>2, <1>5, SpanFact
  <1>7. z \in Nat /\ z <= Span(n) /\ Span(m) < z
    BY <1>1, <1>3, <1>4, <1>6
  <1>8. m < ClustersFor(z) /\ ~(n < ClustersFor(z)) /\ ClustersFor(z) \in Nat
    BY <1>2, <1>5, <1>6, <1>7, ClustersForFact
  <1>9. n = ClustersFor(z)
    BY <1>2, <1>8 DEF m
  <1>10. Fits(w, c, z)
    BY <1>7 DEF Fits, n, m
  <1>11. t.pos \in Position
    <2>1. t.pos = [cluster |-> t.pos.cluster, sector |-> t.pos.sector, byte |-> t.pos.byte]
      BY <1>1 DEF CallState, Pos
    <2>2. t.pos.byte \in 0..BytesPerSector
      BY <1>3, UnitFact
    <2>3. QED
      BY <1>3, <2>1, <2>2 DEF Position
  <1>12. QED
    BY <1>1, <1>6, <1>7, <1>9, <1>10, <1>11 DEF n, w

(* A file of that many bytes has its clusters.                                *)
LEMMA FitsFact ==
  ASSUME NEW v \in Tables, NEW c \in Cluster, Sound(v, c), NEW size \in Nat, size > 0,
         Size(v, c) = ClustersFor(size)
  PROVE  Fits(v, c, size)
  <1> DEFINE n == Size(v, c)
             m == n - 1
  <1>1. n \in Nat \ {0} /\ m \in Nat /\ m < n
    BY LinksFact
  <1> HIDE DEF n, m
  <1>2. n = ClustersFor(size)
    BY DEF n
  <1>3. size <= Span(n) /\ Span(m) < size
    BY <1>1, <1>2, ClustersForFact
  <1>4. QED
    BY <1>3 DEF Fits, n, m

(* Table v with the chain from c on, of one file, becomes w with that from d. *)
Reshaped(v, c, w, d) ==
    /\ w \in Tables /\ Counted(w)
    /\ d # CLUSTER_FREE => d \in Cluster /\ Sound(w, d)
    /\ Chain(w, d) \subseteq Chain(v, c) \union FreeClusters(v)
    /\ UsedClusters(w) = (UsedClusters(v) \ Chain(v, c)) \union Chain(w, d)
    /\ \A k \in Cluster \ (Chain(v, c) \union Chain(w, d)) : w.fat[k] = v.fat[k]

LEMMA NoChain == \A v : Chain(v, CLUSTER_FREE) = {}
  BY DEF Chain

LEMMA SameShape ==
  ASSUME NEW v \in Tables, Counted(v), NEW c, c # CLUSTER_FREE => c \in Cluster /\ Sound(v, c)
  PROVE  Reshaped(v, c, v, c)
  <1>1. Chain(v, c) \subseteq UsedClusters(v)
    <2>1. CASE c = CLUSTER_FREE
      BY <2>1, NoChain
    <2>2. CASE c # CLUSTER_FREE
      BY <2>2, LinkFact DEF UsedClusters, FreeClusters
    <2>3. QED
      BY <2>1, <2>2
  <1>2. QED
    BY <1>1 DEF Reshaped

LEMMA GrownShape ==
  ASSUME NEW v \in Tables, NEW c \in Cluster, Sound(v, c), NEW w, Grown(v, w, c)
  PROVE  Reshaped(v, c, w, c)
  <1>1. /\ w \in Tables /\ Counted(w) /\ Sound(w, c)
        /\ Chain(v, c) \subseteq Chain(w, c)
        /\ Chain(w, c) \ Chain(v, c) \subseteq FreeClusters(v)
        /\ \A k \in Cluster \ Chain(w, c) : w.fat[k] = v.fat[k]
    BY DEF Grown
  <1>2. UsedClusters(w) = UsedClusters(v) \union Chain(w, c)
    BY GrownFact
  <1>3. QED
    BY <1>1, <1>2 DEF Reshaped

(* The chain of a file that had none.                                         *)
LEMMA StartShape ==
  ASSUME NEW v \in Tables, NEW c \in FreeClusters(v), NEW u \in Tables,
         u.fat = [k \in Cluster |-> IF k = c THEN CLUSTER_EOF ELSE v.fat[k]],
         NEW w, Grown(u, w, c)
  PROVE  Reshaped(v, CLUSTER_FREE, w, c)
  <1>1. c \in Cluster /\ v.fat[c] = CLUSTER_FREE
    BY DEF FreeClusters
  <1>2. Sound(u, c) /\ Chain(u, c) = {c}
    BY <1>1, AloneFact
  <1>3. FreeClusters(u) = FreeClusters(v) \ {c}
    BY <1>1, ClusterFact DEF FreeClusters
  <1>4. /\ w \in Tables /\ Counted(w) /\ Sound(w, c)
        /\ Chain(w, c) \ {c} \subseteq FreeClusters(u)
        /\ \A k \in Cluster \ Chain(w, c) : w.fat[k] = u.fat[k]
        /\ {c} \subseteq Chain(w, c) /\ Chain(w, c) \subseteq Cluster
    BY <1>1, <1>2, LinkFact DEF Grown
  <1>5. UsedClusters(w) = UsedClusters(u) \union Chain(w, c)
    BY <1>1, <1>2, GrownFact
  <1>6. UsedClusters(u) = UsedClusters(v) \union {c}
    BY <1>1, <1>3 DEF UsedClusters
  <1>7. \A k \in Cluster \ Chain(w, c) : w.fat[k] = v.fat[k]
    BY <1>4
  <1>8. QED
    BY <1>1, <1>3, <1>4, <1>5, <1>6, <1>7, NoChain DEF Reshaped

LEMMA ClearShape ==
  ASSUME NEW v \in Tables, Counted(v), NEW c \in Cluster, Sound(v, c)
  PROVE  Reshaped(v, c, ClearLinks(v, c), CLUSTER_FREE)
  <1> DEFINE w == ClearLinks(v, c)
  <1>1. /\ w \in Tables /\ Counted(w)
        /\ FreeClusters(w) = FreeClusters(v) \union Chain(v, c)
        /\ w.fat = [k \in Cluster |-> IF k \in Chain(v, c) THEN CLUSTER_FREE ELSE v.fat[k]]
    BY ClearFact
  <1> HIDE DEF w
  <1>2. UsedClusters(w) = UsedClusters(v) \ Chain(v, c)
    BY <1>1 DEF UsedClusters
  <1>3. Reshaped(v, c, w, CLUSTER_FREE)
    BY <1>1, <1>2, NoChain DEF Reshaped
  <1>4. QED
    BY <1>3 DEF w

LEMMA TrimShape ==
  ASSUME NEW v \in Tables, Counted(v), NEW c \in Cluster, Sound(v, c), NEW n \in 1..Size(v, c)
  PROVE  Reshaped(v, c, TrimChain(v, c, n).vol, c)
  <1> DEFINE w == TrimChain(v, c, n).vol
  <1>1. /\ w \in Tables /\ Counted(w) /\ Sound(w, c)
        /\ Chain(w, c) \subseteq Chain(v, c)
        /\ FreeClusters(w) = FreeClusters(v) \union (Chain(v, c) \ Chain(w, c))
        /\ \A k \in Cluster \ Chain(v, c) : w.fat[k] = v.fat[k]
    BY TrimFact
  <1> HIDE DEF w
  <1>2. Chain(v, c) \subseteq UsedClusters(v)
    BY LinkFact DEF UsedClusters, FreeClusters
  <1>3. UsedClusters(w) = (UsedClusters(v) \ Chain(v, c)) \union Chain(w, c)
    BY <1>1, <1>2 DEF UsedClusters
  <1>4. Reshaped(v, c, w, c)
    BY <1>1, <1>3 DEF Reshaped
  <1>5. QED
    BY <1>4 DEF w

-----------------------------------------------------------------------------
(* What a call on one file leaves of the others.                              *)

Handles == [inUse : BOOLEAN, append : BOOLEAN, modified : BOOLEAN,
            filesize : 0..MaxSize, startCluster : Cluster \union {CLUSTER_FREE},
            currentPosition : 0..MaxSize, rwPosition : Position, appendPosition : Position]
Entries == [startCluster : Cluster \union {CLUSTER_FREE}, filesize : 0..MaxSize]

(* Where a file with handle h and entry e starts, and its size.               *)
StartIn(h, e) == IF h.inUse THEN h.startCluster ELSE e.startCluster
SizeIn(h, e) == IF h.inUse THEN h.filesize ELSE e.filesize

LEMMA FileFact ==
  ASSUME FileInv, NEW f \in File
  PROVE  /\ vol \in Tables /\ Counted(vol) /\ file[f] \in Handles /\ entry[f] \in Entries
         /\ StartOf(f) = StartIn(file[f], entry[f]) /\ SizeOf(f) = SizeIn(file[f], entry[f])
         /\ StartOf(f) \in Cluster \union {CLUSTER_FREE} /\ SizeOf(f) \in 0..MaxSize
         /\ StartOf(f) # CLUSTER_FREE => StartOf(f) \in Cluster /\ Sound(vol, StartOf(f))
         /\ IF StartOf(f) = CLUSTER_FREE THEN SizeOf(f) = 0
            ELSE SizeOf(f) > 0 /\ Size(vol, StartOf(f)) = ClustersFor(SizeOf(f))
         /\ file[f].inUse => Placed(vol, file[f]) /\ Agrees(file[f], entry[f])
  <1>1. vol \in Tables /\ Counted(vol) /\ file[f] \in Handles /\ entry[f] \in Entries
    BY DEF FileInv, TypeOK, ChainsApart, Counted, Handles, Entries
  <1>2. StartOf(f) = StartIn(file[f], entry[f]) /\ SizeOf(f) = SizeIn(file[f], entry[f])
    BY DEF StartOf, SizeOf, StartIn, SizeIn
  <1>3. StartOf(f) \in Cluster \union {CLUSTER_FREE} /\ SizeOf(f) \in 0..MaxSize
    BY <1>1, <1>2 DEF StartIn, SizeIn, Handles, Entries
  <1>4. StartOf(f) # CLUSTER_FREE => StartOf(f) \in Cluster /\ Sound(vol, StartOf(f))
    BY <1>3 DEF FileInv, ChainsApart
  <1>5. IF StartOf(f) = CLUSTER_FREE THEN SizeOf(f) = 0
        ELSE SizeOf(f) > 0 /\ Size(vol, StartOf(f)) = ClustersFor(SizeOf(f))
    BY DEF FileInv, SizesFit
  <1>6. file[f].inUse => Placed(vol, file[f]) /\ Agrees(file[f], entry[f])
    BY DEF FileInv, HandleFits
  <1>7. QED
    BY <1>1, <1>2, <1>3, <1>4, <1>5, <1>6

LEMMA OtherKept ==
  ASSUME FileInv, NEW f \in File, NEW g \in File, g # f, NEW w, NEW d,
         Reshaped(vol, StartOf(f), w, d)
  PROVE  /\ Chain(w, StartOf(g)) = Chain(vol, StartOf(g))
         /\ Chain(w, StartOf(g)) \intersect Chain(w, d) = {}
         /\ StartOf(g) # CLUSTER_FREE =>
               /\ Sound(w, StartOf(g)) /\ Size(w, StartOf(g)) = Size(vol, StartOf(g))
               /\ \A k \in 0..LastCluster : Walk(w, StartOf(g))[k] = Walk(vol, StartOf(g))[k]
  <1> DEFINE b == StartOf(g)
             c == StartOf(f)
  <1>1. Chain(vol, b) \intersect Chain(vol, c) = {}
    BY DEF FileInv, ChainsApart
  <1>2. w \in Tables /\ vol \in Tables /\ Chain(w, d) \subseteq Chain(vol, c) \union FreeClusters(vol)
        /\ \A k \in Cluster \ (Chain(vol, c) \union Chain(w, d)) : w.fat[k] = vol.fat[k]
    BY FileFact DEF Reshaped
  <1>3. CASE b = CLUSTER_FREE
    BY <1>3, NoChain
  <1>4. CASE b # CLUSTER_FREE
    <2>1. b \in Cluster /\ Sound(vol, b)
      BY <1>4, FileFact
    <2>2. Chain(vol, b) \subseteq Cluster /\ \A k \in Chain(vol, b) : vol.fat[k] # CLUSTER_FREE
      BY <1>2, <2>1, LinkFact
    <2>3. Chain(vol, b) \intersect Chain(w, d) = {}
      BY <1>1, <1>2, <2>2 DEF FreeClusters
    <2>4. \A k \in Chain(vol, b) : w.fat[k] = vol.fat[k]
      BY <1>1, <1>2, <2>2, <2>3
    <2>5. /\ Sound(w, b) /\ Chain(w, b) = Chain(vol, b) /\ Size(w, b) = Size(vol, b)
          /\ \A k \in 0..LastCluster : Walk(w, b)[k] = Walk(vol, b)[k]
      BY <1>2, <2>1, <2>4, SameChain
    <2>6. QED
      BY <2>3, <2>5
  <1>5. QED
    BY <1>3, <1>4

(* A position is where it was while its chain is.                             *)
LEMMA SameAt ==
  ASSUME NEW v \in Tables, NEW w, NEW c \in Cluster, Sound(v, c), Size(w, c) = Size(v, c),
         \A k \in 0..LastCluster : Walk(w, c)[k] = Walk(v, c)[k],
         NEW p, NEW x, IsAt(v, c, p, x)
  PROVE  IsAt(w, c, p, x)
  <1>1. Size(v, c) \in Nat /\ Size(v, c) <= LastCluster /\ LastCluster \in Nat
    BY LinksFact, ClusterFact
  <1>2. \A k \in 0..Size(v, c) - 1 : Walk(w, c)[k] = Walk(v, c)[k]
    BY <1>1
  <1>3. QED
    BY <1>2 DEF IsAt

LEMMA ChangeFact ==
  ASSUME FileInv, NEW f \in File, NEW h \in Handles, NEW e \in Entries,
         file' = [file EXCEPT ![f] = h], entry' = [entry EXCEPT ![f] = e],
         NEW c, c = StartIn(h, e), NEW n, n = SizeIn(h, e), Reshaped(vol, StartOf(f), vol', c),
         IF c = CLUSTER_FREE THEN n = 0 ELSE n > 0 /\ Size(vol', c) = ClustersFor(n),
         h.inUse => Placed(vol', h) /\ Agrees(h, e)
  PROVE  FileInv'
  <1>1. file \in [File -> Handles] /\ entry \in [File -> Entries]
    BY DEF FileInv, TypeOK, Handles, Entries
  <1>2. file' \in [File -> Handles] /\ entry' \in [File -> Entries]
    BY <1>1
  <1>3. file'[f] = h /\ entry'[f] = e
        /\ \A g \in File : g # f => file'[g] = file[g] /\ entry'[g] = entry[g]
    BY <1>1
  <1>4. StartOf(f)' = c /\ SizeOf(f)' = n
        /\ \A g \in File : g # f => StartOf(g)' = StartOf(g) /\ SizeOf(g)' = SizeOf(g)
    BY <1>3 DEF StartOf, SizeOf, StartIn, SizeIn
  <1>5. /\ vol' \in Tables /\ Counted(vol')
        /\ c # CLUSTER_FREE => c \in Cluster /\ Sound(vol', c)
        /\ UsedClusters(vol') = (UsedClusters(vol) \ Chain(vol, StartOf(f))) \union Chain(vol', c)
    BY DEF Reshaped
  <1>6. \A g \in File : g # f =>
          /\ Chain(vol', StartOf(g)) = Chain(vol, StartOf(g))
          /\ Chain(vol', StartOf(g)) \intersect Chain(vol', c) = {}
          /\ StartOf(g) # CLUSTER_FREE =>
               /\ Sound(vol', StartOf(g)) /\ Size(vol', StartOf(g)) = Size(vol, StartOf(g))
               /\ \A k \in 0..LastCluster : Walk(vol', StartOf(g))[k] = Walk(vol, StartOf(g))[k]
    BY OtherKept
  <1>7. TypeOK'
    BY <1>2, <1>5 DEF TypeOK, Handles, Entries
  <1>8. ChainsApart'
    <2>1. ASSUME NEW g \in File, StartOf(g)' # CLUSTER_FREE PROVE Sound(vol', StartOf(g)')
      <3>1. CASE g = f
        BY <1>4, <1>5, <2>1, <3>1
      <3>2. CASE g # f
        BY <1>4, <1>6, <2>1, <3>2
      <3>3. QED
        BY <3>1, <3>2
    <2>2. ASSUME NEW a \in File, NEW g \in File, a # g
          PROVE  Chain(vol', StartOf(a)') \intersect Chain(vol', StartOf(g)') = {}
      <3>1. CASE a = f
        BY <1>4, <1>6, <2>2, <3>1
      <3>2. CASE g = f
        BY <1>4, <1>6, <2>2, <3>2
      <3>3. CASE a # f /\ g # f
        <4>1. Chain(vol, StartOf(a)) \intersect Chain(vol, StartOf(g)) = {}
          BY <2>2 DEF FileInv, ChainsApart
        <4>2. QED
          BY <1>4, <1>6, <3>3, <4>1
      <3>4. QED
        BY <3>1, <3>2, <3>3
    <2>3. UsedClusters(vol') = UNION {Chain(vol', StartOf(g)') : g \in File}
      <3>1. UsedClusters(vol) = UNION {Chain(vol, StartOf(g)) : g \in File}
        BY DEF FileInv, ChainsApart
      <3>2. \A g \in File : g # f => Chain(vol, StartOf(g)) \intersect Chain(vol, StartOf(f)) = {}
        BY DEF FileInv, ChainsApart
      <3>3. \A k : k \in UsedClusters(vol') <=> \E g \in File : k \in Chain(vol', StartOf(g)')
        <4> TAKE k
        <4>1. ASSUME k \in UsedClusters(vol')
              PROVE  \E g \in File : k \in Chain(vol', StartOf(g)')
          <5>1. CASE k \in Chain(vol', c)
            BY <1>4, <5>1
          <5>2. CASE k \notin Chain(vol', c)
            <6>1. k \in UsedClusters(vol) /\ k \notin Chain(vol, StartOf(f))
              BY <1>5, <4>1, <5>2
            <6>2. PICK g \in File : k \in Chain(vol, StartOf(g))
              BY <3>1, <6>1
            <6>3. g # f
              BY <6>1, <6>2
            <6>4. QED
              BY <1>4, <1>6, <6>2, <6>3
          <5>3. QED
            BY <5>1, <5>2
        <4>2. ASSUME NEW g \in File, k \in Chain(vol', StartOf(g)')
              PROVE  k \in UsedClusters(vol')
          <5>1. CASE g = f
            BY <1>4, <1>5, <4>2, <5>1
          <5>2. CASE g # f
            <6>1. k \in Chain(vol, StartOf(g))
              BY <1>4, <1>6, <4>2, <5>2
            <6>2. QED
              BY <1>5, <3>1, <3>2, <5>2, <6>1
          <5>3. QED
            BY <5>1, <5>2
        <4>3. QED
          BY <4>1, <4>2
      <3>4. QED
        BY <3>3
    <2>4. QED
      BY <1>5, <2>1, <2>2, <2>3 DEF ChainsApart, Counted
  <1>9. SizesFit'
    <2>1. ASSUME NEW g \in File
          PROVE  IF StartOf(g)' = CLUSTER_FREE THEN SizeOf(g)' = 0
                 ELSE SizeOf(g)' > 0 /\ Size(vol', StartOf(g)') = ClustersFor(SizeOf(g)')
      <3>1. CASE g = f
        BY <1>4, <3>1
      <3>2. CASE g # f
        <4>1. IF StartOf(g) = CLUSTER_FREE THEN SizeOf(g) = 0
              ELSE SizeOf(g) > 0 /\ Size(vol, StartOf(g)) = ClustersFor(SizeOf(g))
          BY FileFact
        <4>2. QED
          BY <1>4, <1>6, <3>2, <4>1
      <3>3. QED
        BY <3>1, <3>2
    <2>2. QED
      BY <2>1 DEF SizesFit
  <1>10. ASSUME NEW g \in File, file'[g].inUse PROVE Placed(vol', file'[g]) /\ Agrees(file'[g], entry'[g])
    <2>1. CASE g = f
      BY <1>3, <1>10, <2>1
    <2>2. CASE g # f
      <3>1. file'[g] = file[g] /\ entry'[g] = entry[g] /\ file[g].inUse
        BY <1>3, <1>10, <2>2
      <3> DEFINE b == file[g].startCluster
      <3>2. Placed(vol, file[g]) /\ Agrees(file[g], entry[g]) /\ StartOf(g) = b /\ vol \in Tables
            /\ (b # CLUSTER_FREE => b \in Cluster /\ Sound(vol, b))
        BY <3>1, FileFact DEF StartIn
      <3>3. ASSUME b # CLUSTER_FREE, NEW p, NEW x, IsAt(vol, b, p, x) PROVE IsAt(vol', b, p, x)
        <4>1. b \in Cluster /\ Sound(vol, b) /\ Size(vol', b) = Size(vol, b)
              /\ \A k \in 0..LastCluster : Walk(vol', b)[k] = Walk(vol, b)[k]
          BY <1>6, <2>2, <3>2, <3>3
        <4> HIDE DEF b
        <4>2. QED
          BY <3>2, <3>3, <4>1, SameAt
      <3>4. Placed(vol', file[g])
        BY <3>2, <3>3 DEF Placed
      <3>5. QED
        BY <3>1, <3>2, <3>4
    <2>3. QED
      BY <2>1, <2>2
  <1>11. QED
    BY <1>7, <1>8, <1>9, <1>10 DEF FileInv, HandleFits

LEMMA SetFact ==
  ASSUME FileInv, NEW f \in File, NEW h \in Handles, h.inUse, Set(f, h),
         NEW c, c = h.startCluster, NEW n, n = h.filesize, Reshaped(vol, StartOf(f), vol', c),
         IF c = CLUSTER_FREE THEN n = 0 ELSE n > 0 /\ Size(vol', c) = ClustersFor(n),
         Placed(vol', h), Agrees(h, entry[f])
  PROVE  FileInv'
  <1> DEFINE e == IF h.modified THEN NoEntry ELSE entry[f]
  <1>1. entry \in [File -> Entries] /\ MaxSize \in Nat
    BY UnitFact DEF FileInv, TypeOK, Entries
  <1>2. NoEntry \in Entries
    BY <1>1 DEF NoEntry, Entries
  <1>3. e \in Entries
    BY <1>1, <1>2
  <1>4. file' = [file EXCEPT ![f] = h] /\ entry' = [entry EXCEPT ![f] = e]
    <2>1. CASE h.modified
      BY <2>1 DEF Set
    <2>2. CASE ~h.modified
      BY <1>1, <2>2 DEF Set
    <2>3. QED
      BY <2>1, <2>2
  <1>5. c = StartIn(h, e) /\ n = SizeIn(h, e)
    BY DEF StartIn, SizeIn
  <1>6. Agrees(h, e)
    BY DEF Agrees
  <1> HIDE DEF e
  <1>7. QED
    BY <1>3, <1>4, <1>5, <1>6, ChangeFact

(* The chain and the size stay.                                               *)
LEMMA StayFact ==
  ASSUME FileInv, NEW f \in File, NEW h \in Handles, NEW e \in Entries,
         vol' = vol, file' = [file EXCEPT ![f] = h], entry' = [entry EXCEPT ![f] = e],
         StartIn(h, e) = StartOf(f), SizeIn(h, e) = SizeOf(f),
         h.inUse => Placed(vol, h) /\ Agrees(h, e)
  PROVE  FileInv'
  <1> DEFINE c == StartOf(f)
             n == SizeOf(f)
  <1>1. /\ vol \in Tables /\ Counted(vol)
        /\ c # CLUSTER_FREE => c \in Cluster /\ Sound(vol, c)
        /\ IF c = CLUSTER_FREE THEN n = 0 ELSE n > 0 /\ Size(vol, c) = ClustersFor(n)
    BY FileFact
  <1>2. Reshaped(vol, c, vol, c)
    BY <1>1, SameShape
  <1>3. /\ Reshaped(vol, StartOf(f), vol', c)
        /\ IF c = CLUSTER_FREE THEN n = 0 ELSE n > 0 /\ Size(vol', c) = ClustersFor(n)
        /\ h.inUse => Placed(vol', h) /\ Agrees(h, e)
    BY <1>1, <1>2
  <1>4. c = StartIn(h, e) /\ n = SizeIn(h, e)
    OBVIOUS
  <1> HIDE DEF c, n
  <1>5. QED
    BY <1>3, <1>4, ChangeFact

LEMMA NothingChanges == FileInv /\ vol' = vol /\ file' = file /\ entry' = entry => FileInv'
  <1> SUFFICES ASSUME FileInv, vol' = vol, file' = file, entry' = entry PROVE FileInv'
    OBVIOUS
  <1>1. \A f \in File : StartOf(f)' = StartOf(f) /\ SizeOf(f)' = SizeOf(f)
    BY DEF StartOf, SizeOf
  <1>2. TypeOK'
    BY DEF FileInv, TypeOK
  <1>3. ChainsApart'
    <2>1. \A f \in File : StartOf(f)' # CLUSTER_FREE => Sound(vol', StartOf(f)')
      BY <1>1 DEF FileInv, ChainsApart
    <2>2. \A f, g \in File : f # g => Chain(vol', StartOf(f)') \intersect Chain(vol', StartOf(g)') = {}
      BY <1>1 DEF FileInv, ChainsApart
    <2>3. {Chain(vol', StartOf(f)') : f \in File} = {Chain(vol, StartOf(f)) : f \in File}
      BY <1>1
    <2>4. QED
      BY <2>1, <2>2, <2>3 DEF FileInv, ChainsApart
  <1>4. SizesFit'
    BY <1>1 DEF FileInv, SizesFit
  <1>5. \A f \in File : file'[f].inUse => HandleFits(f)'
    BY DEF FileInv, HandleFits
  <1>6. QED
    BY <1>2, <1>3, <1>4, <1>5 DEF FileInv

-----------------------------------------------------------------------------
(* The bytes of the files.                                                    *)

(* What a program sees: the bytes of the files and the positions in them.     *)
Bytes == [f \in File |-> BytesOf(f)]
Positions == [f \in File |-> IF file[f].inUse THEN file[f].currentPosition ELSE -1]

(* The n bytes of the chain from c on of table v, when the clusters have the  *)
(* bytes d, and the position that a program sees of handle h.                 *)
BytesIn(v, d, c, n) == [i \in 1..n |-> d[Spot(v, c, i - 1)]]
PositionIn(h) == IF h.inUse THEN h.currentPosition ELSE -1

LEMMA BytesFact == ASSUME NEW f \in File PROVE Bytes[f] = BytesIn(vol, data, StartOf(f), SizeOf(f))
  BY DEF Bytes, BytesOf, BytesIn, Spot, Span

LEMMA LenFact ==
  ASSUME NEW n \in Nat, NEW b, b = [i \in 1..n |-> b[i]]
  PROVE  Len(b) = n
  <1> DEFINE S == {b[i] : i \in 1..n}
  <1>1. b \in Seq(S)
    BY SeqDef
  <1>2. Len(b) \in Nat /\ DOMAIN b = 1..Len(b)
    BY <1>1, LenProperties
  <1>3. 1..Len(b) = 1..n
    <2>1. DOMAIN b = 1..n
      OBVIOUS
    <2>2. QED
      BY <1>2, <2>1
  <1>4. QED
    BY <1>2, <1>3

LEMMA LenOf ==
  ASSUME NEW n \in Nat, NEW v, NEW d, NEW c
  PROVE  /\ Len(BytesIn(v, d, c, n)) = n
         /\ BytesIn(v, d, c, n) = [i \in 1..n |-> BytesIn(v, d, c, n)[i]]
  <1> DEFINE b == BytesIn(v, d, c, n)
  <1>1. b = [i \in 1..n |-> b[i]]
    BY DEF BytesIn
  <1> HIDE DEF b
  <1>2. Len(b) = n
    BY <1>1, LenFact
  <1>3. QED
    BY <1>1, <1>2 DEF b

LEMMA SpotStays ==
  ASSUME NEW v \in Tables, NEW w, NEW c \in Cluster, Sound(v, c),
         \A k \in 0..LastCluster : Walk(w, c)[k] = Walk(v, c)[k]
  PROVE  \A x \in Nat : x < Span(Size(v, c)) =>
            /\ Spot(w, c, x) = Spot(v, c, x)
            /\ Spot(v, c, x) \in Place /\ Home(Spot(v, c, x)) \in Chain(v, c)
  <1> DEFINE n == Size(v, c)
  <1>1. n \in Nat /\ n <= LastCluster /\ LastCluster \in Nat
    BY LinksFact, ClusterFact
  <1> HIDE DEF n
  <1>2. \A k \in 0..n - 1 : Walk(w, c)[k] = Walk(v, c)[k]
    BY <1>1
  <1>3. \A x \in Nat : x < Span(n) => Spot(w, c, x) = Spot(v, c, x)
    BY <1>1, <1>2, SameSpot
  <1>4. QED
    BY <1>3, SpotFact DEF n

(* Nothing is written to the clusters of other files.                         *)
Elsewhere(f) ==
    \A i \in Place : Home(i) \in UsedClusters(vol) \ Chain(vol, StartOf(f)) => data'[i] = data[i]

(* After a call, file f has the bytes b, and p is the position in it.         *)
Seen(f, b, p) == Bytes' = [Bytes EXCEPT ![f] = b] /\ Positions' = [Positions EXCEPT ![f] = p]

LEMMA SeenFact ==
  ASSUME FileInv, NEW f \in File, NEW h \in Handles, NEW e \in Entries,
         file' = [file EXCEPT ![f] = h], entry' = [entry EXCEPT ![f] = e],
         NEW c, c = StartIn(h, e), NEW n, n = SizeIn(h, e), Reshaped(vol, StartOf(f), vol', c),
         Elsewhere(f)
  PROVE  Seen(f, BytesIn(vol', data', c, n), PositionIn(h))
  <1>1. file \in [File -> Handles] /\ entry \in [File -> Entries]
    BY DEF FileInv, TypeOK, Handles, Entries
  <1>3. file'[f] = h /\ entry'[f] = e
        /\ \A g \in File : g # f => file'[g] = file[g] /\ entry'[g] = entry[g]
    BY <1>1
  <1>4. StartOf(f)' = c /\ SizeOf(f)' = n
        /\ \A g \in File : g # f => StartOf(g)' = StartOf(g) /\ SizeOf(g)' = SizeOf(g)
    BY <1>3 DEF StartOf, SizeOf, StartIn, SizeIn
  <1>5. Positions' = [Positions EXCEPT ![f] = PositionIn(h)]
    BY <1>1, <1>3 DEF Positions, PositionIn
  <1>6. \A g \in File : Bytes'[g] = BytesIn(vol', data', StartOf(g)', SizeOf(g)')
    BY DEF Bytes, BytesOf, BytesIn, Spot, Span
  <1>7. ASSUME NEW g \in File, g # f PROVE Bytes'[g] = Bytes[g]
    <2> DEFINE b == StartOf(g)
               m == SizeOf(g)
    <2>1. Bytes[g] = BytesIn(vol, data, b, m) /\ Bytes'[g] = BytesIn(vol', data', b, m)
      BY <1>4, <1>6, <1>7, BytesFact
    <2>2. /\ vol \in Tables /\ m \in 0..MaxSize /\ MaxSize \in Nat
          /\ b # CLUSTER_FREE => b \in Cluster /\ Sound(vol, b)
          /\ IF b = CLUSTER_FREE THEN m = 0 ELSE m > 0 /\ Size(vol, b) = ClustersFor(m)
      BY FileFact, UnitFact
    <2>3. CASE b = CLUSTER_FREE
      <3>1. 1..m = {}
        BY <2>2, <2>3
      <3>2. QED
        BY <2>1, <3>1 DEF BytesIn
    <2>4. CASE b # CLUSTER_FREE
      <3> DEFINE z == Size(vol, b)
      <3>1. b \in Cluster /\ Sound(vol, b) /\ m \in Nat /\ m > 0 /\ Size(vol, b) = ClustersFor(m)
        BY <2>2, <2>4
      <3>2. /\ Chain(vol, b) \intersect Chain(vol, StartOf(f)) = {}
            /\ Chain(vol, b) \subseteq UsedClusters(vol)
        <4>1. Chain(vol, b) \intersect Chain(vol, StartOf(f)) = {}
          BY <1>7 DEF FileInv, ChainsApart
        <4>2. QED
          BY <2>2, <3>1, <4>1, LinkFact DEF UsedClusters, FreeClusters
      <3>3. \A k \in 0..LastCluster : Walk(vol', b)[k] = Walk(vol, b)[k]
        BY <1>7, <2>4, OtherKept
      <3> HIDE DEF b, m, z
      <3>4. m <= Span(z) /\ Span(z) \in Nat
        BY <2>2, <3>1, LinksFact, FitsFact, SpanFact DEF z, Fits
      <3>5. \A x \in Nat : x < Span(z) =>
               /\ Spot(vol', b, x) = Spot(vol, b, x)
               /\ Spot(vol, b, x) \in Place /\ Home(Spot(vol, b, x)) \in Chain(vol, b)
        BY <2>2, <3>1, <3>3, SpotStays DEF z
      <3>8. \A x \in Nat : x < m => data'[Spot(vol', b, x)] = data[Spot(vol, b, x)]
        <4> TAKE x \in Nat
        <4> HAVE x < m
        <4> DEFINE i == Spot(vol, b, x)
        <4>1. x < Span(z)
          BY <3>1, <3>4
        <4>2. Spot(vol', b, x) = i /\ i \in Place /\ Home(i) \in UsedClusters(vol) \ Chain(vol, StartOf(f))
          BY <3>2, <3>5, <4>1
        <4> HIDE DEF i
        <4>3. data'[i] = data[i]
          BY <4>2 DEF Elsewhere
        <4>4. QED
          BY <4>2, <4>3 DEF i
      <3>9. \A i \in 1..m : i - 1 \in Nat /\ i - 1 < m
        BY <3>1
      <3>10. QED
        BY <2>1, <3>8, <3>9 DEF BytesIn
    <2>5. QED
      BY <2>3, <2>4
  <1>8. Bytes'[f] = BytesIn(vol', data', c, n)
    BY <1>4, <1>6
  <1>9. Bytes' = [g \in File |-> Bytes'[g]] /\ Bytes = [g \in File |-> Bytes[g]]
    BY DEF Bytes
  <1> HIDE DEF Bytes
  <1>10. Bytes' = [Bytes EXCEPT ![f] = BytesIn(vol', data', c, n)]
    BY <1>7, <1>8, <1>9
  <1>11. QED
    BY <1>5, <1>10 DEF Seen

LEMMA SetSeen ==
  ASSUME FileInv, NEW f \in File, NEW h \in Handles, h.inUse, Set(f, h),
         NEW c, c = h.startCluster, NEW n, n = h.filesize, Reshaped(vol, StartOf(f), vol', c),
         Elsewhere(f)
  PROVE  Seen(f, BytesIn(vol', data', c, n), h.currentPosition)
  <1> DEFINE e == IF h.modified THEN NoEntry ELSE entry[f]
  <1>1. entry \in [File -> Entries] /\ MaxSize \in Nat
    BY UnitFact DEF FileInv, TypeOK, Entries
  <1>2. NoEntry \in Entries
    BY <1>1 DEF NoEntry, Entries
  <1>3. e \in Entries
    BY <1>1, <1>2
  <1>4. file' = [file EXCEPT ![f] = h] /\ entry' = [entry EXCEPT ![f] = e]
    <2>1. CASE h.modified
      BY <2>1 DEF Set
    <2>2. CASE ~h.modified
      BY <1>1, <2>2 DEF Set
    <2>3. QED
      BY <2>1, <2>2
  <1>5. c = StartIn(h, e) /\ n = SizeIn(h, e) /\ PositionIn(h) = h.currentPosition
    BY DEF StartIn, SizeIn, PositionIn
  <1> HIDE DEF e
  <1>6. Seen(f, BytesIn(vol', data', c, n), PositionIn(h))
    BY <1>3, <1>4, <1>5, SeenFact
  <1>7. QED
    BY <1>5, <1>6

LEMMA StaySeen ==
  ASSUME FileInv, NEW f \in File, NEW h \in Handles, NEW e \in Entries,
         vol' = vol, data' = data, file' = [file EXCEPT ![f] = h], entry' = [entry EXCEPT ![f] = e],
         StartIn(h, e) = StartOf(f), SizeIn(h, e) = SizeOf(f)
  PROVE  Seen(f, Bytes[f], PositionIn(h))
  <1>1. file \in [File -> Handles] /\ entry \in [File -> Entries]
    BY DEF FileInv, TypeOK, Handles, Entries
  <1>2. \A g \in File : StartOf(g)' = StartOf(g) /\ SizeOf(g)' = SizeOf(g)
    <2> TAKE g \in File
    <2>1. CASE g = f
      BY <1>1, <2>1 DEF StartOf, SizeOf, StartIn, SizeIn
    <2>2. CASE g # f
      BY <1>1, <2>2 DEF StartOf, SizeOf
    <2>3. QED
      BY <2>1, <2>2
  <1>3. Bytes' = Bytes
    BY <1>2 DEF Bytes, BytesOf
  <1>4. Positions' = [Positions EXCEPT ![f] = PositionIn(h)]
    BY <1>1 DEF Positions, PositionIn
  <1>5. Bytes = [Bytes EXCEPT ![f] = Bytes[f]]
    BY DEF Bytes
  <1>6. QED
    BY <1>3, <1>4, <1>5 DEF Seen

(* The bytes that stay when a chain is cut, or none is.                       *)
LEMMA KeptFact ==
  ASSUME NEW v \in Tables, NEW c \in Cluster, Sound(v, c), NEW n \in Nat, n <= Span(Size(v, c))
  PROVE  \A x \in Nat : x < n => Kept(v)[Spot(v, c, x)] = data[Spot(v, c, x)]
  <1> TAKE x \in Nat
  <1> HAVE x < n
  <1> DEFINE i == Spot(v, c, x)
             z == Span(Size(v, c))
  <1>1. z \in Nat
    BY LinksFact, SpanFact
  <1>2. x < z
    BY <1>1
  <1>3. i \in Place /\ Home(i) \in Chain(v, c)
    BY <1>2, SpotFact
  <1> HIDE DEF i, z
  <1>4. v.fat[Home(i)] # CLUSTER_FREE
    BY <1>3, LinkFact
  <1>5. Kept(v)[i] = data[i]
    BY <1>3, <1>4 DEF Kept, Home
  <1>6. QED
    BY <1>5 DEF i

LEMMA KeptElsewhere ==
  ASSUME FileInv, NEW f \in File, NEW w, NEW d, Reshaped(vol, StartOf(f), w, d), data' = Kept(w)
  PROVE  Elsewhere(f)
  <1> SUFFICES ASSUME NEW i \in Place, Home(i) \in UsedClusters(vol) \ Chain(vol, StartOf(f))
               PROVE  data'[i] = data[i]
    BY DEF Elsewhere
  <1> DEFINE k == Home(i)
  <1>1. k \in Cluster /\ k \notin FreeClusters(vol) /\ k \notin Chain(vol, StartOf(f))
    BY DEF UsedClusters
  <1>2. k \notin Chain(w, d) /\ w.fat[k] = vol.fat[k] /\ vol.fat[k] # CLUSTER_FREE
    BY <1>1 DEF Reshaped, FreeClusters
  <1>3. QED
    BY <1>2 DEF Kept, Home

(* Only the chain of the file itself is written to.                           *)
LEMMA WrittenElsewhere ==
  ASSUME NEW f \in File, NEW w, NEW d, Reshaped(vol, StartOf(f), w, d),
         \A i \in Place : Home(i) \notin Chain(w, d) => data'[i] = data[i]
  PROVE  Elsewhere(f)
  <1> SUFFICES ASSUME NEW i \in Place, Home(i) \in UsedClusters(vol) \ Chain(vol, StartOf(f))
               PROVE  data'[i] = data[i]
    BY DEF Elsewhere
  <1>1. Home(i) \notin FreeClusters(vol) /\ Home(i) \notin Chain(vol, StartOf(f))
    BY DEF UsedClusters
  <1>2. Home(i) \notin Chain(w, d)
    BY <1>1 DEF Reshaped
  <1>3. QED
    BY <1>2

(* What a program sees of a call, put as PosixFile has it.                    *)
LEMMA SameBytes == ASSUME NEW f \in File PROVE [Bytes EXCEPT ![f] = Bytes[f]] = Bytes
  BY DEF Bytes

LEMMA SeesOpen ==
  ASSUME NEW f \in File, Positions[f] = -1, NEW b, b = Bytes[f] \/ b = <<>>, Seen(f, b, 0), out' = <<>>
  PROVE  Posix!Open(f)
  <1>1. Bytes' = Bytes \/ Bytes' = [Bytes EXCEPT ![f] = <<>>]
    BY SameBytes DEF Seen
  <1>2. Positions' = [Positions EXCEPT ![f] = 0]
    BY DEF Seen
  <1>3. QED
    BY <1>1, <1>2 DEF Posix!Open, Bytes, Positions

LEMMA SeesClose ==
  ASSUME NEW f \in File, Positions[f] # -1, Seen(f, Bytes[f], -1), out' = <<>>
  PROVE  Posix!Close(f)
  <1>1. Bytes' = Bytes /\ Positions' = [Positions EXCEPT ![f] = -1]
    BY SameBytes DEF Seen
  <1>2. QED
    BY <1>1 DEF Posix!Close, Bytes, Positions

LEMMA SeesSeek ==
  ASSUME NEW f \in File, Positions[f] # -1, NEW p \in Nat, Seen(f, Bytes[f], p), out' = <<>>
  PROVE  Posix!Seek(f)
  <1>1. Bytes' = Bytes /\ Positions' = [Positions EXCEPT ![f] = p]
    BY SameBytes DEF Seen
  <1>2. Positions'[f] = p
    BY <1>1 DEF Positions
  <1>3. QED
    BY <1>1, <1>2 DEF Posix!Seek, Bytes, Positions

LEMMA SeesTruncate ==
  ASSUME NEW f \in File, Positions[f] # -1, NEW n \in Nat, NEW b, b = Posix!Upto(f, n), Len(b) = n,
         Seen(f, b, Positions[f]), out' = <<>>
  PROVE  Posix!Truncate(f)
  <1>1. Bytes' = [Bytes EXCEPT ![f] = b] /\ Positions' = Positions
    BY DEF Seen, Positions
  <1>2. Len(Bytes'[f]) = n
    BY <1>1 DEF Bytes
  <1>3. Bytes' = [Bytes EXCEPT ![f] = Posix!Upto(f, Len(Bytes'[f]))]
    BY <1>1, <1>2
  <1>4. QED
    BY <1>1, <1>3 DEF Posix!Truncate, Bytes, Positions

LEMMA SeesRead ==
  ASSUME NEW f \in File, Positions[f] # -1, NEW len, NEW x, NEW y, x = Positions[f] + 1,
         y = Posix!Smaller(Positions[f] + len, Len(Bytes[f])), out' = SubSeq(Bytes[f], x, y),
         NEW p, p = Positions[f] + Len(out'), Seen(f, Bytes[f], p)
  PROVE  Posix!Read(f, len)
  <1>1. Bytes' = Bytes /\ Positions' = [Positions EXCEPT ![f] = p]
    BY SameBytes DEF Seen
  <1>2. Positions' = [Positions EXCEPT ![f] = @ + Len(out')]
    BY <1>1
  <1>3. out' = SubSeq(Bytes[f], Positions[f] + 1, Posix!Smaller(Positions[f] + len, Len(Bytes[f])))
    OBVIOUS
  <1>4. QED
    BY <1>1, <1>2, <1>3 DEF Posix!Read, Bytes, Positions

LEMMA SeesWrite ==
  ASSUME NEW f \in File, Positions[f] # -1, NEW len \in Nat, NEW m \in 0..len,
         m < len => FreeClusters(vol') = {}, NEW x, NEW b, b = Posix!Overlaid(f, x, m), NEW p, Seen(f, b, p),
         \/ x = Positions[f] /\ p = Positions[f] + m
         \/ x = Len(Bytes[f]) /\ p = Positions[f], out' = <<>>
  PROVE  Posix!Write(f, len)
  <1>1. Bytes' = [Bytes EXCEPT ![f] = b] /\ Positions' = [Positions EXCEPT ![f] = p]
    BY DEF Seen
  <1>2. m < len => (FreeClusters(vol) = {})'
    OBVIOUS
  <1>3. CASE x = Positions[f] /\ p = Positions[f] + m
    <2>1. /\ Bytes' = [Bytes EXCEPT ![f] = Posix!Overlaid(f, Positions[f], m)]
          /\ Positions' = [Positions EXCEPT ![f] = @ + m]
      BY <1>1, <1>3
    <2>2. QED
      BY <1>2, <2>1 DEF Posix!Write, Bytes, Positions
  <1>4. CASE x = Len(Bytes[f]) /\ p = Positions[f]
    <2>1. Bytes' = [Bytes EXCEPT ![f] = Posix!Overlaid(f, Len(Bytes[f]), m)]
      BY <1>1, <1>4
    <2>2. Positions' = Positions
      BY <1>1, <1>4 DEF Positions
    <2>3. QED
      BY <1>2, <2>1, <2>2 DEF Posix!Write, Bytes, Positions
  <1>5. QED
    BY <1>3, <1>4

LEMMA UptoFact ==
  ASSUME NEW f \in File, NEW n
  PROVE  Posix!Upto(f, n) = [i \in 1..n |-> IF i <= Len(Bytes[f]) THEN Bytes[f][i] ELSE Zero]
  BY DEF Posix!Upto, Bytes

(* File f, of n bytes, when those from offset p to z are what the program     *)
(* writes there.                                                              *)
Overlay(f, p, z, n) ==
    [i \in 1..(IF z > n THEN z ELSE n) |->
        IF p < i /\ i <= z THEN Byte(f, i - 1) ELSE IF i <= n THEN Bytes[f][i] ELSE Zero]

LEMMA OverlaidFact ==
  ASSUME NEW f \in File, NEW p, NEW m, NEW z, z = p + m, NEW n, n = Len(Bytes[f])
  PROVE  Posix!Overlaid(f, p, m) = Overlay(f, p, z, n)
  BY DEF Posix!Overlaid, Bytes, Overlay

LEMMA FileBytes ==
  ASSUME FileInv, NEW f \in File
  PROVE  /\ Len(Bytes[f]) = SizeOf(f) /\ Bytes[f] = [i \in 1..SizeOf(f) |-> Bytes[f][i]]
         /\ \A i \in 1..SizeOf(f) : Bytes[f][i] = data[Spot(vol, StartOf(f), i - 1)]
         /\ file[f].inUse => Positions[f] = file[f].currentPosition /\ Positions[f] \in Nat
                             /\ Positions[f] # -1
         /\ ~file[f].inUse => Positions[f] = -1
  <1> DEFINE n == SizeOf(f)
  <1>1. n \in Nat /\ MaxSize \in Nat /\ file[f] \in Handles
    BY FileFact, UnitFact
  <1>2. Bytes[f] = BytesIn(vol, data, StartOf(f), n)
    BY BytesFact
  <1> HIDE DEF n
  <1>3. Len(Bytes[f]) = n /\ Bytes[f] = [i \in 1..n |-> Bytes[f][i]]
    BY <1>1, <1>2, LenOf
  <1>4. \A i \in 1..n : Bytes[f][i] = data[Spot(vol, StartOf(f), i - 1)]
    BY <1>2 DEF BytesIn
  <1>5. file[f].inUse => file[f].currentPosition \in Nat /\ Positions[f] = file[f].currentPosition
    BY <1>1 DEF Handles, Positions
  <1>6. ~file[f].inUse => Positions[f] = -1
    BY DEF Positions
  <1>7. QED
    BY <1>3, <1>4, <1>5, <1>6 DEF n

LEMMA SameIn ==
  ASSUME NEW v, NEW c, NEW d, NEW e, NEW n \in Nat,
         \A x \in Nat : x < n => e[Spot(v, c, x)] = d[Spot(v, c, x)]
  PROVE  BytesIn(v, e, c, n) = BytesIn(v, d, c, n)
  <1>1. \A i \in 1..n : i - 1 \in Nat /\ i - 1 < n
    OBVIOUS
  <1>2. QED
    BY <1>1 DEF BytesIn

LEMMA SubIs ==
  ASSUME NEW b, NEW here \in Nat, NEW n \in Nat, NEW x, x = here + 1, NEW y, y = here + n,
         NEW g, g = [i \in 1..n |-> b[here + i]]
  PROVE  g = SubSeq(b, x, y) /\ Len(g) = n
  <1> DEFINE S == {b[i] : i \in x..y}
             t == SubSeq(b, x, y)
  <1>1. x \in Int /\ y \in Int /\ \A i \in x..y : b[i] \in S
    OBVIOUS
  <1>2. /\ t \in Seq(S) /\ Len(t) = (IF x <= y THEN y - x + 1 ELSE 0)
        /\ \A i \in 1..y - x + 1 : t[i] = b[x + i - 1]
    BY ONLY <1>1, SubSeqProperties
  <1> HIDE DEF t, S
  <1>3. Len(t) = n /\ \A i \in 1..n : t[i] = b[here + i]
    <2>1. y - x + 1 = n /\ (IF x <= y THEN y - x + 1 ELSE 0) = n /\ \A i \in 1..n : x + i - 1 = here + i
      OBVIOUS
    <2>2. QED
      BY <1>2, <2>1
  <1>4. DOMAIN t = 1..n /\ t = [i \in 1..n |-> t[i]]
    BY <1>2, <1>3, LenProperties
  <1>5. t = g
    BY <1>3, <1>4
  <1>6. QED
    BY <1>3, <1>5 DEF t

(* A file that is cut to its own length.                                      *)
LEMMA UptoSame ==
  ASSUME FileInv, NEW f \in File, NEW n, n = SizeOf(f)
  PROVE  Bytes[f] = Posix!Upto(f, n) /\ Len(Bytes[f]) = n /\ n \in Nat
  <1> DEFINE b == Bytes[f]
  <1>1. n \in Nat /\ Len(b) = n /\ b = [i \in 1..n |-> b[i]]
    BY FileFact, UnitFact, FileBytes
  <1>2. Posix!Upto(f, n) = [i \in 1..n |-> IF i <= n THEN b[i] ELSE Zero]
    BY <1>1, UptoFact
  <1> HIDE DEF b
  <1>3. \A i \in 1..n : i <= n
    BY <1>1
  <1>4. [i \in 1..n |-> IF i <= n THEN b[i] ELSE Zero] = [i \in 1..n |-> b[i]]
    BY <1>3
  <1>5. QED
    BY <1>1, <1>2, <1>4 DEF b

-----------------------------------------------------------------------------
(* The calls, one by one: each keeps the invariant, and is what PosixFile has *)
(* a call do.                                                                 *)

(* The entry of a handle, once it is written.                                 *)
EntryOf(h) == [startCluster |-> h.startCluster, filesize |-> h.filesize]

LEMMA SyncedFact ==
  ASSUME FileInv, NEW f \in File, file[f].inUse
  PROVE  Synced(f) = [entry EXCEPT ![f] = EntryOf(file[f])] /\ EntryOf(file[f]) \in Entries
         /\ StartOf(f) = file[f].startCluster /\ SizeOf(f) = file[f].filesize
  <1>1. file[f] \in Handles /\ entry \in [File -> Entries] /\ Agrees(file[f], entry[f])
    BY FileFact DEF FileInv, TypeOK, Entries
  <1>2. EntryOf(file[f]) \in Entries
    BY <1>1 DEF EntryOf, Handles, Entries
  <1>3. CASE file[f].modified
    BY <1>2, <1>3 DEF Synced, EntryOf, StartOf, SizeOf
  <1>4. CASE ~file[f].modified
    BY <1>1, <1>2, <1>4 DEF Synced, EntryOf, Agrees, StartOf, SizeOf
  <1>5. QED
    BY <1>3, <1>4

LEMMA ClosedFact == Closed \in Handles /\ ~Closed.inUse
  <1>1. Pos(CLUSTER_FREE, 0, 0) \in Position
    BY UnitFact DEF Pos, Position
  <1>2. 0 \in 0..MaxSize
    BY UnitFact
  <1> DEFINE p == Pos(CLUSTER_FREE, 0, 0)
  <1> HIDE DEF p
  <1>3. Closed = [inUse |-> FALSE, append |-> FALSE, modified |-> FALSE, filesize |-> 0,
                  startCluster |-> CLUSTER_FREE, currentPosition |-> 0,
                  rwPosition |-> p, appendPosition |-> p]
    BY DEF Closed, p
  <1>4. QED
    BY <1>1, <1>2, <1>3 DEF Handles, p

LEMMA CloseKeeps ==
  ASSUME FileInv, NEW f \in File, Close(f)
  PROVE  FileInv' /\ Posix!Close(f)
  <1> DEFINE h == Closed
             e == EntryOf(file[f])
  <1>1. h \in Handles /\ ~h.inUse
    BY ClosedFact
  <1>2. Synced(f) = [entry EXCEPT ![f] = e] /\ e \in Entries
        /\ StartOf(f) = file[f].startCluster /\ SizeOf(f) = file[f].filesize
    BY SyncedFact DEF Close
  <1>3. /\ vol' = vol /\ data' = data /\ out' = <<>>
        /\ file' = [file EXCEPT ![f] = h] /\ entry' = [entry EXCEPT ![f] = e]
    BY <1>2 DEF Close
  <1>4. StartIn(h, e) = StartOf(f) /\ SizeIn(h, e) = SizeOf(f)
    BY <1>1, <1>2 DEF StartIn, SizeIn, EntryOf
  <1> HIDE DEF h, e
  <1>5. FileInv'
    BY <1>1, <1>2, <1>3, <1>4, StayFact
  <1>6. Seen(f, Bytes[f], PositionIn(h))
    BY <1>1, <1>2, <1>3, <1>4, StaySeen
  <1>7. PositionIn(h) = -1 /\ Positions[f] # -1
    BY <1>1, FileBytes DEF Close, PositionIn
  <1>8. Posix!Close(f)
    BY <1>3, <1>6, <1>7, SeesClose
  <1>9. QED
    BY <1>5, <1>8

LEMMA FsyncKeeps ==
  ASSUME FileInv, NEW f \in File, Fsync(f)
  PROVE  FileInv' /\ Posix!Seek(f)
  <1> DEFINE h == [file[f] EXCEPT !.modified = FALSE]
             e == EntryOf(file[f])
  <1>1. file[f] \in Handles /\ file[f].inUse /\ Placed(vol, file[f])
    BY FileFact DEF Fsync
  <1>2. Synced(f) = [entry EXCEPT ![f] = e] /\ e \in Entries
        /\ StartOf(f) = file[f].startCluster /\ SizeOf(f) = file[f].filesize
    BY <1>1, SyncedFact
  <1>3. /\ vol' = vol /\ data' = data /\ out' = <<>>
        /\ file' = [file EXCEPT ![f] = h] /\ entry' = [entry EXCEPT ![f] = e]
    BY <1>2 DEF Fsync
  <1>4. h \in Handles /\ h.inUse /\ h.startCluster = file[f].startCluster
        /\ h.filesize = file[f].filesize /\ h.append = file[f].append
        /\ h.currentPosition = file[f].currentPosition /\ h.rwPosition = file[f].rwPosition
        /\ h.appendPosition = file[f].appendPosition
    BY <1>1 DEF Handles
  <1>5. StartIn(h, e) = StartOf(f) /\ SizeIn(h, e) = SizeOf(f) /\ Placed(vol, h) /\ Agrees(h, e)
    BY <1>1, <1>2, <1>4 DEF StartIn, SizeIn, EntryOf, Placed, Agrees
  <1>p. PositionIn(h) = Positions[f] /\ Positions[f] \in Nat /\ Positions[f] # -1
    BY <1>1, <1>4, FileBytes DEF PositionIn
  <1> HIDE DEF h, e
  <1>6. FileInv'
    BY <1>2, <1>3, <1>4, <1>5, StayFact
  <1>7. Seen(f, Bytes[f], Positions[f])
    BY <1>2, <1>3, <1>4, <1>5, <1>p, StaySeen
  <1>8. Posix!Seek(f)
    BY <1>3, <1>7, <1>p, SeesSeek
  <1>9. QED
    BY <1>6, <1>8

(* The first byte of a file is at the start of its first cluster.             *)
LEMMA StartAt ==
  ASSUME NEW v \in Tables, NEW c \in Cluster, Sound(v, c)
  PROVE  IsAt(v, c, Pos(c, 0, 0), 0)
  <1>1. Size(v, c) \in Nat \ {0} /\ Walk(v, c)[0] = c /\ 0 \in 0..Size(v, c) - 1
    BY LinksFact, SoundFact
  <1>2. Offset(0, 0, 0) = 0
    BY SpanFact, RunFact DEF Offset
  <1> DEFINE p == Pos(c, 0, 0)
  <1>3. p.cluster = c /\ p.sector = 0 /\ p.byte = 0
    BY DEF Pos
  <1> HIDE DEF p
  <1>4. p.sector \in 0..SectorsPerCluster /\ p.byte \in 0..BytesPerSector - 1
        /\ p.sector # SectorsPerCluster
    BY <1>3, UnitFact
  <1>5. \E k \in 0..Size(v, c) - 1 : p.cluster = Walk(v, c)[k] /\ 0 = Offset(k, p.sector, p.byte)
    BY <1>1, <1>2, <1>3
  <1>6. IsAt(v, c, p, 0)
    BY <1>4, <1>5 DEF IsAt
  <1>7. QED
    BY <1>6 DEF p

LEMMA PositionFact ==
  ASSUME NEW c \in Cluster \union {CLUSTER_FREE}
  PROVE  Pos(c, 0, 0) \in Position
  BY UnitFact DEF Pos, Position

LEMMA LastOfNone ==
  ASSUME NEW v
  PROVE  LastOf(v, CLUSTER_FREE) = CLUSTER_FREE
  <1> DEFINE c == CLUSTER_FREE
             w == Walk(v, c)
             g == [k \in 0..LastCluster |-> c]
  <1>1. Follow(v, c)[c] = c
    BY ClusterFact DEF Follow, Ends, NextCluster
  <1>2. WalksTo(v, c, g)
    <2>1. \A k \in 0..LastCluster : k # 0 => k - 1 \in 0..LastCluster
      BY ClusterFact
    <2>2. \A k \in 0..LastCluster : g[k] = IF k = 0 THEN c ELSE Follow(v, c)[g[k - 1]]
      BY <1>1, <2>1
    <2>3. QED
      BY <2>2 DEF WalksTo
  <1>3. WalksTo(v, c, w)
    BY <1>2, WalkIs
  <1>4. \A k \in 0..LastCluster : w[k] = IF k = 0 THEN c ELSE Follow(v, c)[w[k - 1]]
    BY <1>3 DEF WalksTo
  <1> HIDE DEF w, c
  <1> DEFINE S == {k \in 0..LastCluster : w[k] # c}
  <1>5. S = {}
    <2> SUFFICES ASSUME S # {} PROVE FALSE
      OBVIOUS
    <2>1. S \in SUBSET Nat
      BY ClusterFact
    <2>2. PICK m \in S : \A k \in S : m <= k
      BY <2>1, LeastFact
    <2>3. m \in 0..LastCluster /\ w[m] # c /\ m # 0
      BY <1>4, <2>2
    <2>4. m - 1 \in 0..LastCluster /\ m - 1 \notin S
      <3>1. m \in Nat /\ m - 1 \in 0..LastCluster /\ ~(m <= m - 1)
        BY <2>3, ClusterFact
      <3>2. QED
        BY <2>2, <3>1
    <2>5. QED
      BY <1>1, <1>4, <2>3, <2>4
  <1>6. LastCluster \in 0..LastCluster
    BY ClusterFact
  <1>7. QED
    BY <1>5, <1>6 DEF LastOf, w, c

(* The end of a file that has no cluster.                                     *)
LEMMA EndOfNone ==
  ASSUME NEW v
  PROVE  EndPosition(v, CLUSTER_FREE, 0) = Pos(CLUSTER_FREE, 0, 0)
  <1>1. /\ BytesPerCluster \in Nat \ {0} /\ BytesPerSector \in Nat \ {0} /\ MaxSize \in Nat
    BY UnitFact
  <1>2. 0 % BytesPerCluster = 0 /\ 0 % BytesPerSector = 0
    BY <1>1
  <1>3. 0 \div BytesPerSector = 0
    BY <1>1
  <1>4. QED
    BY <1>2, <1>3, LastOfNone DEF EndPosition

LEMMA OpenKeeps ==
  ASSUME FileInv, NEW f \in File, NEW trunc \in BOOLEAN, NEW append \in BOOLEAN, Open(f, trunc, append)
  PROVE  FileInv' /\ Posix!Open(f)
  <1> DEFINE e == entry[f]
             cut == trunc /\ e.startCluster # CLUSTER_FREE
             v == IF cut THEN ClearLinks(vol, e.startCluster) ELSE vol
             start == IF cut THEN CLUSTER_FREE ELSE e.startCluster
             size == IF cut THEN 0 ELSE e.filesize
             rw == Pos(start, 0, 0)
             ap == IF append THEN EndPosition(v, start, size) ELSE rw
             h == [inUse |-> TRUE, append |-> append, modified |-> cut, filesize |-> size,
                   startCluster |-> start, currentPosition |-> 0, rwPosition |-> rw,
                   appendPosition |-> ap]
  <1>1. vol' = v /\ data' = Kept(v) /\ Set(f, h) /\ ~file[f].inUse /\ out' = <<>>
    BY DEF Open
  <1>2. /\ vol \in Tables /\ Counted(vol) /\ e \in Entries
        /\ StartOf(f) = e.startCluster /\ SizeOf(f) = e.filesize
        /\ e.startCluster # CLUSTER_FREE => e.startCluster \in Cluster /\ Sound(vol, e.startCluster)
        /\ IF e.startCluster = CLUSTER_FREE THEN e.filesize = 0
           ELSE e.filesize > 0 /\ Size(vol, e.startCluster) = ClustersFor(e.filesize)
    BY <1>1, FileFact DEF StartIn, SizeIn
  <1>m. 0 \in 0..MaxSize /\ MaxSize \in Nat
    BY UnitFact
  <1>3. start \in Cluster \union {CLUSTER_FREE} /\ size \in 0..MaxSize /\ cut \in BOOLEAN
    BY <1>2, <1>m DEF Entries
  <1>4. /\ Reshaped(vol, StartOf(f), v, start) /\ v \in Tables
        /\ IF start = CLUSTER_FREE THEN size = 0 ELSE size > 0 /\ Size(v, start) = ClustersFor(size)
        /\ start # CLUSTER_FREE => Sound(v, start)
    <2>1. CASE cut
      <3>1. Reshaped(vol, StartOf(f), ClearLinks(vol, e.startCluster), CLUSTER_FREE)
        BY <1>2, <2>1, ClearShape
      <3>2. v = ClearLinks(vol, e.startCluster) /\ start = CLUSTER_FREE /\ size = 0
        BY <2>1
      <3>3. QED
        BY <3>1, <3>2 DEF Reshaped
    <2>2. CASE ~cut
      <3>1. v = vol /\ start = e.startCluster /\ size = e.filesize
        BY <2>2
      <3>2. Reshaped(vol, e.startCluster, vol, e.startCluster)
        BY <1>2, SameShape
      <3>3. QED
        BY <1>2, <3>1, <3>2
    <2>3. QED
      BY <2>1, <2>2
  <1>h. h.inUse /\ h.append = append /\ h.modified = cut /\ h.filesize = size /\ h.startCluster = start
        /\ h.currentPosition = 0 /\ h.rwPosition = rw /\ h.appendPosition = ap
    OBVIOUS
  <1>5. Agrees(h, entry[f])
    <2>1. CASE cut
      BY <2>1, <1>h DEF Agrees
    <2>2. CASE ~cut
      BY <1>2, <2>2, <1>h DEF Agrees, Entries
    <2>3. QED
      BY <2>1, <2>2
  <1>b. BytesIn(v, Kept(v), start, size) = Bytes[f] \/ BytesIn(v, Kept(v), start, size) = <<>>
    <2>1. CASE start = CLUSTER_FREE
      <3>1. size = 0
        BY <1>4, <2>1
      <3> DEFINE g == [i \in Nat |-> Kept(v)[Spot(v, start, i - 1)]]
      <3>2. BytesIn(v, Kept(v), start, 0) = [i \in 1..0 |-> g[i]]
        BY DEF BytesIn
      <3> HIDE DEF g
      <3>3. BytesIn(v, Kept(v), start, 0) = <<>>
        BY <3>2, EmptyFact
      <3>4. QED
        BY <3>1, <3>3
    <2>2. CASE start # CLUSTER_FREE
      <3>1. v = vol /\ start = e.startCluster /\ size = e.filesize
        BY <2>2
      <3>2. start \in Cluster /\ Sound(v, start) /\ v \in Tables /\ size \in Nat /\ size > 0
            /\ Size(v, start) = ClustersFor(size)
        BY <1>3, <1>4, <1>m, <2>2
      <3>3. Bytes[f] = BytesIn(v, data, start, size)
        BY <1>2, <3>1, BytesFact
      <3> HIDE DEF v, start, size
      <3>4. size <= Span(Size(v, start))
        BY <3>2, FitsFact DEF Fits
      <3>5. \A x \in Nat : x < size => Kept(v)[Spot(v, start, x)] = data[Spot(v, start, x)]
        BY <3>2, <3>4, KeptFact
      <3>6. BytesIn(v, Kept(v), start, size) = Bytes[f]
        BY <3>2, <3>3, <3>5, SameIn
      <3>7. QED
        BY <3>6
    <2>3. QED
      BY <2>1, <2>2
  <1> HIDE DEF e, cut, v, start, size
  <1>6. rw \in Position
    BY <1>3, PositionFact
  <1>7. start # CLUSTER_FREE => IsAt(v, start, rw, 0)
    BY <1>3, <1>4, StartAt
  <1>8. start # CLUSTER_FREE => IsAt(v, start, EndPosition(v, start, size), size)
                                /\ EndPosition(v, start, size) \in Position
    <2> SUFFICES ASSUME start # CLUSTER_FREE
                 PROVE  IsAt(v, start, EndPosition(v, start, size), size)
                        /\ EndPosition(v, start, size) \in Position
      OBVIOUS
    <2>1. start \in Cluster /\ Sound(v, start) /\ size \in Nat /\ size > 0
          /\ Size(v, start) = ClustersFor(size)
      BY <1>3, <1>4, <1>m
    <2>2. Fits(v, start, size)
      BY <1>4, <2>1, FitsFact
    <2>3. QED
      BY <1>4, <2>1, <2>2, EndFact DEF Fits
  <1>9. ap \in Position
    <2>1. CASE start = CLUSTER_FREE
      <3>1. EndPosition(v, start, size) = Pos(CLUSTER_FREE, 0, 0)
        BY <1>4, <2>1, EndOfNone
      <3>2. QED
        BY <1>6, <2>1, <3>1
    <2>2. CASE start # CLUSTER_FREE
      BY <1>6, <1>8, <2>2
    <2>3. QED
      BY <2>1, <2>2
  <1>10. h \in Handles
    <2> HIDE DEF rw, ap
    <2>1. QED
      BY <1>3, <1>6, <1>9, <1>m DEF Handles
  <1>11. Placed(v, h)
    <2>1. append => ap = EndPosition(v, start, size)
      OBVIOUS
    <2> HIDE DEF rw, ap, h
    <2>2. 0 <= size
      BY <1>3, <1>m
    <2>3. QED
      BY <1>7, <1>8, <1>h, <2>1, <2>2 DEF Placed
  <1> HIDE DEF h, rw, ap
  <1>12. FileInv'
    BY <1>1, <1>4, <1>5, <1>10, <1>11, <1>h, SetFact
  <1>13. Seen(f, BytesIn(v, Kept(v), start, size), 0)
    <2>1. Elsewhere(f)
      BY <1>1, <1>4, KeptElsewhere
    <2>2. Seen(f, BytesIn(vol', data', start, size), h.currentPosition)
      BY <1>1, <1>4, <1>10, <1>h, <2>1, SetSeen
    <2>3. QED
      BY <1>1, <1>h, <2>2
  <1>14. Posix!Open(f)
    BY <1>1, <1>b, <1>13, FileBytes, SeesOpen
  <1>15. QED
    BY <1>12, <1>14

LEMMA ReadKeeps ==
  ASSUME FileInv, Careful, NEW f \in File, NEW len \in Lengths, ReadCall(f, len)
  PROVE  FileInv' /\ Posix!Read(f, len)
  <1> DEFINE o == file[f]
             here == o.currentPosition
             c == o.startCluster
             size == o.filesize
             n == Smaller(len, size - here)
             s == Transferred(Call(f, o.rwPosition, n))
             h == [o EXCEPT !.rwPosition = s.pos, !.currentPosition = here + n - s.remain]
  <1>1. /\ o.inUse /\ ~AtFormerEnd(f) /\ vol' = vol /\ entry' = entry /\ data' = data
        /\ IF here >= size \/ c = CLUSTER_FREE THEN out' = <<>> /\ file' = file
           ELSE /\ out' = s.got
                /\ file' = [file EXCEPT ![f].rwPosition = s.pos,
                                        ![f].currentPosition = here + n - s.remain]
    BY DEF ReadCall, Read
  <1>p. Positions[f] = here /\ here \in Nat /\ Positions[f] # -1 /\ len \in Nat \ {0}
    BY <1>1, FileBytes, FileAssumption
  <1>b. /\ SizeOf(f) = size /\ size \in Nat /\ StartOf(f) = c /\ (c = CLUSTER_FREE => size = 0)
        /\ Len(Bytes[f]) = size
        /\ \A i \in 1..size : Bytes[f][i] = data[Spot(vol, c, i - 1)]
    <2>1. SizeOf(f) = size /\ size \in Nat /\ StartOf(f) = c /\ (c = CLUSTER_FREE => size = 0)
      BY <1>1, FileFact, UnitFact DEF StartIn, SizeIn, Handles
    <2>2. QED
      BY <2>1, FileBytes, ZenonT(60)
  <1>2. CASE here >= size \/ c = CLUSTER_FREE
    <2>1. FileInv'
      BY <1>1, <1>2, NothingChanges
    <2>2. Seen(f, Bytes[f], Positions[f])
      <3>1. Bytes' = Bytes /\ Positions' = Positions
        BY <1>1, <1>2 DEF Bytes, BytesOf, StartOf, SizeOf, Positions
      <3>2. QED
        BY <3>1, SameBytes DEF Seen, Positions
    <2> DEFINE x == here + 1
               y == Posix!Smaller(here + len, size)
    <2>3. y = size /\ size < x
      BY <1>2, <1>b, <1>p DEF Posix!Smaller
    <2>4. SubSeq(Bytes[f], x, y) = <<>>
      BY <1>b, <1>p, <2>3, SubSeqEmpty
    <2>5. x = Positions[f] + 1 /\ y = Posix!Smaller(Positions[f] + len, Len(Bytes[f]))
          /\ Positions[f] = Positions[f] + Len(<<>>)
      <3>1. Len(<<>>) = 0
        BY EmptySeq
      <3>2. QED
        BY <1>b, <1>p, <3>1
    <2> HIDE DEF x, y
    <2>6. out' = <<>>
      BY <1>1, <1>2
    <2>7. Posix!Read(f, len)
      BY <1>p, <2>2, <2>4, <2>5, <2>6, SeesRead
    <2>8. QED
      BY <2>1, <2>7
  <1>3. CASE ~(here >= size \/ c = CLUSTER_FREE)
    <2>1. /\ vol \in Tables /\ Counted(vol) /\ o \in Handles /\ entry[f] \in Entries
          /\ StartOf(f) = c /\ SizeOf(f) = size /\ c \in Cluster /\ Sound(vol, c)
          /\ size > 0 /\ Size(vol, c) = ClustersFor(size)
          /\ Placed(vol, o) /\ Agrees(o, entry[f])
      BY <1>1, <1>3, FileFact DEF StartIn, SizeIn
    <2>2. /\ size \in 0..MaxSize /\ here \in 0..MaxSize /\ MaxSize \in Nat /\ here < size
          /\ o.rwPosition \in Position /\ len \in Nat \ {0}
      BY <1>3, <2>1, UnitFact, FileAssumption DEF Handles
    <2>3. IsAt(vol, c, o.rwPosition, here)
      BY <2>1, <2>2, <1>3 DEF Placed
    <2>4. Fits(vol, c, size)
      BY <2>1, <2>2, FitsFact
    <2>5. n \in Nat \ {0} /\ here + n <= size
      BY <2>2 DEF Smaller
    <2>6. o.rwPosition.sector < SectorsPerCluster
      BY <1>1, <2>2, <2>3, UnitFact DEF AtFormerEnd, IsAt
    <2>7. o.rwPosition = Pos(o.rwPosition.cluster, o.rwPosition.sector, o.rwPosition.byte)
      BY <2>2 DEF Position, Pos
    <2> DEFINE a == Call(f, o.rwPosition, n)
               end == here + n
    <2>8. a = [pos |-> o.rwPosition, remain |-> n, at |-> here, ok |-> TRUE,
               vol |-> vol, data |-> data, got |-> <<>>]
      BY DEF Call
    <2>9. end \in Nat /\ end \in 0..MaxSize /\ end <= size
      BY <2>2, <2>5
    <2> HIDE DEF c, size, n, here
    <2>e. here \in Nat /\ size \in Nat /\ end = here + n
      BY <2>2
    <2> HIDE DEF end
    <2> DEFINE job == [kind |-> "read", low |-> here, data |-> data]
    <2>j. job.kind = "read" /\ job.low = here /\ job.data = data
      OBVIOUS
    <2> HIDE DEF job
    <2>10. InCall(a, vol, c, size, end, job)
      <3> DEFINE p == o.rwPosition
                 d == data
                 g == <<>>
      <3>1. p = Pos(p.cluster, p.sector, p.byte) /\ IsAt(vol, c, p, here)
        BY <2>3, <2>7
      <3>2. a = [pos |-> p, remain |-> n, at |-> here, ok |-> TRUE, vol |-> vol, data |-> d, got |-> g]
        BY <2>8
      <3>j. job.low = here /\ job.data = d /\ (job.kind = "read" => g = <<>>)
        BY <2>j
      <3> HIDE DEF p, d, g, a
      <3>3. QED
        BY <2>1, <2>4, <2>5, <2>e, <3>1, <3>2, <3>j, CallStarts
    <2>11. a.vol = vol /\ a.ok /\ a.pos.sector < SectorsPerCluster
      BY <2>6, <2>8
    <2>12. end <= Span(Size(vol, c))
      <3>1. Span(Size(vol, c)) \in Nat /\ size <= Span(Size(vol, c))
        BY <2>1, <2>4, LinksFact, SpanFact DEF Fits
      <3>2. QED
        BY <2>9, <2>e, <3>1
    <2>13. s = Transferred(a)
      OBVIOUS
    <2> HIDE DEF a, s
    <2>14. InCall(s, vol, c, size, end, job) /\ s.vol = vol /\ s.remain = 0
      BY <2>1, <2>9, <2>10, <2>11, <2>12, <2>13, <2>e, <2>j, TransferredFact
    <2>15. /\ IsAt(vol, c, s.pos, s.at) /\ s.at \in Nat /\ s.remain \in Nat /\ s.at + s.remain = end
           /\ s.pos = Pos(s.pos.cluster, s.pos.sector, s.pos.byte)
      BY <2>9, <2>14, <2>e, <2>j, InCallFact
    <2>16. s.pos \in Position
      <3>1. s.pos.cluster \in Cluster /\ s.pos.sector \in 0..SectorsPerCluster
            /\ s.pos.byte \in 0..BytesPerSector - 1
        BY <2>1, <2>15, AtFact
      <3>2. s.pos.byte \in 0..BytesPerSector
        BY <3>1, UnitFact
      <3>3. s.pos = [cluster |-> s.pos.cluster, sector |-> s.pos.sector, byte |-> s.pos.byte]
        BY <2>15 DEF Pos
      <3>4. QED
        BY <3>1, <3>2, <3>3 DEF Position
    <2>17. here + n - s.remain = s.at /\ s.at \in 0..MaxSize /\ s.at <= size
      BY <2>2, <2>5, <2>9, <2>15, <2>e
    <2> DEFINE k == [o EXCEPT !.rwPosition = s.pos, !.currentPosition = s.at]
    <2>18. file' = [file EXCEPT ![f] = k] /\ file \in [File -> Handles]
      <3>1. file \in [File -> Handles]
        BY DEF FileInv, TypeOK, Handles
      <3>2. file' = [file EXCEPT ![f].rwPosition = s.pos, ![f].currentPosition = s.at]
        BY <1>1, <1>3, <2>17 DEF here, size, c
      <3>3. QED
        BY <3>1, <3>2
    <2>19. k \in Handles /\ k.inUse /\ k.startCluster = c /\ k.filesize = size /\ k.append = o.append
           /\ k.currentPosition = s.at /\ k.rwPosition = s.pos /\ k.appendPosition = o.appendPosition
           /\ k.modified = o.modified
      BY <1>1, <2>1, <2>16, <2>17 DEF Handles, c, size
    <2>20. Placed(vol, k)
      BY <2>1, <2>15, <2>17, <2>19 DEF Placed, c, size
    <2>21. Agrees(k, entry[f])
      BY <2>1, <2>19 DEF Agrees, c, size
    <2>22. StartIn(k, entry[f]) = StartOf(f) /\ SizeIn(k, entry[f]) = SizeOf(f)
      BY <2>1, <2>19 DEF StartIn, SizeIn
    <2>23. entry' = [entry EXCEPT ![f] = entry[f]]
      BY <1>1 DEF FileInv, TypeOK
    <2> HIDE DEF k
    <2>24. FileInv'
      <3> DEFINE e == entry[f]
      <3>1. /\ FileInv /\ f \in File /\ k \in Handles /\ e \in Entries /\ vol' = vol
            /\ file' = [file EXCEPT ![f] = k] /\ entry' = [entry EXCEPT ![f] = e]
        BY <1>1, <2>1, <2>18, <2>19, <2>23
      <3>2. StartIn(k, e) = StartOf(f) /\ SizeIn(k, e) = SizeOf(f) /\ Placed(vol, k) /\ Agrees(k, e)
        BY <2>20, <2>21, <2>22
      <3> HIDE DEF e
      <3>3. QED
        BY ONLY <3>1, <3>2, StayFact
    <2>25. Seen(f, Bytes[f], s.at)
      <3>1. Seen(f, Bytes[f], PositionIn(k))
        BY <1>1, <2>1, <2>18, <2>19, <2>22, <2>23, StaySeen, ZenonT(60)
      <3>2. QED
        BY <2>19, <3>1 DEF PositionIn
    <2>26. s.got = [i \in 1..n |-> Bytes[f][here + i]]
      <3>1. s.at - here = n
        BY <2>5, <2>15, <2>14, <2>e
      <3>2. s.got = [i \in 1..n |-> data[Spot(vol, c, here + i - 1)]]
        <4>1. Carried(s, c, end, job)
          BY <2>14 DEF InCall
        <4>2. QED
          BY <2>14, <2>j, <3>1, <4>1 DEF Carried
      <3>3. \A i \in 1..n : here + i \in 1..size /\ here + i - 1 = (here + i) - 1
        BY <2>5, <2>9, <2>e
      <3>4. \A i \in 1..n : Bytes[f][here + i] = data[Spot(vol, c, here + i - 1)]
        BY <1>b, <3>3 DEF size, c
      <3>5. QED
        BY <3>2, <3>4
    <2> DEFINE x == here + 1
               y == here + n
               g == s.got
    <2>27. g = SubSeq(Bytes[f], x, y) /\ Len(g) = n
      <3> DEFINE b == Bytes[f]
      <3>1. /\ here \in Nat /\ n \in Nat /\ g = [i \in 1..n |-> b[here + i]]
            /\ x = here + 1 /\ y = here + n
        BY <2>5, <2>e, <2>26
      <3> HIDE DEF g, b, x, y
      <3>2. g = SubSeq(b, x, y) /\ Len(g) = n
        BY ONLY <3>1, SubIs
      <3>3. QED
        BY <3>2 DEF b
    <2>28. /\ x = Positions[f] + 1 /\ y = Posix!Smaller(Positions[f] + len, Len(Bytes[f]))
           /\ s.at = Positions[f] + Len(g)
      <3>1. y = Posix!Smaller(here + len, size)
        BY <1>p, <2>2, <2>e DEF Posix!Smaller, Smaller, n, here, size
      <3>2. x = Positions[f] + 1 /\ Len(Bytes[f]) = size
        BY <1>p, <1>b DEF here, size
      <3>3. Positions[f] = here
        BY <1>p DEF here
      <3>4. s.at = here + n
        BY <2>5, <2>14, <2>15, <2>e
      <3> HIDE DEF g
      <3>5. QED
        BY <2>27, <3>1, <3>2, <3>3, <3>4
    <2>29. out' = g /\ Positions[f] # -1
      BY <1>1, <1>3, <1>p DEF here, size, c
    <2> HIDE DEF x, y, g
    <2>30. Posix!Read(f, len)
      BY <2>25, <2>27, <2>28, <2>29, SeesRead
    <2>31. QED
      BY <2>24, <2>30
  <1>4. QED
    BY <1>2, <1>3

(* Which cluster of the chain a position is in.                               *)
LEMMA TurnFact ==
  ASSUME NEW k \in Nat, NEW i \in 0..SectorsPerCluster, NEW b \in 0..BytesPerSector - 1,
         i = SectorsPerCluster => b = 0, NEW x, x = Offset(k, i, b)
  PROVE  x \in Nat /\ Span(k) <= x
         /\ x \div BytesPerCluster = IF i = SectorsPerCluster THEN k + 1 ELSE k
  <1>1. /\ BytesPerSector \in Nat \ {0} /\ SectorsPerCluster \in Nat \ {0} /\ BytesPerCluster \in Nat \ {0}
    BY UnitFact
  <1>2. i \in Nat /\ b \in Nat /\ b < BytesPerSector
    BY <1>1
  <1>3. Run(i) \in Nat /\ Span(k) \in Nat /\ x = Span(k) + Run(i) + b
    BY <1>2, RunFact, SpanFact DEF Offset
  <1>4. x \in Nat /\ Span(k) <= x
    BY <1>2, <1>3
  <1> DEFINE n == x \div BytesPerCluster
             ii == (x % BytesPerCluster) \div BytesPerSector
             bb == x % BytesPerSector
  <1>5. n \in Nat /\ ii \in 0..SectorsPerCluster - 1 /\ bb \in 0..BytesPerSector - 1
        /\ x = Offset(n, ii, bb)
    BY <1>4, AddressFact
  <1> HIDE DEF n, ii, bb
  <1>6. ii \in Nat /\ bb \in Nat /\ ii + 1 <= SectorsPerCluster /\ bb < BytesPerSector /\ ii + 1 \in Nat
    BY <1>1, <1>5
  <1>7. /\ Run(ii) \in Nat /\ Span(n) \in Nat /\ Run(ii + 1) = Run(ii) + Run(1) /\ Run(1) = BytesPerSector
        /\ Run(ii + 1) <= Run(SectorsPerCluster) /\ Run(SectorsPerCluster) = BytesPerCluster
    <2>1. Run(ii) \in Nat /\ Run(ii + 1) = Run(ii) + Run(1) /\ Run(1) = BytesPerSector
          /\ Run(SectorsPerCluster) = BytesPerCluster
      BY <1>6, RunFact
    <2> DEFINE m == ii + 1
    <2>2. m \in Nat /\ m <= SectorsPerCluster
      BY <1>6
    <2> HIDE DEF m
    <2>3. Run(m) <= Run(SectorsPerCluster)
      BY <1>1, <2>2, RunFact
    <2>4. QED
      BY <1>5, <2>1, <2>3, SpanFact DEF m
  <1>8. x = Span(n) + Run(ii) + bb
    BY <1>5 DEF Offset
  <1>9. Span(n) <= x /\ x < Span(n) + BytesPerCluster
    BY <1>1, <1>6, <1>7, <1>8
  <1>10. CASE i = SectorsPerCluster
    <2>1. x = Span(k) + BytesPerCluster
      BY <1>1, <1>2, <1>3, <1>7, <1>10
    <2> DEFINE m == k + 1
    <2>2. m \in Nat /\ Span(m) = Span(k) + BytesPerCluster
      BY SpanFact
    <2> HIDE DEF m
    <2>3. ~(n < m)
      <3>1. n < m => Span(n) + BytesPerCluster <= Span(m)
        BY <1>5, <2>2, SpanFact
      <3>2. QED
        BY <1>1, <1>3, <1>7, <1>9, <2>1, <2>2, <3>1
    <2>4. ~(m < n)
      <3>1. m < n => Span(m) + BytesPerCluster <= Span(n)
        BY <1>5, <2>2, SpanFact
      <3>2. QED
        BY <1>1, <1>3, <1>7, <1>9, <2>1, <2>2, <3>1
    <2>5. n = m
      BY <1>5, <2>2, <2>3, <2>4
    <2>6. QED
      BY <1>4, <1>10, <2>5 DEF n, m
  <1>11. CASE i # SectorsPerCluster
    <2> DEFINE m == i + 1
    <2>1. m \in Nat /\ m <= SectorsPerCluster /\ Run(m) = Run(i) + BytesPerSector
      BY <1>1, <1>2, <1>11, RunFact
    <2> HIDE DEF m
    <2>2. Run(m) <= BytesPerCluster
      BY <1>1, <1>7, <2>1, RunFact
    <2>3. x < Span(k) + BytesPerCluster
      BY <1>1, <1>2, <1>3, <2>1, <2>2
    <2>4. ~(n < k)
      <3>1. n < k => Span(n) + BytesPerCluster <= Span(k)
        BY <1>5, SpanFact
      <3>2. QED
        BY <1>1, <1>3, <1>4, <1>7, <1>9, <3>1
    <2>5. ~(k < n)
      <3>1. k < n => Span(k) + BytesPerCluster <= Span(n)
        BY <1>5, SpanFact
      <3>2. QED
        BY <1>1, <1>3, <1>4, <1>7, <1>9, <2>3, <3>1
    <2>6. n = k
      BY <1>5, <2>4, <2>5
    <2>7. QED
      BY <1>4, <1>11, <2>6 DEF n
  <1>12. QED
    BY <1>10, <1>11

(* As many clusters as links were followed, and one.                          *)
LEMMA CountFact ==
  ASSUME NEW w, NEW m \in Nat, \A i, j \in 0..m - 1 : w[i] = w[j] => i = j
  PROVE  Cardinality({w[i] : i \in 0..m - 1}) = m
  <1> DEFINE C == {w[i] : i \in 0..m - 1}
             p == [i \in 0..m - 1 |-> w[i]]
  <1>1. p \in Bijection(0..m - 1, C)
    BY DEF Bijection, Injection, Surjection, IsInjective
  <1>2. IsFiniteSet(0..m - 1) /\ Cardinality(0..m - 1) = m
    BY FS_Interval
  <1>3. QED
    BY <1>1, <1>2, FS_Bijection DEF ExistsBijection

(* Where following the chain from its j-th cluster to its n-th leads.         *)
LEMMA FollowFact ==
  ASSUME NEW v \in Tables, NEW c \in Cluster, Sound(v, c), NEW j \in 0..Size(v, c) - 1,
         NEW d, d = Walk(v, c)[j], NEW n \in Nat, j <= n, n <= Size(v, c), NEW k, k = n - j
  PROVE  /\ n < Size(v, c) => /\ Walk(v, d)[k] = Walk(v, c)[n]
                              /\ Cardinality({Walk(v, d)[i] : i \in 0..k}) = k + 1
         /\ n = Size(v, c) => /\ Walk(v, d)[k] = Walk(v, c)[n - 1]
                              /\ Cardinality({Walk(v, d)[i] : i \in 0..k}) = k
  <1> DEFINE z == Size(v, c)
             y == Size(v, d)
             w == Walk(v, d)
  <1>1. /\ z \in Nat \ {0} /\ z <= LastCluster /\ LastCluster \in Nat /\ j \in Nat /\ k \in Nat
    BY LinksFact, ClusterFact
  <1>2. /\ d \in Cluster /\ Sound(v, d) /\ y = z - j
        /\ \A i \in 0..y - 1 : w[i] = Walk(v, c)[j + i]
    BY SuffixFact
  <1>3. /\ \A i \in 0..LastCluster : y <= i => w[i] = w[y - 1]
        /\ \A i, m \in 0..y - 1 : w[i] = w[m] => i = m
    BY <1>2, SoundFact, LinkFact
  <1> HIDE DEF y, z, w
  <1>4. y \in Nat \ {0} /\ k <= y /\ (n < z <=> k < y) /\ (n = z <=> k = y)
    BY <1>1, <1>2 DEF z
  <1>5. CASE k < y
    <2>1. w[k] = Walk(v, c)[n]
      BY <1>1, <1>2, <1>4, <1>5
    <2> DEFINE m == k + 1
    <2>2. m \in Nat /\ m - 1 = k /\ \A i, l \in 0..m - 1 : w[i] = w[l] => i = l
      BY <1>1, <1>3, <1>4, <1>5
    <2> HIDE DEF m
    <2>3. Cardinality({w[i] : i \in 0..m - 1}) = m
      BY <2>2, CountFact
    <2>4. QED
      BY <1>4, <1>5, <2>1, <2>2, <2>3 DEF m, w, z
  <1>6. CASE k = y
    <2>1. k \in 0..LastCluster /\ w[k] = w[y - 1]
      BY <1>1, <1>2, <1>3, <1>4, <1>6
    <2>2. w[y - 1] = Walk(v, c)[n - 1]
      <3>1. y - 1 \in 0..y - 1 /\ j + (y - 1) = n - 1
        BY <1>1, <1>4, <1>6
      <3>2. QED
        BY <1>2, <3>1
    <2>3. {w[i] : i \in 0..k} = {w[i] : i \in 0..y - 1}
      <3>1. 0..y - 1 \subseteq 0..k /\ y - 1 \in 0..y - 1
        BY <1>4, <1>6
      <3>2. \A i \in 0..k : i \in 0..y - 1 \/ i = k
        BY <1>1, <1>6
      <3>3. QED
        BY <2>1, <3>1, <3>2
    <2>4. Cardinality({w[i] : i \in 0..y - 1}) = y
      BY <1>3, <1>4, CountFact
    <2>5. ~(n < z)
      BY <1>1, <1>4, <1>6
    <2>6. w[k] = Walk(v, c)[n - 1] /\ Cardinality({w[i] : i \in 0..k}) = k
      BY <1>6, <2>1, <2>2, <2>3, <2>4
    <2>7. QED
      BY <2>5, <2>6 DEF w, z
  <1>7. QED
    BY <1>4, <1>5, <1>6, <1>1

(* The position of offset x, found from the j-th cluster on.                  *)
LEMMA SeekFact ==
  ASSUME NEW v \in Tables, NEW c \in Cluster, Sound(v, c), NEW size \in Nat,
         size <= Span(Size(v, c)), NEW x \in Nat, x <= size, NEW j \in 0..Size(v, c) - 1,
         NEW d, d = Walk(v, c)[j], j <= x \div BytesPerCluster, NEW k, k = x \div BytesPerCluster - j
  PROVE  LET walk == Walk(v, d)
             missing == k + 1 - Cardinality({walk[i] : i \in 0..k})
             sector == (x % BytesPerCluster) \div BytesPerSector
             border == missing = 1 /\ x = size /\ sector = 0
             q == IF border THEN Pos(walk[k], SectorsPerCluster, 0)
                  ELSE Pos(walk[k], sector, x % BytesPerSector)
         IN  ~(missing > 0 /\ ~border) /\ IsAt(v, c, q, x) /\ q \in Position
  <1> DEFINE walk == Walk(v, d)
             seen == Cardinality({walk[i] : i \in 0..k})
             missing == k + 1 - seen
             n == x \div BytesPerCluster
             sector == (x % BytesPerCluster) \div BytesPerSector
             byte == x % BytesPerSector
             border == missing = 1 /\ x = size /\ sector = 0
             to == walk[k]
             q == IF border THEN Pos(to, SectorsPerCluster, 0) ELSE Pos(to, sector, byte)
             z == Size(v, c)
  <1>0. /\ BytesPerSector \in Nat \ {0} /\ SectorsPerCluster \in Nat \ {0} /\ BytesPerCluster \in Nat \ {0}
    BY UnitFact
  <1>1. n \in Nat /\ sector \in 0..SectorsPerCluster - 1 /\ byte \in 0..BytesPerSector - 1
        /\ x = Offset(n, sector, byte)
    BY AddressFact
  <1>2. /\ z \in Nat \ {0} /\ \A i \in 0..z - 1 : Walk(v, c)[i] \in Cluster
    BY LinksFact, LinkFact
  <1>u. Run(sector) \in Nat /\ sector \in Nat /\ sector <= Run(sector) /\ byte \in Nat
        /\ Span(n) \in Nat /\ Span(z) \in Nat /\ x = Span(n) + Run(sector) + byte
    <2> HIDE DEF n, sector, byte, z
    <2>1. sector \in Nat /\ byte \in Nat
      BY <1>0, <1>1
    <2>2. QED
      BY <1>1, <1>2, <2>1, RunFact, SpanFact DEF Offset
  <1>c. j <= n /\ k = n - j
    OBVIOUS
  <1> HIDE DEF n, sector, byte, z
  <1>3. n <= z
    <2>1. Span(n) <= Span(z)
      BY <1>u DEF z
    <2>2. QED
      BY <1>1, <1>2, <2>1, SpanFact
  <1>4. /\ n < z => to = Walk(v, c)[n] /\ seen = k + 1
        /\ n = z => to = Walk(v, c)[n - 1] /\ seen = k
    <2>1. /\ n < Size(v, c) => /\ Walk(v, d)[k] = Walk(v, c)[n]
                               /\ Cardinality({Walk(v, d)[i] : i \in 0..k}) = k + 1
          /\ n = Size(v, c) => /\ Walk(v, d)[k] = Walk(v, c)[n - 1]
                               /\ Cardinality({Walk(v, d)[i] : i \in 0..k}) = k
      <3>1. n \in Nat /\ j <= n /\ n <= Size(v, c) /\ k = n - j
        BY <1>1, <1>3, <1>c DEF z
      <3>2. QED
        BY <3>1, FollowFact
    <2>2. QED
      BY <2>1 DEF z
  <1>5. k \in Nat
    BY <1>1, <1>2, <1>c DEF z
  <1> HIDE DEF walk, seen, to
  <1>6. CASE n < z
    <2>1. missing = 0
      BY <1>4, <1>5, <1>6
    <2> HIDE DEF missing
    <2>2. ~border /\ ~(missing > 0) /\ q = Pos(to, sector, byte)
      BY <2>1
    <2>3. to = Walk(v, c)[n] /\ n \in 0..z - 1
      BY <1>1, <1>2, <1>4, <1>6
    <2> DEFINE r == Pos(to, sector, byte)
    <2>4. r.cluster = to /\ r.sector = sector /\ r.byte = byte
      BY DEF Pos
    <2> HIDE DEF r
    <2>5. IsAt(v, c, r, x)
      <3>1. r.sector \in 0..SectorsPerCluster /\ r.byte \in 0..BytesPerSector - 1
            /\ r.sector # SectorsPerCluster
        BY <1>0, <1>1, <2>4
      <3>2. \E i \in 0..Size(v, c) - 1 : r.cluster = Walk(v, c)[i] /\ x = Offset(i, r.sector, r.byte)
        BY <1>1, <2>3, <2>4 DEF z
      <3>3. QED
        BY <3>1, <3>2 DEF IsAt
    <2>6. r \in Position
      <3>1. to \in Cluster /\ sector \in 0..SectorsPerCluster /\ byte \in 0..BytesPerSector
        BY <1>0, <1>1, <1>2, <2>3
      <3>2. QED
        BY <3>1 DEF Position, Pos, r
    <2>7. ~(missing > 0 /\ ~border) /\ IsAt(v, c, q, x) /\ q \in Position
      BY <2>2, <2>5, <2>6 DEF r
    <2>8. QED
      BY <2>7 DEF missing, seen, to, walk, sector, byte
  <1>7. CASE n = z
    <2>1. missing = 1
      BY <1>4, <1>5, <1>7
    <2> HIDE DEF missing
    <2>2. x = size /\ sector = 0 /\ x = Span(z)
      BY <1>7, <1>u DEF z
    <2>3. border /\ q = Pos(to, SectorsPerCluster, 0)
      BY <2>1, <2>2
    <2> DEFINE m == z - 1
               r == Pos(to, SectorsPerCluster, 0)
    <2>4. to = Walk(v, c)[m] /\ m \in 0..z - 1 /\ m \in Nat /\ m + 1 = z
      BY <1>2, <1>4, <1>7
    <2> HIDE DEF m
    <2>5. x = Offset(m, SectorsPerCluster, 0)
      <3>1. Span(m + 1) = Span(m) + BytesPerCluster /\ Span(m) \in Nat
        BY <2>4, SpanFact
      <3>2. Run(SectorsPerCluster) = BytesPerCluster
        BY RunFact
      <3>3. x = Span(m) + BytesPerCluster
        BY <2>2, <2>4, <3>1
      <3>4. QED
        BY <1>0, <3>1, <3>2, <3>3 DEF Offset
    <2>6. r.cluster = to /\ r.sector = SectorsPerCluster /\ r.byte = 0
      BY DEF Pos
    <2> HIDE DEF r
    <2>7. IsAt(v, c, r, x)
      <3>1. r.sector \in 0..SectorsPerCluster /\ r.byte \in 0..BytesPerSector - 1
        BY <1>0, <2>6
      <3>2. \E i \in 0..Size(v, c) - 1 : r.cluster = Walk(v, c)[i] /\ x = Offset(i, r.sector, r.byte)
        BY <2>4, <2>5, <2>6 DEF z
      <3>3. QED
        BY <2>6, <3>1, <3>2 DEF IsAt
    <2>8. r \in Position
      <3>1. to \in Cluster /\ SectorsPerCluster \in 0..SectorsPerCluster /\ 0 \in 0..BytesPerSector
        BY <1>0, <1>2, <2>4
      <3>2. QED
        BY <3>1 DEF Position, Pos, r
    <2>9. ~(missing > 0 /\ ~border) /\ IsAt(v, c, q, x) /\ q \in Position
      BY <2>3, <2>7, <2>8 DEF r
    <2>10. QED
      BY <2>9 DEF missing, seen, to, walk, sector, byte
  <1>8. QED
    BY <1>1, <1>2, <1>3, <1>6, <1>7

(* Where _FAT_seek starts to follow the chain.                                *)
LEMMA SeekFromFact ==
  ASSUME FileInv, NEW f \in File, file[f].inUse, file[f].startCluster # CLUSTER_FREE,
         NEW p \in Nat, p <= file[f].filesize
  PROVE  LET c == file[f].startCluster IN
         \E j \in 0..Size(vol, c) - 1 :
            /\ SeekFrom(f, p).from = Walk(vol, c)[j]
            /\ j <= p \div BytesPerCluster
            /\ SeekFrom(f, p).count = p \div BytesPerCluster - j
  <1> DEFINE h == file[f]
             c == h.startCluster
             at == h.currentPosition
             n == p \div BytesPerCluster
             current == at \div BytesPerCluster - (IF h.rwPosition.sector = SectorsPerCluster THEN 1 ELSE 0)
  <1>1. /\ vol \in Tables /\ h \in Handles /\ c \in Cluster /\ Sound(vol, c) /\ Placed(vol, h)
    BY FileFact DEF StartIn
  <1>2. at \in Nat /\ h.filesize \in Nat /\ BytesPerCluster \in Nat \ {0}
    BY <1>1, UnitFact DEF Handles
  <1>3. SeekFrom(f, p) = IF p >= at THEN [from |-> h.rwPosition.cluster, count |-> n - current]
                         ELSE [from |-> c, count |-> n]
    BY DEF SeekFrom
  <1>4. n \in Nat /\ Size(vol, c) \in Nat \ {0} /\ Walk(vol, c)[0] = c
    BY <1>1, AddressFact, LinksFact, SoundFact
  <1>5. CASE ~(p >= at)
    <2>1. 0 \in 0..Size(vol, c) - 1 /\ 0 <= n /\ n = n - 0
      BY <1>4
    <2>2. SeekFrom(f, p).from = Walk(vol, c)[0] /\ SeekFrom(f, p).count = n
      BY <1>3, <1>4, <1>5
    <2> HIDE DEF n, c
    <2>3. QED
      BY <2>1, <2>2 DEF n, c
  <1>6. CASE p >= at
    <2>1. IsAt(vol, c, h.rwPosition, at)
      BY <1>1, <1>2, <1>6 DEF Placed
    <2> DEFINE i == h.rwPosition.sector
               b == h.rwPosition.byte
    <2>2. PICK j \in 0..Size(vol, c) - 1 : h.rwPosition.cluster = Walk(vol, c)[j] /\ at = Offset(j, i, b)
      BY <2>1 DEF IsAt
    <2>3. i \in 0..SectorsPerCluster /\ b \in 0..BytesPerSector - 1
          /\ (i = SectorsPerCluster => b = 0) /\ j \in Nat
      BY <1>4, <2>1 DEF IsAt
    <2>4. Span(j) <= at /\ at \div BytesPerCluster = IF i = SectorsPerCluster THEN j + 1 ELSE j
      <3> HIDE DEF i, b, at
      <3>1. QED
        BY <2>2, <2>3, TurnFact
    <2>5. current = j
      BY <2>3, <2>4
    <2>6. j <= n
      <3>1. p < Span(n) + BytesPerCluster /\ Span(n) \in Nat /\ Span(j) \in Nat
        <4> DEFINE ii == (p % BytesPerCluster) \div BytesPerSector
                   bb == p % BytesPerSector
        <4>1. ii \in 0..SectorsPerCluster - 1 /\ bb \in 0..BytesPerSector - 1 /\ p = Offset(n, ii, bb)
          BY AddressFact
        <4> HIDE DEF ii, bb, n
        <4>2. ii \in Nat /\ ii < SectorsPerCluster /\ SectorsPerCluster \in Nat /\ bb < BytesPerSector
              /\ BytesPerSector \in Nat /\ bb \in Nat
          BY <4>1, UnitFact
        <4> DEFINE m == ii + 1
        <4>3. m \in Nat /\ m <= SectorsPerCluster /\ Run(m) = Run(ii) + BytesPerSector /\ Run(ii) \in Nat
          <5>1. Run(ii + 1) = Run(ii) + Run(1) /\ Run(1) = BytesPerSector /\ Run(ii) \in Nat
            BY <4>2, RunFact
          <5>2. m \in Nat /\ m <= SectorsPerCluster
            BY <4>2
          <5>3. QED
            BY <5>1, <5>2
        <4> HIDE DEF m
        <4>4. Run(m) <= BytesPerCluster
          BY <4>2, <4>3, RunFact
        <4>5. Span(n) \in Nat /\ Span(j) \in Nat
          BY <1>4, <2>3, SpanFact
        <4>6. p = Span(n) + Run(ii) + bb
          BY <4>1 DEF Offset
        <4>7. QED
          BY <1>2, <4>2, <4>3, <4>4, <4>5, <4>6
      <3>2. n < j => Span(n) + BytesPerCluster <= Span(j)
        BY <1>4, <2>3, SpanFact
      <3> HIDE DEF n, at, c
      <3>3. QED
        BY <1>2, <1>4, <1>6, <2>3, <2>4, <3>1, <3>2
    <2>7. SeekFrom(f, p).from = Walk(vol, c)[j] /\ SeekFrom(f, p).count = n - j
      BY <1>3, <1>6, <2>2, <2>5
    <2> HIDE DEF n, c
    <2>8. QED
      BY <2>6, <2>7 DEF n, c
  <1>7. QED
    BY <1>5, <1>6

LEMMA SeekKeeps ==
  ASSUME FileInv, Careful, NEW f \in File, NEW p \in Offsets, Seek(f, p)
  PROVE  FileInv' /\ Posix!Seek(f)
  <1> DEFINE h == file[f]
             c == h.startCluster
             size == h.filesize
             from == SeekFrom(f, p).from
             k == SeekFrom(f, p).count
             walk == Walk(vol, from)
             missing == k + 1 - Cardinality({walk[i] : i \in 0..k})
             sector == (p % BytesPerCluster) \div BytesPerSector
             border == missing = 1 /\ p = size /\ sector = 0
             q == IF border THEN Pos(walk[k], SectorsPerCluster, 0)
                  ELSE Pos(walk[k], sector, p % BytesPerSector)
  <1>1. /\ h.inUse /\ vol' = vol /\ data' = data /\ out' = <<>> /\ (h.append => p <= size)
        /\ Set(f, IF p > size \/ c = CLUSTER_FREE
                  THEN [h EXCEPT !.currentPosition = p]
                  ELSE IF missing > 0 /\ ~border
                  THEN [h EXCEPT !.rwPosition = Pos(h.rwPosition.cluster, sector, p % BytesPerSector)]
                  ELSE [h EXCEPT !.currentPosition = p, !.rwPosition = q])
    BY DEF Seek
  <1>2. /\ vol \in Tables /\ Counted(vol) /\ h \in Handles /\ StartOf(f) = c /\ SizeOf(f) = size
        /\ c # CLUSTER_FREE => c \in Cluster /\ Sound(vol, c)
        /\ IF c = CLUSTER_FREE THEN size = 0 ELSE size > 0 /\ Size(vol, c) = ClustersFor(size)
        /\ Placed(vol, h) /\ Agrees(h, entry[f])
    BY <1>1, FileFact DEF StartIn, SizeIn
  <1>3. p \in 0..MaxSize /\ MaxSize \in Nat /\ p \in Nat /\ size \in Nat
    BY <1>2, FileAssumption DEF Handles
  <1>4. Reshaped(vol, StartOf(f), vol', c)
    BY <1>1, <1>2, SameShape
  <1>b. Bytes[f] = BytesIn(vol', data', c, size) /\ Elsewhere(f)
    BY <1>1, <1>2, BytesFact DEF Elsewhere
  <1>p. Seen(f, Bytes[f], p) => Posix!Seek(f)
    BY <1>1, <1>3, FileBytes, SeesSeek
  <1>5. CASE p > size \/ c = CLUSTER_FREE
    <2> DEFINE o == [h EXCEPT !.currentPosition = p]
    <2>1. Set(f, o)
      BY <1>1, <1>5
    <2>2. o \in Handles /\ o.inUse /\ o.startCluster = c /\ o.filesize = size /\ o.append = h.append
          /\ o.currentPosition = p /\ o.rwPosition = h.rwPosition
          /\ o.appendPosition = h.appendPosition /\ o.modified = h.modified
      BY <1>1, <1>2, <1>3 DEF Handles
    <2> HIDE DEF o
    <2>3. Placed(vol, o)
      BY <1>1, <1>2, <1>3, <1>5, <2>2 DEF Placed
    <2>4. Agrees(o, entry[f])
      BY <1>2, <2>2 DEF Agrees
    <2> HIDE DEF c, size, h
    <2>5. FileInv'
      BY <1>1, <1>2, <1>4, <2>1, <2>2, <2>3, <2>4, SetFact
    <2>6. Seen(f, BytesIn(vol', data', c, size), o.currentPosition)
      BY <1>2, <1>4, <1>b, <2>1, <2>2, SetSeen
    <2>7. Seen(f, Bytes[f], p)
      BY <1>b, <2>2, <2>6
    <2>8. QED
      BY <1>p, <2>5, <2>7
  <1>6. CASE ~(p > size \/ c = CLUSTER_FREE)
    <2>1. c \in Cluster /\ Sound(vol, c) /\ size > 0 /\ p <= size
      BY <1>2, <1>3, <1>6
    <2>2. size <= Span(Size(vol, c))
      BY <1>2, <1>3, <2>1, FitsFact DEF Fits
    <2>3. PICK j \in 0..Size(vol, c) - 1 :
             from = Walk(vol, c)[j] /\ j <= p \div BytesPerCluster
             /\ k = p \div BytesPerCluster - j
      <3>1. file[f].inUse /\ file[f].startCluster # CLUSTER_FREE /\ p <= file[f].filesize
        BY <1>1, <1>6, <2>1
      <3>2. \E j \in 0..Size(vol, file[f].startCluster) - 1 :
               /\ SeekFrom(f, p).from = Walk(vol, file[f].startCluster)[j]
               /\ j <= p \div BytesPerCluster
               /\ SeekFrom(f, p).count = p \div BytesPerCluster - j
        BY ONLY <1>3, <3>1, FileInv, f \in File, SeekFromFact
      <3>3. QED
        BY <3>2
    <2>4. ~(missing > 0 /\ ~border) /\ IsAt(vol, c, q, p) /\ q \in Position
      <3> HIDE DEF from, k, c, size
      <3>1. QED
        BY <1>2, <1>3, <2>1, <2>2, <2>3, SeekFact, SMTT(40)
    <2> DEFINE o == [h EXCEPT !.currentPosition = p, !.rwPosition = q]
    <2>5. Set(f, o)
      <3> HIDE DEF o, q, missing, sector
      <3>1. QED
        BY <1>1, <1>6, <2>4 DEF o
    <2> HIDE DEF q, missing, border, walk, from, k
    <2>6. o \in Handles /\ o.inUse /\ o.startCluster = c /\ o.filesize = size /\ o.append = h.append
          /\ o.currentPosition = p /\ o.rwPosition = q
          /\ o.appendPosition = h.appendPosition /\ o.modified = h.modified
      BY <1>1, <1>2, <1>3, <2>4 DEF Handles
    <2> HIDE DEF o
    <2>7. Placed(vol, o)
      BY <1>2, <1>3, <2>1, <2>4, <2>6 DEF Placed
    <2>8. Agrees(o, entry[f])
      BY <1>2, <2>6 DEF Agrees
    <2> HIDE DEF c, size, h
    <2>9. FileInv'
      BY <1>1, <1>2, <1>4, <2>5, <2>6, <2>7, <2>8, SetFact
    <2>10. Seen(f, BytesIn(vol', data', c, size), o.currentPosition)
      BY <1>2, <1>4, <1>b, <2>5, <2>6, SetSeen
    <2>11. Seen(f, Bytes[f], p)
      BY <1>b, <2>6, <2>10
    <2>12. QED
      BY <1>p, <2>9, <2>11
  <1>7. QED
    BY <1>5, <1>6

LEMMA SameSizeKeeps ==
  ASSUME FileInv, NEW f \in File, file[f].inUse, Set(f, [file[f] EXCEPT !.modified = TRUE]), vol' = vol,
         data' = data, out' = <<>>
  PROVE  FileInv' /\ Posix!Truncate(f)
  <1> DEFINE h == file[f]
             o == [h EXCEPT !.modified = TRUE]
             c == h.startCluster
             n == h.filesize
  <1>1. /\ vol \in Tables /\ Counted(vol) /\ h \in Handles /\ StartOf(f) = c /\ SizeOf(f) = n
        /\ c # CLUSTER_FREE => c \in Cluster /\ Sound(vol, c)
        /\ IF c = CLUSTER_FREE THEN n = 0 ELSE n > 0 /\ Size(vol, c) = ClustersFor(n)
        /\ Placed(vol, h)
    BY FileFact DEF StartIn, SizeIn
  <1>2. Reshaped(vol, StartOf(f), vol', c)
    BY <1>1, SameShape
  <1>3. o \in Handles /\ o.inUse /\ o.startCluster = c /\ o.filesize = n /\ o.append = h.append
        /\ o.currentPosition = h.currentPosition /\ o.rwPosition = h.rwPosition
        /\ o.appendPosition = h.appendPosition /\ o.modified
    BY <1>1 DEF Handles
  <1>s. Set(f, o)
    OBVIOUS
  <1>b. /\ Bytes[f] = BytesIn(vol', data', c, n) /\ Elsewhere(f) /\ n \in Nat /\ Len(Bytes[f]) = n
        /\ h.currentPosition = Positions[f] /\ Positions[f] # -1
    <2>1. n \in Nat
      BY <1>1, UnitFact DEF Handles
    <2>2. Bytes[f] = BytesIn(vol', data', c, n)
      BY <1>1, BytesFact
    <2>3. Len(Bytes[f]) = SizeOf(f) /\ h.currentPosition = Positions[f] /\ Positions[f] # -1
      BY FileBytes
    <2>4. Elsewhere(f)
      BY DEF Elsewhere
    <2>5. QED
      BY <1>1, <2>1, <2>2, <2>3, <2>4
  <1> HIDE DEF o
  <1>4. Placed(vol', o) /\ Agrees(o, entry[f])
    BY <1>1, <1>3 DEF Placed, Agrees
  <1> HIDE DEF h, c, n
  <1>5. FileInv'
    BY <1>1, <1>2, <1>3, <1>4, <1>s, SetFact
  <1>6. Seen(f, BytesIn(vol', data', c, n), o.currentPosition)
    BY <1>1, <1>2, <1>3, <1>b, <1>s, SetSeen
  <1>7. Seen(f, Bytes[f], Positions[f])
    BY <1>3, <1>6, <1>b
  <1>8. Bytes[f] = Posix!Upto(f, n)
    BY <1>1, UptoSame
  <1>9. Posix!Truncate(f)
    BY <1>7, <1>8, <1>b, SeesTruncate
  <1>10. QED
    BY <1>5, <1>9

(* A file with its first cluster: the handle, and how the chain may grow.     *)
Begins(f, v, h) ==
    LET c == h.startCluster IN
    /\ c \in Cluster /\ v \in Tables /\ Counted(v) /\ Sound(v, c)
    /\ h \in Handles /\ h.inUse /\ h.filesize = file[f].filesize /\ h.append = file[f].append
    /\ h.currentPosition = file[f].currentPosition
    /\ Placed(v, h) /\ Fits(v, c, h.filesize)
    /\ Room(v, c) = Cardinality(Chain(vol, file[f].startCluster) \union FreeClusters(vol))
    /\ \A w : Grown(v, w, c) => Reshaped(vol, StartOf(f), w, c)
    /\ Bytes[f] = BytesIn(v, data, c, h.filesize)

LEMMA NoBytes == \A v, d, c, w, e, k : BytesIn(v, d, c, 0) = BytesIn(w, e, k, 0)
  <1>1. 1..0 = {}
    OBVIOUS
  <1>2. QED
    BY <1>1 DEF BytesIn

LEMMA StartedFact ==
  ASSUME ~SlackIsFree, FileInv, NEW f \in File, file[f].inUse
  PROVE  LET b == Started(f) IN
         IF IsValidCluster(b.handle.startCluster) THEN Begins(f, b.vol, b.handle)
         ELSE /\ file[f].startCluster = CLUSTER_FREE
              /\ Reshaped(vol, CLUSTER_FREE, b.vol, CLUSTER_FREE)
              /\ FreeClusters(b.vol) = {}
  <1> DEFINE o == file[f]
             b == Started(f)
  <1>1. /\ vol \in Tables /\ Counted(vol) /\ o \in Handles
        /\ StartOf(f) = o.startCluster /\ SizeOf(f) = o.filesize
        /\ o.startCluster # CLUSTER_FREE => o.startCluster \in Cluster /\ Sound(vol, o.startCluster)
        /\ IF o.startCluster = CLUSTER_FREE THEN o.filesize = 0
           ELSE o.filesize > 0 /\ Size(vol, o.startCluster) = ClustersFor(o.filesize)
        /\ Placed(vol, o)
    BY FileFact DEF StartIn, SizeIn
  <1>b. Bytes[f] = BytesIn(vol, data, o.startCluster, o.filesize)
    BY <1>1, BytesFact
  <1>2. o.filesize \in Nat /\ o.currentPosition \in Nat
    BY <1>1, UnitFact DEF Handles
  <1>3. CASE o.startCluster # CLUSTER_FREE
    <2> DEFINE c == o.startCluster
    <2>1. b.vol = vol /\ b.handle = o
      BY <1>3 DEF Started
    <2>2. c \in Cluster /\ Sound(vol, c) /\ o.filesize > 0 /\ Size(vol, c) = ClustersFor(o.filesize)
      BY <1>1, <1>3
    <2>3. Fits(vol, c, o.filesize)
      BY <1>1, <1>2, <2>2, FitsFact
    <2>4. \A w : Grown(vol, w, c) => Reshaped(vol, StartOf(f), w, c)
      BY <1>1, <2>2, GrownShape
    <2>5. Begins(f, vol, o)
      BY <1>1, <1>b, <2>2, <2>3, <2>4 DEF Begins, Room
    <2>6. QED
      BY <2>1, <2>2, <2>5 DEF IsValidCluster
  <1>4. CASE o.startCluster = CLUSTER_FREE
    <2> DEFINE l == LinkFreeCluster(vol, CLUSTER_FREE)
               u == l.vol
               c == l.cluster
    <2>1. b = Begun(f, l)
      BY <1>4 DEF Started
    <2>2. /\ u \in Tables /\ Counted(u)
          /\ IF FreeClusters(vol) = {} THEN c \notin Cluster /\ u.fat = vol.fat
             ELSE /\ c \in FreeClusters(vol) /\ c # CLUSTER_FREE
                  /\ u.fat = [k \in Cluster |-> IF k = c THEN CLUSTER_EOF
                                                ELSE IF k = CLUSTER_FREE THEN c ELSE vol.fat[k]]
                  /\ FreeClusters(u) = FreeClusters(vol) \ {c}
      BY <1>1, TakeFact, ClusterFact
    <2> HIDE DEF l, u, c
    <2>b. b.vol = u
      BY <2>1 DEF Begun, u
    <2>3. CASE FreeClusters(vol) = {}
      <3>1. b.handle = o
        BY <2>1, <2>2, <2>3 DEF Begun, IsValidCluster, c
      <3>2. FreeClusters(u) = FreeClusters(vol)
        BY <2>2, <2>3 DEF FreeClusters
      <3>3. Reshaped(vol, CLUSTER_FREE, u, CLUSTER_FREE)
        BY <2>2, <2>3, <3>2, NoChain DEF Reshaped, UsedClusters
      <3>4. ~IsValidCluster(b.handle.startCluster)
        BY <1>4, <3>1, ClusterFact DEF IsValidCluster
      <3>5. QED
        BY <1>4, <2>3, <2>b, <3>2, <3>3, <3>4
    <2>4. CASE FreeClusters(vol) # {}
      <3> DEFINE p == Pos(c, 0, 0)
                 h == [o EXCEPT !.startCluster = c, !.rwPosition = p, !.appendPosition = p]
      <3>1. /\ c \in FreeClusters(vol) /\ c \in Cluster
            /\ u.fat = [k \in Cluster |-> IF k = c THEN CLUSTER_EOF ELSE vol.fat[k]]
            /\ FreeClusters(u) = FreeClusters(vol) \ {c}
        BY <2>2, <2>4, ClusterFact DEF FreeClusters
      <3>2. b.handle = h
        BY <2>1, <3>1 DEF Begun, IsValidCluster, c
      <3>3. u.fat[c] = CLUSTER_EOF
        BY <3>1
      <3>4. Sound(u, c) /\ Size(u, c) = 1 /\ Chain(u, c) = {c}
        BY <2>2, <3>1, <3>3, AloneFact
      <3>5. p \in Position /\ IsAt(u, c, p, 0)
        BY <2>2, <3>1, <3>4, PositionFact, StartAt
      <3> HIDE DEF p
      <3>6. /\ h \in Handles /\ h.inUse /\ h.filesize = o.filesize /\ h.append = o.append
            /\ h.currentPosition = o.currentPosition /\ h.startCluster = c
            /\ h.rwPosition = p /\ h.appendPosition = p
        BY <1>1, <3>1, <3>5 DEF Handles
      <3> HIDE DEF h
      <3>7. o.filesize = 0
        BY <1>1, <1>4
      <3>8. Placed(u, h)
        <4>1. o.append => o.currentPosition <= 0
          BY <1>1, <3>7 DEF Placed
        <4>2. o.currentPosition <= 0 => o.currentPosition = 0
          BY <1>2
        <4>3. QED
          BY <3>5, <3>6, <3>7, <4>1, <4>2 DEF Placed
      <3>9. Fits(u, c, 0)
        <4>1. Span(1) \in Nat
          BY SpanFact
        <4>2. QED
          BY <3>4, <4>1 DEF Fits
      <3>10. Room(u, c) = Cardinality(Chain(vol, o.startCluster) \union FreeClusters(vol))
        <4>1. Chain(u, c) \union FreeClusters(u) = Chain(vol, o.startCluster) \union FreeClusters(vol)
          BY <1>4, <3>1, <3>4, NoChain
        <4>2. QED
          BY <4>1 DEF Room
      <3>11. \A w : Grown(u, w, c) => Reshaped(vol, CLUSTER_FREE, w, c)
        BY <1>1, <2>2, <3>1, StartShape
      <3>b. Bytes[f] = BytesIn(u, data, c, h.filesize)
        BY <1>b, <3>6, <3>7, NoBytes
      <3>12. Begins(f, u, h)
        BY <1>1, <1>4, <2>2, <3>1, <3>4, <3>6, <3>7, <3>8, <3>9, <3>10, <3>11, <3>b DEF Begins
      <3>13. QED
        BY <2>b, <3>1, <3>2, <3>6, <3>12 DEF IsValidCluster
    <2>5. QED
      BY <2>3, <2>4
  <1>5. QED
    BY <1>3, <1>4

(* Without a first cluster to be had, the file stays as it is.                *)
LEMMA NotStarted ==
  ASSUME FileInv, NEW f \in File, file[f].inUse, file[f].startCluster = CLUSTER_FREE,
         Reshaped(vol, CLUSTER_FREE, vol', CLUSTER_FREE), file' = file, entry' = entry,
         data' = data
  PROVE  FileInv' /\ Seen(f, Bytes[f], Positions[f])
  <1> DEFINE h == file[f]
             e == entry[f]
  <1>1. /\ h \in Handles /\ e \in Entries /\ Placed(vol, h) /\ Agrees(h, e)
        /\ StartOf(f) = CLUSTER_FREE /\ h.filesize = 0
    BY FileFact DEF StartIn, SizeIn
  <1>2. file' = [file EXCEPT ![f] = h] /\ entry' = [entry EXCEPT ![f] = e]
    BY DEF FileInv, TypeOK
  <1>3. StartIn(h, e) = CLUSTER_FREE /\ SizeIn(h, e) = 0
    BY <1>1 DEF StartIn, SizeIn
  <1>4. Placed(vol', h)
    BY <1>1 DEF Placed
  <1>b. /\ Bytes[f] = BytesIn(vol', data', CLUSTER_FREE, 0) /\ PositionIn(h) = Positions[f]
        /\ Elsewhere(f)
    <2>1. Bytes[f] = BytesIn(vol, data, CLUSTER_FREE, 0)
      BY <1>1, BytesFact DEF SizeOf
    <2>2. BytesIn(vol, data, CLUSTER_FREE, 0) = BytesIn(vol', data', CLUSTER_FREE, 0)
      BY NoBytes
    <2>3. PositionIn(h) = Positions[f]
      BY FileBytes DEF PositionIn
    <2>4. Elsewhere(f)
      BY DEF Elsewhere
    <2>5. QED
      BY <2>1, <2>2, <2>3, <2>4
  <1> HIDE DEF h, e
  <1>5. FileInv'
    BY <1>1, <1>2, <1>3, <1>4, ChangeFact
  <1>6. Seen(f, BytesIn(vol', data', CLUSTER_FREE, 0), PositionIn(h))
    BY <1>1, <1>2, <1>3, <1>b, SeenFact
  <1>7. QED
    BY <1>5, <1>6, <1>b

(* There are clusters for so many bytes.                                      *)
LEMMA RoomFact ==
  ASSUME NEW n \in Nat, NEW m \in Nat, (n + BytesPerCluster - 1) \div BytesPerCluster <= m
  PROVE  n <= Span(m)
  <1>1. ClustersFor(n) <= m
    BY DEF ClustersFor
  <1>2. n <= Span(ClustersFor(n)) /\ ClustersFor(n) \in Nat
    BY ClustersForFact
  <1> DEFINE k == ClustersFor(n)
  <1> HIDE DEF k
  <1>3. Span(k) <= Span(m) /\ Span(k) \in Nat /\ Span(m) \in Nat
    BY <1>1, <1>2, SpanFact DEF k
  <1>4. n <= Span(k)
    BY <1>2 DEF k
  <1>5. QED
    BY <1>3, <1>4

(* With table w and the bytes e, the chain from c on has the n bytes that it  *)
(* had with table v, then zeros up to m, and no other cluster was written.    *)
Laid(v, w, e, c, n, m) ==
    /\ \A x \in Nat : x < m => e[Spot(w, c, x)] = IF x < n THEN data[Spot(v, c, x)] ELSE Zero
    /\ \A i \in Place : Home(i) \notin Chain(w, c) => e[i] = data[i]

(* What a write has done, by the offsets of the file.                         *)
LEMMA CarriedFact ==
  ASSUME NEW c \in Cluster, NEW t, t.vol \in Tables, Sound(t.vol, c), NEW end, NEW job,
         job.kind # "read", Carried(t, c, end, job)
  PROVE  /\ \A x \in Nat : job.low <= x /\ x < t.at => t.data[Spot(t.vol, c, x)] = job.bytes[x]
         /\ \A x \in Nat : x < Span(Size(t.vol, c)) /\ ~Touched(t, c, end, job, x) =>
               t.data[Spot(t.vol, c, x)] = job.data[Spot(t.vol, c, x)]
         /\ \A i \in Place : Home(i) \notin Chain(t.vol, c) => t.data[i] = job.data[i]
  <1> DEFINE v == t.vol
  <1>1. /\ \A x \in Nat : job.low <= x /\ x < t.at => t.data[Spot(v, c, x)] = job.bytes[x]
        /\ \A i \in Place : \/ t.data[i] = job.data[i]
                            \/ \E x : Touched(t, c, end, job, x) /\ i = Spot(v, c, x)
        /\ \A x : Touched(t, c, end, job, x) => x \in Nat /\ x < Span(Size(v, c))
    BY DEF Carried, Touched
  <1>2. v \in Tables /\ Sound(v, c)
    OBVIOUS
  <1> HIDE DEF v
  <1>3. /\ \A x \in Nat : x < Span(Size(v, c)) =>
               Spot(v, c, x) \in Place /\ Home(Spot(v, c, x)) \in Chain(v, c)
        /\ \A x, y \in Nat : x < Span(Size(v, c)) /\ y < Span(Size(v, c))
                             /\ Spot(v, c, x) = Spot(v, c, y) => x = y
    BY <1>2, SpotFact
  <1>4. ASSUME NEW x \in Nat, x < Span(Size(v, c)), ~Touched(t, c, end, job, x)
        PROVE  t.data[Spot(v, c, x)] = job.data[Spot(v, c, x)]
    <2> SUFFICES ASSUME NEW y, Touched(t, c, end, job, y), Spot(v, c, x) = Spot(v, c, y)
                 PROVE  FALSE
      BY <1>1, <1>3, <1>4
    <2>1. x = y
      BY <1>1, <1>3, <1>4
    <2>2. QED
      BY <1>4, <2>1
  <1>5. ASSUME NEW i \in Place, Home(i) \notin Chain(v, c) PROVE t.data[i] = job.data[i]
    BY <1>1, <1>3, <1>5
  <1>6. QED
    BY <1>1, <1>4, <1>5 DEF v

(* With room for it, file_extend extends the file to that offset.             *)
LEMMA FilledFact ==
  ASSUME ~SlackIsFree, Careful, FileInv, NEW f \in File, NEW v, NEW h, Begins(f, v, h),
         NEW to \in 0..MaxSize, h.filesize < to, HasRoom(f, to),
         NEW x, x = Extended(v, h.startCluster, h.filesize, to)
  PROVE  /\ x.ok /\ x.remain = 0 /\ x.at = to /\ Grown(v, x.vol, h.startCluster)
         /\ IsAt(x.vol, h.startCluster, x.pos, to) /\ x.pos \in Position
         /\ Size(x.vol, h.startCluster) = ClustersFor(to) /\ Fits(x.vol, h.startCluster, to)
         /\ CallState(x) /\ x.ok \in BOOLEAN
         /\ Laid(v, x.vol, x.data, h.startCluster, h.filesize, to)
  <1> DEFINE c == h.startCluster
             size == h.filesize
  <1>1. /\ c \in Cluster /\ v \in Tables /\ Counted(v) /\ Sound(v, c) /\ Fits(v, c, size)
        /\ h \in Handles
        /\ Room(v, c) = Cardinality(Chain(vol, file[f].startCluster) \union FreeClusters(vol))
    BY DEF Begins
  <1>2. size \in Nat /\ to \in Nat /\ size < to
    BY <1>1, UnitFact DEF Handles
  <1>3. Room(v, c) \in Nat
    <2>1. IsFiniteSet(Chain(v, c) \union FreeClusters(v))
      <3>1. Chain(v, c) \union FreeClusters(v) \subseteq Cluster
        BY <1>1, LinkFact DEF FreeClusters
      <3>2. QED
        BY <3>1, ClusterFact, FS_Subset
    <2>2. QED
      BY <2>1, FS_CardinalityType DEF Room
  <1>4. to <= Span(Room(v, c))
    <2>1. (to + BytesPerCluster - 1) \div BytesPerCluster <= Room(v, c)
      BY <1>1 DEF HasRoom
    <2> DEFINE m == Room(v, c)
    <2> HIDE DEF m
    <2>2. m \in Nat /\ (to + BytesPerCluster - 1) \div BytesPerCluster <= m
      BY <1>3, <2>1 DEF m
    <2>3. to <= Span(m)
      BY <1>2, <2>2, RoomFact
    <2>4. QED
      BY <2>3 DEF m
  <1> HIDE DEF c, size
  <1> DEFINE job == [kind |-> "write", low |-> size, data |-> data, bytes |-> [y \in Nat |-> Zero]]
  <1>j. job.low = size /\ job.data = data /\ job.kind = "write" /\ \A y \in Nat : job.bytes[y] = Zero
    OBVIOUS
  <1>z. Zeroes(job) /\ job.low \in Nat /\ job.kind # "read"
    BY <1>2, <1>j DEF Zeroes
  <1> HIDE DEF job
  <1>5. InCall(x, v, c, size, to, job) /\ (x.remain = 0 \/ ~x.ok)
    BY <1>1, <1>2, <1>j, <1>z, ExtendedFact DEF c, size
  <1> DEFINE z == IF x.at > size THEN x.at ELSE size
  <1>6. /\ Grown(v, x.vol, c) /\ x.at \in Nat /\ x.remain \in Nat /\ x.at + x.remain = to
        /\ Size(x.vol, c) = ClustersFor(z) /\ Fits(x.vol, c, z)
        /\ IsAt(x.vol, c, x.pos, x.at) /\ x.pos \in Position
        /\ (to <= Span(Room(v, c)) => x.ok) /\ Carried(x, c, to, job)
    <2>1. z = (IF x.at > size THEN x.at ELSE size)
      OBVIOUS
    <2>2. size <= Span(Size(v, c))
      BY <1>1 DEF Fits
    <2> HIDE DEF z
    <2>3. QED
      BY <1>1, <1>2, <1>5, <1>z, <2>1, <2>2, DoneFact
  <1>7. x.ok /\ x.remain = 0 /\ x.at = to /\ z = to
    BY <1>2, <1>4, <1>5, <1>6
  <1>8. CallState(x) /\ x.ok \in BOOLEAN
    BY <1>5 DEF InCall
  <1> HIDE DEF z
  <1>9. Laid(v, x.vol, x.data, c, size, to)
    <2> DEFINE w == x.vol
               e == x.data
    <2>1. w \in Tables /\ Sound(w, c) /\ size <= Span(Size(v, c)) /\ Grown(v, w, c)
      BY <1>1, <1>6 DEF Grown, Fits
    <2>2. /\ \A y \in Nat : size <= y /\ y < to => e[Spot(w, c, y)] = job.bytes[y]
          /\ \A y \in Nat : y < Span(Size(w, c)) /\ ~Touched(x, c, to, job, y) =>
                e[Spot(w, c, y)] = data[Spot(w, c, y)]
          /\ \A i \in Place : Home(i) \notin Chain(w, c) => e[i] = data[i]
      BY <1>1, <1>6, <1>7, <1>j, <1>z, <2>1, CarriedFact
    <2>3. \A y : Touched(x, c, to, job, y) => size <= y
      BY <1>j DEF Touched
    <2> HIDE DEF w, e
    <2>4. /\ \A y \in Nat : y < Span(Size(v, c)) => Spot(w, c, y) = Spot(v, c, y)
          /\ Span(Size(v, c)) \in Nat /\ Span(Size(w, c)) \in Nat
          /\ Span(Size(v, c)) <= Span(Size(w, c))
      BY <1>1, <2>1, GrownSpot
    <2>5. ASSUME NEW y \in Nat, y < to
          PROVE  e[Spot(w, c, y)] = IF y < size THEN data[Spot(v, c, y)] ELSE Zero
      <3>1. CASE y < size
        <4>1. y < Span(Size(v, c)) /\ y < Span(Size(w, c)) /\ ~(size <= y)
          BY <1>2, <2>1, <2>4, <3>1
        <4>2. QED
          BY <2>2, <2>3, <2>4, <3>1, <4>1
      <3>2. CASE ~(y < size)
        <4>1. size <= y
          BY <1>2, <3>2
        <4>2. QED
          BY <1>j, <2>2, <2>5, <3>2, <4>1
      <3>3. QED
        BY <3>1, <3>2
    <2>6. QED
      BY <2>2, <2>5 DEF Laid, w, e
  <1>10. QED
    BY <1>6, <1>7, <1>8, <1>9 DEF c, size

LEMMA LaidUpto ==
  ASSUME NEW f \in File, NEW v, NEW c, NEW n \in Nat, Bytes[f] = BytesIn(v, data, c, n),
         NEW w, NEW e, NEW m \in Nat, Laid(v, w, e, c, n, m)
  PROVE  BytesIn(w, e, c, m) = Posix!Upto(f, m)
  <1> DEFINE b == Bytes[f]
  <1>1. Len(b) = n /\ \A i \in 1..n : b[i] = data[Spot(v, c, i - 1)]
    <2>1. \A i \in 1..n : b[i] = data[Spot(v, c, i - 1)]
      BY DEF BytesIn
    <2>2. QED
      BY <2>1, LenOf
  <1>2. Posix!Upto(f, m) = [i \in 1..m |-> IF i <= n THEN b[i] ELSE Zero]
    <2>1. Posix!Upto(f, m) = [i \in 1..m |-> IF i <= Len(Bytes[f]) THEN Bytes[f][i] ELSE Zero]
      BY UptoFact
    <2>2. Len(Bytes[f]) = n
      BY <1>1
    <2>3. QED
      BY <2>1, <2>2
  <1> HIDE DEF b
  <1>3. ASSUME NEW i \in 1..m
        PROVE  e[Spot(w, c, i - 1)] = IF i <= n THEN b[i] ELSE Zero
    <2> DEFINE x == i - 1
    <2>1. x \in Nat /\ x < m /\ (x < n <=> i <= n) /\ (i <= n => i \in 1..n)
      OBVIOUS
    <2>2. i <= n => b[i] = data[Spot(v, c, x)]
      BY <1>1, <2>1
    <2> HIDE DEF x
    <2>3. e[Spot(w, c, x)] = IF x < n THEN data[Spot(v, c, x)] ELSE Zero
      BY <2>1 DEF Laid
    <2>4. e[Spot(w, c, x)] = IF i <= n THEN b[i] ELSE Zero
      BY <2>1, <2>2, <2>3
    <2>5. QED
      BY <2>4 DEF x
  <1>4. QED
    BY <1>2, <1>3 DEF BytesIn

LEMMA LengthenKeeps ==
  ASSUME ~SlackIsFree, Careful, FileInv, NEW f \in File, NEW size \in Offsets, Lengthen(f, size),
         file[f].currentPosition = 0, out' = <<>>
  PROVE  FileInv' /\ Posix!Truncate(f)
  <1> DEFINE b == Started(f)
             h == b.handle
             c == h.startCluster
             x == Extended(b.vol, c, h.filesize, size)
             ap == IF ~h.append THEN file[f].appendPosition
                   ELSE IF x.ok THEN x.pos ELSE h.rwPosition
             o == [h EXCEPT !.filesize = size, !.modified = TRUE, !.appendPosition = ap]
  <1>1. /\ file[f].inUse /\ size > file[f].filesize /\ HasRoom(f, size)
        /\ IF ~IsValidCluster(c)
           THEN vol' = b.vol /\ data' = data /\ file' = file /\ entry' = entry
           ELSE vol' = x.vol /\ data' = x.data /\ Set(f, o)
    BY DEF Lengthen
  <1>2. IF IsValidCluster(c) THEN Begins(f, b.vol, h)
        ELSE /\ file[f].startCluster = CLUSTER_FREE
             /\ Reshaped(vol, CLUSTER_FREE, b.vol, CLUSTER_FREE)
    BY <1>1, StartedFact
  <1>3. size \in 0..MaxSize /\ MaxSize \in Nat
    BY FileAssumption
  <1>p. Positions[f] # -1 /\ Positions[f] = file[f].currentPosition
    BY <1>1, FileBytes
  <1>4. CASE ~IsValidCluster(c)
    <2>1. FileInv' /\ Seen(f, Bytes[f], Positions[f])
      BY <1>1, <1>2, <1>4, NotStarted
    <2>2. Posix!Truncate(f)
      <3> DEFINE n == SizeOf(f)
      <3>1. Bytes[f] = Posix!Upto(f, n) /\ Len(Bytes[f]) = n /\ n \in Nat
        BY UptoSame
      <3> HIDE DEF n
      <3>2. QED
        BY <1>p, <2>1, <3>1, SeesTruncate
    <2>3. QED
      BY <2>1, <2>2
  <1>5. CASE IsValidCluster(c)
    <2> HIDE DEF b
    <2>1. /\ c \in Cluster /\ b.vol \in Tables /\ Sound(b.vol, c) /\ h \in Handles /\ h.inUse
          /\ h.filesize = file[f].filesize /\ h.currentPosition = file[f].currentPosition
          /\ Placed(b.vol, h)
          /\ \A w : Grown(b.vol, w, c) => Reshaped(vol, StartOf(f), w, c)
          /\ Bytes[f] = BytesIn(b.vol, data, c, h.filesize)
      BY <1>2, <1>5 DEF Begins
    <2>2. h.filesize < size /\ h.filesize \in Nat /\ size \in Nat
      BY <1>1, <1>3, <2>1 DEF Handles
    <2>3. /\ x.ok /\ Grown(b.vol, x.vol, c)
          /\ IsAt(x.vol, c, x.pos, size) /\ x.pos \in Position
          /\ Size(x.vol, c) = ClustersFor(size)
          /\ Laid(b.vol, x.vol, x.data, c, h.filesize, size)
      <3> DEFINE v == b.vol
      <3>1. Begins(f, v, h) /\ x = Extended(v, h.startCluster, h.filesize, size)
        BY <1>2, <1>5
      <3> HIDE DEF v, h, x
      <3>2. QED
        BY <1>1, <1>3, <2>2, <3>1, FilledFact DEF v
    <2>p. file[f].appendPosition \in Position
      BY FileFact DEF Handles
    <2>4. ap \in Position /\ (h.append => ap = x.pos)
      BY <2>3, <2>p
    <2>s. Set(f, o) /\ vol' = x.vol /\ data' = x.data
      BY <1>1, <1>5
    <2> HIDE DEF ap
    <2>5. /\ o \in Handles /\ o.inUse /\ o.startCluster = c /\ o.filesize = size /\ o.append = h.append
          /\ o.currentPosition = h.currentPosition /\ o.rwPosition = h.rwPosition
          /\ o.appendPosition = ap /\ o.modified
      BY <1>3, <2>1, <2>4 DEF Handles
    <2> HIDE DEF o, x, h
    <2>6. Placed(vol', o)
      <3>1. h.currentPosition \in Nat
        BY <1>3, <2>1 DEF Handles
      <3>2. h.append => h.currentPosition <= size
        BY <2>1, <2>2, <3>1 DEF Placed
      <3>3. h.currentPosition <= h.filesize => IsAt(x.vol, c, h.rwPosition, h.currentPosition)
        <4>1. h.currentPosition <= h.filesize => IsAt(b.vol, c, h.rwPosition, h.currentPosition)
          BY <2>1, ClusterFact DEF Placed
        <4> DEFINE p == h.rwPosition
                   at == h.currentPosition
                   v == b.vol
                   w == x.vol
        <4>2. v \in Tables /\ Grown(v, w, c) /\ Sound(v, c) /\ c \in Cluster
              /\ (h.currentPosition <= h.filesize => IsAt(v, c, p, at))
          BY <2>1, <2>3, <4>1
        <4> HIDE DEF p, at, v, w, c
        <4>3. h.currentPosition <= h.filesize => IsAt(w, c, p, at)
          BY <4>2, GrownAt
        <4>4. QED
          BY <4>3 DEF p, at, w
      <3>4. h.currentPosition <= h.filesize
        <4>1. Placed(b.vol, h) /\ (h.append => h.currentPosition <= h.filesize)
          BY <2>1 DEF Placed
        <4>2. file[f].currentPosition = 0 => h.currentPosition <= h.filesize
          BY <2>1, <2>2
        <4>3. QED
          BY <4>2
      <3>5. QED
        BY <2>3, <2>4, <2>5, <2>s, <3>2, <3>3, <3>4 DEF Placed
    <2>7. Agrees(o, entry[f])
      BY <2>5 DEF Agrees
    <2>8. Reshaped(vol, StartOf(f), vol', c) /\ Size(vol', c) = ClustersFor(size) /\ size > 0
          /\ c # CLUSTER_FREE
      BY <2>1, <2>2, <2>3, <2>s, ClusterFact
    <2>b. BytesIn(vol', data', c, size) = Posix!Upto(f, size)
      <3> DEFINE v == b.vol
                 w == x.vol
                 e == x.data
                 n == h.filesize
      <3>1. n \in Nat /\ size \in Nat /\ Bytes[f] = BytesIn(v, data, c, n) /\ Laid(v, w, e, c, n, size)
        BY <2>1, <2>2, <2>3
      <3> HIDE DEF v, w, e, n, c
      <3>2. BytesIn(w, e, c, size) = Posix!Upto(f, size)
        BY <3>1, LaidUpto
      <3>3. QED
        BY <2>s, <3>2 DEF w, e
    <2>e. Elsewhere(f)
      <3>1. \A i \in Place : Home(i) \notin Chain(vol', c) => data'[i] = data[i]
        BY <2>3, <2>s DEF Laid
      <3> HIDE DEF c
      <3>2. QED
        BY <2>8, <3>1, WrittenElsewhere
    <2> HIDE DEF c
    <2>9. FileInv'
      BY <2>5, <2>6, <2>7, <2>8, <2>s, SetFact
    <2>10. Seen(f, BytesIn(vol', data', c, size), o.currentPosition)
      BY <2>5, <2>8, <2>e, <2>s, SetSeen
    <2>11. Posix!Truncate(f)
      <3> DEFINE q == BytesIn(vol', data', c, size)
      <3>1. Len(q) = size /\ size \in Nat
        BY <2>2, LenOf
      <3>2. q = Posix!Upto(f, size) /\ Seen(f, q, Positions[f])
        BY <1>p, <2>1, <2>5, <2>10, <2>b
      <3> HIDE DEF q
      <3>3. QED
        BY <1>p, <3>1, <3>2, SeesTruncate
    <2>12. QED
      BY <2>9, <2>11
  <1>6. QED
    BY <1>4, <1>5

LEMMA ShortenKeeps ==
  ASSUME FileInv, NEW f \in File, NEW size \in Offsets, Shorten(f, size),
         file[f].currentPosition = 0, out' = <<>>
  PROVE  FileInv' /\ Posix!Truncate(f)
  <1> DEFINE h == file[f]
             c == h.startCluster
             n == ClustersFor(size)
             t == IF size = 0 THEN [vol |-> ClearLinks(vol, c), cluster |-> CLUSTER_FREE]
                  ELSE TrimChain(vol, c, n)
             start == IF size = 0 THEN CLUSTER_FREE ELSE c
             ap == IF size = 0 THEN Pos(CLUSTER_FREE, 0, 0)
                   ELSE IF h.append THEN EndPosition(t.vol, t.cluster, size) ELSE h.appendPosition
             o == [h EXCEPT !.filesize = size, !.modified = TRUE, !.startCluster = start,
                            !.appendPosition = ap]
  <1>1. h.inUse /\ size < h.filesize /\ vol' = t.vol /\ data' = Kept(t.vol) /\ Set(f, o)
    BY DEF Shorten, ClustersFor
  <1>2. size \in 0..MaxSize /\ MaxSize \in Nat /\ size \in Nat
    BY FileAssumption
  <1>3. /\ vol \in Tables /\ Counted(vol) /\ h \in Handles /\ StartOf(f) = c /\ SizeOf(f) = h.filesize
        /\ h.filesize \in Nat /\ h.filesize > 0
        /\ c \in Cluster /\ Sound(vol, c) /\ Size(vol, c) = ClustersFor(h.filesize)
        /\ Placed(vol, h)
    <2>1. h \in Handles /\ h.filesize \in Nat /\ h.filesize > 0
      BY <1>1, <1>2, FileFact DEF Handles
    <2>2. QED
      BY <1>1, <2>1, FileFact DEF StartIn, SizeIn
  <1>4. /\ Reshaped(vol, StartOf(f), t.vol, start) /\ ap \in Position /\ start \in Cluster \union {CLUSTER_FREE}
        /\ IF start = CLUSTER_FREE THEN size = 0 ELSE size > 0 /\ Size(t.vol, start) = ClustersFor(size)
        /\ start # CLUSTER_FREE =>
              /\ IsAt(t.vol, start, h.rwPosition, 0)
              /\ h.append => IsAt(t.vol, start, ap, size)
        /\ BytesIn(t.vol, Kept(t.vol), start, size) = Posix!Upto(f, size)
    <2>1. CASE size = 0
      <3>1. t.vol = ClearLinks(vol, c) /\ start = CLUSTER_FREE /\ ap = Pos(CLUSTER_FREE, 0, 0)
        BY <2>1
      <3> DEFINE w == t.vol
                 d == Kept(w)
      <3>2. BytesIn(w, d, start, 0) = Posix!Upto(f, 0)
        <4>1. 1..0 = {}
          OBVIOUS
        <4> HIDE DEF d, w, start
        <4>2. QED
          BY <4>1, UptoFact DEF BytesIn
      <3>3. BytesIn(w, d, start, size) = Posix!Upto(f, size)
        BY <2>1, <3>2
      <3>4. QED
        BY <1>3, <2>1, <3>1, <3>3, ClearShape, PositionFact
    <2>2. CASE size # 0
      <3> DEFINE w == t.vol
      <3>1. t = TrimChain(vol, c, n) /\ start = c
        BY <2>2
      <3>2. n \in 1..Size(vol, c)
        <4>1. ClustersFor(size) \in Nat /\ ClustersFor(h.filesize) \in Nat
          BY <1>2, <1>3, ClustersForFact
        <4> DEFINE z == ClustersFor(h.filesize)
        <4>2. Span(0) = 0 /\ 0 < n
          <5>1. Span(0) < size
            BY <1>2, <2>2, SpanFact
          <5>2. QED
            BY <1>2, <5>1, ClustersForFact, SpanFact
        <4> HIDE DEF z, n
        <4>3. ~(z < n)
          <5> SUFFICES ASSUME z < n PROVE FALSE
            OBVIOUS
          <5>1. Span(z) < size /\ Span(z) \in Nat
            BY <1>2, <4>1, ClustersForFact, SpanFact DEF n, z
          <5>2. Span(z) < h.filesize
            BY <1>1, <1>2, <1>3, <5>1
          <5>3. z < z
            BY <1>3, <4>1, <5>2, ClustersForFact DEF z
          <5>4. QED
            BY <4>1, <5>3 DEF z
        <4>4. QED
          BY <1>3, <4>1, <4>2, <4>3 DEF n, z
      <3>3. /\ w \in Tables /\ Counted(w) /\ Sound(w, c) /\ Size(w, c) = n
            /\ t.cluster = Walk(vol, c)[n - 1]
            /\ \A k \in 0..n - 1 : Walk(w, c)[k] = Walk(vol, c)[k]
        BY <1>3, <3>1, <3>2, TrimFact
      <3>4. Reshaped(vol, c, w, c)
        BY <1>3, <3>1, <3>2, TrimShape
      <3>n. n \in Nat \ {0} /\ n - 1 \in 0..n - 1 /\ 0 \in 0..n - 1
        <4> HIDE DEF n
        <4>1. QED
          BY <1>3, <3>2, LinksFact
      <3> HIDE DEF n, t, w
      <3>5. IsAt(w, c, h.rwPosition, 0)
        <4>1. IsAt(vol, c, h.rwPosition, 0)
          BY <1>3, ClusterFact DEF Placed
        <4> DEFINE i == h.rwPosition.sector
                   d == h.rwPosition.byte
        <4>2. PICK k \in 0..Size(vol, c) - 1 : h.rwPosition.cluster = Walk(vol, c)[k] /\ 0 = Offset(k, i, d)
          BY <4>1 DEF IsAt
        <4>3. i \in 0..SectorsPerCluster /\ d \in 0..BytesPerSector - 1
              /\ (i = SectorsPerCluster => d = 0) /\ k \in Nat
          BY <1>3, <4>1, LinksFact DEF IsAt
        <4>4. Span(k) <= 0
          <5> DEFINE z == 0
          <5>1. z = Offset(k, i, d)
            BY <4>2
          <5> HIDE DEF z, i, d
          <5>2. Span(k) <= z
            BY <4>3, <5>1, TurnFact
          <5>3. QED
            BY <5>2 DEF z
        <4>5. k = 0
          <5>1. Span(k) <= Span(0)
            BY <4>4, SpanFact
          <5>2. k <= 0
            BY <4>3, <5>1, SpanFact
          <5>3. QED
            BY <4>3, <5>2
        <4>6. h.rwPosition.cluster = Walk(w, c)[0] /\ 0 = Offset(0, i, d)
          BY <3>3, <3>n, <4>2, <4>5
        <4>7. 0 \in 0..Size(w, c) - 1
          BY <3>3, <3>n
        <4>8. QED
          BY <4>3, <4>6, <4>7 DEF IsAt
      <3>6. /\ IsAt(w, c, EndPosition(w, t.cluster, size), size)
            /\ EndPosition(w, t.cluster, size) \in Position
        <4>1. LastOf(w, t.cluster) = LastOf(w, c)
          <5> DEFINE j == n - 1
          <5>1. j \in 0..Size(w, c) - 1 /\ t.cluster = Walk(w, c)[j]
            BY <3>3, <3>n
          <5> HIDE DEF j
          <5>2. QED
            BY <1>3, <3>3, <5>1, SuffixFact
        <4>2. EndPosition(w, t.cluster, size) = EndPosition(w, c, size)
          BY <4>1 DEF EndPosition
        <4>3. Fits(w, c, size)
          BY <1>2, <1>3, <2>2, <3>3, FitsFact DEF n
        <4>4. QED
          BY <1>2, <1>3, <3>3, <4>2, <4>3, EndFact DEF Fits
      <3>b. BytesIn(w, Kept(w), c, size) = Posix!Upto(f, size)
        <4> DEFINE m == h.filesize
        <4>1. size \in Nat /\ size <= Span(n) /\ m \in Nat /\ size <= m
          BY <1>1, <1>2, <1>3, ClustersForFact DEF n
        <4>2. \A x \in Nat : x < Span(n) => Spot(w, c, x) = Spot(vol, c, x)
          BY <3>3, <3>n, SameSpot
        <4>3. \A x \in Nat : x < size => Kept(w)[Spot(w, c, x)] = data[Spot(w, c, x)]
          BY <1>3, <3>3, <4>1, KeptFact
        <4>4. /\ Len(Bytes[f]) = m
              /\ \A i \in 1..m : Bytes[f][i] = data[Spot(vol, c, i - 1)]
          <5>1. /\ Len(Bytes[f]) = SizeOf(f)
                /\ \A i \in 1..SizeOf(f) : Bytes[f][i] = data[Spot(vol, StartOf(f), i - 1)]
            BY FileBytes
          <5>2. SizeOf(f) = m /\ StartOf(f) = c
            BY <1>3
          <5>3. QED
            BY <5>1, <5>2
        <4>5. Posix!Upto(f, size) = [i \in 1..size |-> IF i <= m THEN Bytes[f][i] ELSE Zero]
          BY <4>4, UptoFact
        <4>s. Span(n) \in Nat
          BY <3>n, SpanFact
        <4> HIDE DEF m, c
        <4>6. ASSUME NEW i \in 1..size
              PROVE  Kept(w)[Spot(w, c, i - 1)] = IF i <= m THEN Bytes[f][i] ELSE Zero
          <5> DEFINE x == i - 1
          <5>1. x \in Nat /\ x < size /\ x < Span(n) /\ i <= m /\ i \in 1..m
            BY <4>1, <4>s
          <5>2. Bytes[f][i] = data[Spot(vol, c, x)]
            BY <4>4, <5>1
          <5> HIDE DEF x
          <5>3. Kept(w)[Spot(w, c, x)] = Bytes[f][i]
            BY <4>2, <4>3, <5>1, <5>2
          <5>4. QED
            BY <5>1, <5>3 DEF x
        <4>7. QED
          BY <4>5, <4>6 DEF BytesIn
      <3>7. ap = (IF h.append THEN EndPosition(w, t.cluster, size) ELSE h.appendPosition)
        BY <2>2 DEF w
      <3>8. h.appendPosition \in Position
        BY <1>3 DEF Handles
      <3>9. /\ Reshaped(vol, StartOf(f), w, start) /\ ap \in Position /\ start \in Cluster
            /\ start # CLUSTER_FREE
            /\ size > 0 /\ Size(w, start) = ClustersFor(size)
            /\ IsAt(w, start, h.rwPosition, 0)
            /\ h.append => IsAt(w, start, ap, size)
            /\ BytesIn(w, Kept(w), start, size) = Posix!Upto(f, size)
        <4> HIDE DEF ap
        <4>1. start = c /\ c # CLUSTER_FREE /\ size > 0
          BY <1>2, <1>3, <2>2, <3>1, ClusterFact
        <4> HIDE DEF start
        <4>2. ap \in Position /\ (h.append => IsAt(w, start, ap, size))
          BY <3>6, <3>7, <3>8, <4>1
        <4>3. QED
          BY <1>3, <3>3, <3>4, <3>5, <3>b, <4>1, <4>2 DEF n
      <3>10. QED
        BY <3>9 DEF w
    <2>3. QED
      BY <2>1, <2>2
  <1> HIDE DEF start, ap, t
  <1>5. /\ o \in Handles /\ o.inUse /\ o.startCluster = start /\ o.filesize = size /\ o.append = h.append
        /\ o.currentPosition = 0 /\ o.rwPosition = h.rwPosition
        /\ o.appendPosition = ap /\ o.modified
    BY <1>1, <1>2, <1>3, <1>4 DEF Handles
  <1> HIDE DEF o
  <1>6. Placed(vol', o)
    <2>1. 0 <= size
      BY <1>2
    <2>2. QED
      BY <1>1, <1>4, <1>5, <2>1 DEF Placed
  <1>7. Agrees(o, entry[f])
    BY <1>5 DEF Agrees
  <1>8. /\ Set(f, o) /\ Reshaped(vol, StartOf(f), vol', start)
        /\ IF start = CLUSTER_FREE THEN size = 0 ELSE size > 0 /\ Size(vol', start) = ClustersFor(size)
    BY <1>1, <1>4
  <1>p. Positions[f] # -1 /\ Positions[f] = 0
    BY <1>1, FileBytes
  <1> HIDE DEF h, c
  <1>9. FileInv'
    BY <1>5, <1>6, <1>7, <1>8, SetFact
  <1>10. Elsewhere(f)
    BY <1>1, <1>4, KeptElsewhere
  <1>11. Seen(f, BytesIn(vol', data', start, size), o.currentPosition)
    BY <1>5, <1>8, <1>10, SetSeen
  <1>12. Posix!Truncate(f)
    <2> DEFINE q == BytesIn(vol', data', start, size)
    <2>1. Len(q) = size
      BY <1>2, LenOf
    <2>2. q = Posix!Upto(f, size) /\ Seen(f, q, Positions[f])
      BY <1>1, <1>4, <1>5, <1>11, <1>p
    <2> HIDE DEF q
    <2>3. QED
      BY <1>2, <1>p, <2>1, <2>2, SeesTruncate
  <1>13. QED
    BY <1>9, <1>12

(* With table w and the bytes e, the file whose first n bytes were in the     *)
(* chain from c on of table v has what the program writes from x to y.        *)
WrittenTo(f, v, n, w, e, c, x, y) ==
    /\ \A i \in Nat : i < y \/ i < n =>
          e[Spot(w, c, i)] = IF x <= i /\ i < y THEN Byte(f, i)
                             ELSE IF i < n THEN data[Spot(v, c, i)] ELSE Zero
    /\ \A i \in Place : Home(i) \notin Chain(w, c) => e[i] = data[i]

(* A write, from offset "at", for which zeros had been laid up to there if it *)
(* was past the end.                                                          *)
LEMMA WrittenBytes ==
  ASSUME NEW f \in File, NEW v \in Tables, NEW c \in Cluster, Sound(v, c),
         NEW n \in Nat, NEW u, Grown(v, u, c), NEW d, NEW at \in Nat,
         NEW size \in Nat, size = (IF at > n THEN at ELSE n), size <= Span(Size(u, c)),
         Laid(v, u, d, c, n, size),
         NEW job, Writes(job, f), job.low = at, job.data = d, NEW end \in Nat, job.kind = "append" => n < end,
         NEW s, Grown(u, s.vol, c), Carried(s, c, end, job), NEW y \in Nat, s.at = y, at <= y
  PROVE  WrittenTo(f, v, n, s.vol, s.data, c, at, y)
  <1> DEFINE w == s.vol
             e == s.data
  <1>1. u \in Tables /\ Sound(u, c) /\ w \in Tables /\ Sound(w, c) /\ Chain(u, c) \subseteq Chain(w, c)
    BY DEF Grown
  <1>2. job.kind # "read" /\ \A x \in Nat : job.bytes[x] = Byte(f, x)
    BY DEF Writes
  <1>3. /\ \A x \in Nat : at <= x /\ x < y => e[Spot(w, c, x)] = job.bytes[x]
        /\ \A x \in Nat : x < Span(Size(w, c)) /\ ~Touched(s, c, end, job, x) =>
              e[Spot(w, c, x)] = d[Spot(w, c, x)]
        /\ \A i \in Place : Home(i) \notin Chain(w, c) => e[i] = d[i]
    BY <1>1, <1>2, CarriedFact
  <1>4. \A x : Touched(s, c, end, job, x) => at <= x /\ (x < y \/ (job.kind = "append" /\ end <= x))
    BY DEF Touched
  <1>5. /\ \A x \in Nat : x < Span(Size(u, c)) => Spot(w, c, x) = Spot(u, c, x)
        /\ Span(Size(u, c)) \in Nat /\ Span(Size(w, c)) \in Nat
        /\ Span(Size(u, c)) <= Span(Size(w, c))
    BY <1>1, GrownSpot
  <1>6. /\ \A x \in Nat : x < size => d[Spot(u, c, x)] = IF x < n THEN data[Spot(v, c, x)] ELSE Zero
        /\ \A i \in Place : Home(i) \notin Chain(u, c) => d[i] = data[i]
    BY DEF Laid
  <1> HIDE DEF w, e
  <1>8. ASSUME NEW x \in Nat, x < y \/ x < n
        PROVE  e[Spot(w, c, x)] = IF at <= x /\ x < y THEN Byte(f, x)
                                  ELSE IF x < n THEN data[Spot(v, c, x)] ELSE Zero
    <2>1. CASE at <= x /\ x < y
      BY <1>2, <1>3, <2>1
    <2>2. CASE ~(at <= x /\ x < y)
      <3>1. x < size /\ x < Span(Size(u, c)) /\ x < Span(Size(w, c))
        BY <1>5, <1>8, <2>2
      <3>2. ~(at <= x /\ n < end /\ end <= x)
        <4> SUFFICES ASSUME at <= x, n < end, end <= x PROVE FALSE
          OBVIOUS
        <4>1. y <= x
          BY <2>2
        <4>2. x < n
          BY <1>8, <3>1, <4>1
        <4>3. QED
          BY <4>2
      <3>3. ~Touched(s, c, end, job, x)
        BY <1>4, <2>2, <3>2
      <3>4. e[Spot(w, c, x)] = d[Spot(u, c, x)]
        BY <1>3, <1>5, <3>1, <3>3
      <3>5. QED
        BY <1>6, <2>2, <3>1, <3>4
    <2>3. QED
      BY <2>1, <2>2
  <1>9. ASSUME NEW i \in Place, Home(i) \notin Chain(w, c) PROVE e[i] = data[i]
    BY <1>1, <1>3, <1>6, <1>9 DEF w
  <1>10. QED
    BY <1>8, <1>9 DEF WrittenTo, w, e

(* How far a file of n bytes comes to go, once m were written from x to y.    *)
Reaches(n, x, m, y, z) == y = x + m /\ z = IF y > n THEN y ELSE n

LEMMA LaidOverlaid ==
  ASSUME NEW f \in File, NEW v, NEW c, NEW n \in Nat, Bytes[f] = BytesIn(v, data, c, n),
         NEW at \in Nat, NEW m \in Nat, NEW y, NEW z, Reaches(n, at, m, y, z),
         NEW w, NEW e, WrittenTo(f, v, n, w, e, c, at, y)
  PROVE  BytesIn(w, e, c, z) = Posix!Overlaid(f, at, m)
  <1>0. y = at + m /\ z = (IF y > n THEN y ELSE n)
    BY DEF Reaches
  <1> DEFINE b == Bytes[f]
  <1>1. Len(b) = n /\ \A i \in 1..n : b[i] = data[Spot(v, c, i - 1)]
    <2>1. \A i \in 1..n : b[i] = data[Spot(v, c, i - 1)]
      BY DEF BytesIn
    <2>2. QED
      BY <2>1, LenOf
  <1> DEFINE q == [i \in 1..z |-> IF at < i /\ i <= y THEN Byte(f, i - 1)
                                  ELSE IF i <= n THEN b[i] ELSE Zero]
  <1>2. Posix!Overlaid(f, at, m) = q
    <2>1. n = Len(Bytes[f])
      BY <1>1
    <2>2. Posix!Overlaid(f, at, m) = Overlay(f, at, y, n)
      BY <1>0, <2>1, OverlaidFact
    <2>3. QED
      BY <1>0, <2>2 DEF Overlay
  <1> HIDE DEF b
  <1>3. ASSUME NEW i \in 1..z
        PROVE  e[Spot(w, c, i - 1)] = IF at < i /\ i <= y THEN Byte(f, i - 1)
                                      ELSE IF i <= n THEN b[i] ELSE Zero
    <2> DEFINE x == i - 1
    <2>1. /\ x \in Nat /\ (x < y \/ x < n) /\ (x < n <=> i <= n) /\ (i <= n => i \in 1..n)
          /\ (at <= x /\ x < y <=> at < i /\ i <= y)
      BY <1>0
    <2>2. i <= n => b[i] = data[Spot(v, c, x)]
      BY <1>1, <2>1
    <2> HIDE DEF x
    <2>3. e[Spot(w, c, x)] = IF at <= x /\ x < y THEN Byte(f, x)
                             ELSE IF x < n THEN data[Spot(v, c, x)] ELSE Zero
      BY <2>1 DEF WrittenTo
    <2>4. e[Spot(w, c, x)] = IF at < i /\ i <= y THEN Byte(f, x) ELSE IF i <= n THEN b[i] ELSE Zero
      BY <2>1, <2>2, <2>3
    <2>5. QED
      BY <2>4 DEF x
  <1>4. BytesIn(w, e, c, z) = q
    BY <1>3 DEF BytesIn
  <1>5. QED
    BY <1>2, <1>4

(* A write of no bytes at the end of the file leaves it as it is.             *)
LEMMA OverSame ==
  ASSUME FileInv, NEW f \in File, NEW x, x = Len(Bytes[f])
  PROVE  Bytes[f] = Posix!Overlaid(f, x, 0) /\ x \in Nat
  <1> DEFINE b == Bytes[f]
  <1>1. x \in Nat /\ b = [i \in 1..x |-> b[i]]
    <2>1. SizeOf(f) \in Nat
      BY FileFact, UnitFact
    <2>2. QED
      BY <2>1, FileBytes
  <1>2. Posix!Overlaid(f, x, 0) =
          [i \in 1..(IF x > x THEN x ELSE x) |->
              IF x < i /\ i <= x THEN Byte(f, i - 1) ELSE IF i <= x THEN b[i] ELSE Zero]
    <2> DEFINE m == 0
    <2>1. x = x + m
      BY <1>1
    <2> HIDE DEF m
    <2>2. Posix!Overlaid(f, x, m) = Overlay(f, x, x, x)
      BY <2>1, OverlaidFact
    <2>3. QED
      BY <2>2 DEF m, Overlay
  <1> HIDE DEF b
  <1>3. [i \in 1..(IF x > x THEN x ELSE x) |->
            IF x < i /\ i <= x THEN Byte(f, i - 1) ELSE IF i <= x THEN b[i] ELSE Zero]
        = [i \in 1..x |-> b[i]]
    BY <1>1
  <1>4. QED
    BY <1>1, <1>2, <1>3 DEF b

(* What a program sees of a write.                                            *)
LEMMA WriteSeen ==
  ASSUME FileInv, NEW f \in File, file[f].inUse, NEW len \in Nat,
         NEW v, NEW c, NEW n \in Nat, Bytes[f] = BytesIn(v, data, c, n),
         NEW at \in Nat, NEW m \in 0..len, m < len => FreeClusters(vol') = {},
         NEW y, NEW z, Reaches(n, at, m, y, z),
         WrittenTo(f, v, n, vol', data', c, at, y),
         Reshaped(vol, StartOf(f), vol', c),
         NEW o \in Handles, o.inUse, Set(f, o), c = o.startCluster, z = o.filesize,
         \/ at = n /\ o.currentPosition = Positions[f]
         \/ at = Positions[f] /\ o.currentPosition = y, out' = <<>>
  PROVE  Posix!Write(f, len)
  <1> DEFINE b == BytesIn(vol', data', c, z)
             p == o.currentPosition
  <1>0. Len(Bytes[f]) = n
    BY LenOf
  <1>1. b = Posix!Overlaid(f, at, m)
    <2> DEFINE w == vol'
               e == data'
    <2>0. m \in Nat
      OBVIOUS
    <2>1. WrittenTo(f, v, n, w, e, c, at, y)
      OBVIOUS
    <2> HIDE DEF w, e
    <2>2. /\ f \in File /\ n \in Nat /\ Bytes[f] = BytesIn(v, data, c, n) /\ at \in Nat
          /\ Reaches(n, at, m, y, z)
      OBVIOUS
    <2>3. BytesIn(w, e, c, z) = Posix!Overlaid(f, at, m)
      BY ONLY <2>0, <2>1, <2>2, LaidOverlaid
    <2>4. QED
      BY <2>3 DEF w, e
  <1>2. Elsewhere(f)
    BY WrittenElsewhere DEF WrittenTo
  <1>3. Seen(f, b, p)
    BY <1>2, SetSeen
  <1>4. Positions[f] # -1
    BY FileBytes
  <1>5. \/ at = Positions[f] /\ p = Positions[f] + m
        \/ at = Len(Bytes[f]) /\ p = Positions[f]
    <2>1. at = Positions[f] => p = Positions[f] + m \/ at = n
      BY DEF Reaches
    <2>2. QED
      BY <1>0, <2>1 DEF Reaches
  <1> HIDE DEF b, p
  <1>6. QED
    BY <1>1, <1>3, <1>4, <1>5, SeesWrite

(* A call begins.                                                             *)
LEMMA CallBegins ==
  ASSUME NEW s, CallState(s), s.ok, s.ok \in BOOLEAN, s.vol \in Tables, Counted(s.vol),
         NEW c \in Cluster, Sound(s.vol, c), NEW size \in Nat, Fits(s.vol, c, size),
         s.at \in Nat, s.remain \in Nat \ {0}, IsAt(s.vol, c, s.pos, s.at),
         NEW end, end = s.at + s.remain,
         NEW job, job.low = s.at, job.data = s.data, job.kind # "read"
  PROVE  InCall(s, s.vol, c, size, end, job)
  <1> DEFINE v == s.vol
  <1>4. Grown(v, s.vol, c)
    BY NotGrown
  <1>5. Needed(s, c, size)
    <2>1. CASE Span(Size(v, c) - 1) < size
      BY <2>1 DEF Needed
    <2>2. CASE size = 0 /\ Size(v, c) = 1
      <3>1. Size(v, c) - 1 = 0 /\ Span(0) = 0
        BY <2>2, SpanFact
      <3>2. Span(Size(s.vol, c) - 1) = 0
        BY <3>1
      <3>3. QED
        BY <3>2 DEF Needed
    <2>3. QED
      BY <2>1, <2>2 DEF Fits
  <1>6. s.remain \in Nat /\ s.at \in Nat /\ s.at + s.remain = end /\ s.remain > 0
    OBVIOUS
  <1>7. Carried(s, c, end, job)
    <2>1. \A y \in Nat : ~(job.low <= y /\ y < s.at)
      OBVIOUS
    <2>2. QED
      BY <2>1 DEF Carried
  <1>8. job.low <= s.at
    OBVIOUS
  <1>9. QED
    BY <1>4, <1>5, <1>6, <1>7, <1>8 DEF InCall

(* The state of a call, with another offset and another number of bytes.      *)
Restart(x, n, at) == [x EXCEPT !.remain = n, !.at = at]
LEMMA RestartFact ==
  ASSUME NEW x, NEW n \in Nat, NEW at \in Nat, CallState(x)
  PROVE  LET y == Restart(x, n, at) IN
         CallState(y) /\ y.pos = x.pos /\ y.ok = x.ok /\ y.vol = x.vol /\ y.remain = n /\ y.at = at
         /\ y.data = x.data
  <1> DEFINE y == Restart(x, n, at)
  <1>x. x = [pos |-> x.pos, remain |-> x.remain, at |-> x.at, ok |-> x.ok,
             vol |-> x.vol, data |-> x.data, got |-> x.got]
    BY DEF CallState
  <1> DEFINE p == x.pos
             r == x.remain
             a == x.at
             o == x.ok
             v == x.vol
             d == x.data
             g == x.got
  <1>y. x = [pos |-> p, remain |-> r, at |-> a, ok |-> o, vol |-> v, data |-> d, got |-> g]
    BY <1>x
  <1> HIDE DEF p, r, a, o, v, d, g
  <1> DEFINE u == [x EXCEPT !.remain = n]
  <1>u. u = [pos |-> p, remain |-> n, at |-> a, ok |-> o, vol |-> v, data |-> d, got |-> g]
    BY ONLY <1>y, n \in Nat
  <1>w. y = [u EXCEPT !.at = at]
    BY DEF Restart
  <1> HIDE DEF u, y
  <1>z. y = [pos |-> p, remain |-> n, at |-> at, ok |-> o, vol |-> v, data |-> d, got |-> g]
    BY ONLY <1>u, <1>w, at \in Nat
  <1>0. /\ y.pos = p /\ y.remain = n /\ y.at = at /\ y.ok = o /\ y.vol = v
        /\ y.data = d
        /\ y = [pos |-> y.pos, remain |-> y.remain, at |-> y.at, ok |-> y.ok,
                vol |-> y.vol, data |-> y.data, got |-> y.got]
    BY ONLY <1>z
  <1>1. /\ y.pos = x.pos /\ y.remain = n /\ y.at = at /\ y.ok = x.ok /\ y.vol = x.vol
        /\ y.data = x.data
        /\ y = [pos |-> y.pos, remain |-> y.remain, at |-> y.at, ok |-> y.ok,
                vol |-> y.vol, data |-> y.data, got |-> y.got]
    BY <1>0 DEF p, o, v, d
  <1>2. x.pos = Pos(x.pos.cluster, x.pos.sector, x.pos.byte)
    BY DEF CallState
  <1>3. CallState(y)
    BY <1>1, <1>2 DEF CallState
  <1>4. QED
    BY ONLY <1>1, <1>3 DEF y

(* A write starts where it should, past the end after zeros up to there.      *)
LEMMA WriteStarts ==
  ASSUME ~SlackIsFree, Careful, FileInv, NEW f \in File, NEW v, NEW h, Begins(f, v, h),
         NEW len \in Nat \ {0}, NEW at, at = (IF h.append THEN h.filesize ELSE h.currentPosition),
         at > h.filesize => HasRoom(f, at), NEW end \in 0..MaxSize, end = at + len,
         NEW size, size = (IF at > h.filesize THEN at ELSE h.filesize),
         NEW c, c = h.startCluster, NEW x, x = Filled(v, h, len),
         NEW y, CallState(x) => /\ CallState(y) /\ y.pos = x.pos /\ y.ok = x.ok /\ y.vol = x.vol
                                /\ y.remain = len /\ y.at = at /\ y.data = x.data,
         NEW job, job.low = at, job.data = x.data, job.kind # "read"
  PROVE
         /\ x.ok /\ Grown(v, x.vol, c) /\ x.vol \in Tables /\ Sound(x.vol, c)
         /\ InCall(y, x.vol, c, size, end, job) /\ y.remain > 0
         /\ Laid(v, x.vol, x.data, c, h.filesize, size)
         /\ size <= Span(Size(x.vol, c)) /\ at \in Nat /\ size \in 0..MaxSize
  <1> DEFINE u == x.vol
             p == x.pos
  <1>1. /\ c \in Cluster /\ v \in Tables /\ Counted(v) /\ Sound(v, c) /\ Fits(v, c, h.filesize)
        /\ h \in Handles /\ Placed(v, h)
    BY DEF Begins
  <1>2. /\ h.filesize \in 0..MaxSize /\ h.currentPosition \in 0..MaxSize /\ MaxSize \in Nat
        /\ h.filesize \in Nat /\ h.currentPosition \in Nat /\ at \in Nat /\ size \in Nat
        /\ at \in 0..MaxSize /\ size \in 0..MaxSize
        /\ h.rwPosition \in Position /\ h.appendPosition \in Position
    BY <1>1, UnitFact DEF Handles
  <1>3. /\ x.ok /\ Grown(v, u, c) /\ Fits(u, c, size) /\ IsAt(u, c, p, at) /\ p \in Position
        /\ CallState(x) /\ x.ok \in BOOLEAN /\ Laid(v, u, x.data, c, h.filesize, size)
    <2>1. CASE ~h.append /\ h.currentPosition > h.filesize
      <3>1. at = h.currentPosition /\ at > h.filesize /\ h.filesize < at /\ HasRoom(f, at) /\ size = at
        BY <1>2, <2>1
      <3>2. x = Extended(v, h.startCluster, h.filesize, at)
        BY <2>1, <3>1 DEF Filled
      <3> HIDE DEF u, p
      <3>3. /\ x.ok /\ Grown(v, x.vol, h.startCluster)
            /\ IsAt(x.vol, h.startCluster, x.pos, at) /\ x.pos \in Position
            /\ Fits(x.vol, h.startCluster, at)
            /\ CallState(x) /\ x.ok \in BOOLEAN
            /\ Laid(v, x.vol, x.data, h.startCluster, h.filesize, at)
        BY <1>2, <3>1, <3>2, FilledFact
      <3>4. QED
        BY <3>1, <3>3 DEF u, p
    <2>2. CASE ~(~h.append /\ h.currentPosition > h.filesize)
      <3> DEFINE q == IF h.append THEN h.appendPosition ELSE h.rwPosition
      <3>1. x = [pos |-> q, remain |-> len, at |-> h.currentPosition, ok |-> TRUE,
                 vol |-> v, data |-> data, got |-> <<>>]
        BY <2>2 DEF Filled
      <3>2. q \in Position
        BY <1>2
      <3>3. h.append \/ h.currentPosition <= h.filesize
        BY <1>2, <2>2
      <3>4. IsAt(v, c, q, at) /\ size = h.filesize
        BY <1>1, <1>2, <3>3, ClusterFact DEF Placed
      <3> HIDE DEF q
      <3>5. x.pos = q /\ x.ok /\ x.vol = v /\ x.ok \in BOOLEAN /\ x.data = data
        BY <3>1
      <3>c. CallState(x)
        <4>1. x = [pos |-> x.pos, remain |-> x.remain, at |-> x.at, ok |-> x.ok,
                   vol |-> x.vol, data |-> x.data, got |-> x.got]
          BY <3>1
        <4>2. x.pos = Pos(x.pos.cluster, x.pos.sector, x.pos.byte)
          BY <3>2, <3>5 DEF Position, Pos
        <4>3. QED
          BY <4>1, <4>2 DEF CallState
      <3>6. Grown(v, v, c)
        BY <1>1, NotGrown
      <3>l. Laid(v, v, data, c, h.filesize, h.filesize)
        BY DEF Laid
      <3>7. QED
        BY <1>1, <3>2, <3>4, <3>5, <3>6, <3>c, <3>l
    <2>3. QED
      BY <2>1, <2>2
  <1>4. u \in Tables /\ Counted(u) /\ Sound(u, c)
    BY <1>3 DEF Grown
  <1>5. CallState(x)
    BY <1>3
  <1>6. CallState(y) /\ y.pos = p /\ y.remain = len /\ y.at = at /\ y.ok = x.ok /\ y.vol = u
        /\ job.data = y.data
    BY <1>5
  <1> HIDE DEF u, p
  <1>7. InCall(y, u, c, size, end, job) /\ y.remain > 0
    <2>1. y.ok \in BOOLEAN /\ y.ok
      BY <1>3, <1>6
    <2>2. IsAt(u, c, y.pos, at)
      BY <1>3, <1>6
    <2>3. /\ job.low = y.at /\ job.data = y.data /\ job.kind # "read" /\ y.vol = u
          /\ CallState(y)
      BY <1>3, <1>6
    <2>4. /\ y.at \in Nat /\ y.remain \in Nat \ {0} /\ end = y.at + y.remain
          /\ size \in Nat /\ c \in Cluster
      BY <1>1, <1>2, <1>6
    <2>5. /\ y.vol \in Tables /\ Counted(y.vol) /\ Sound(y.vol, c) /\ Fits(y.vol, c, size)
          /\ IsAt(y.vol, c, y.pos, y.at)
      BY <1>3, <1>4, <1>6, <2>2, <2>3
    <2>6. InCall(y, y.vol, c, size, end, job)
      BY ONLY <2>1, <2>3, <2>4, <2>5, CallBegins
    <2>7. QED
      BY <1>6, <2>3, <2>6
  <1>8. QED
    BY <1>2, <1>3, <1>4, <1>7 DEF u, Fits

LEMMA WriteKeeps ==
  ASSUME ~SlackIsFree, Careful, FileInv, NEW f \in File, NEW len \in Lengths, Write(f, len)
  PROVE  FileInv' /\ Posix!Write(f, len)
  <1> DEFINE h == file[f]
             at == IF h.append THEN h.filesize ELSE h.currentPosition
             appending == h.append \/ len + at > h.filesize
             b == Started(f)
             k == b.handle
             c == k.startCluster
             x == Filled(b.vol, k, len)
             y == [x EXCEPT !.remain = len, !.at = at]
             s == Written(y, f, appending)
             to == at + len - s.remain
             z == IF to > h.filesize THEN to ELSE h.filesize
             o == IF h.append
                  THEN [k EXCEPT !.modified = TRUE, !.appendPosition = s.pos, !.filesize = z]
                  ELSE [k EXCEPT !.modified = TRUE, !.rwPosition = s.pos,
                                 !.currentPosition = to, !.filesize = z]
  <1>1. /\ h.inUse /\ at + len <= MaxSize /\ (at > h.filesize => HasRoom(f, at))
        /\ IF ~IsValidCluster(c)
           THEN vol' = b.vol /\ data' = data /\ file' = file /\ entry' = entry
           ELSE IF ~x.ok THEN vol' = x.vol /\ data' = x.data /\ Set(f, k)
           ELSE vol' = s.vol /\ data' = s.data /\ Set(f, o)
        /\ out' = <<>>
    BY DEF Write
  <1>2. IF IsValidCluster(c) THEN Begins(f, b.vol, k)
        ELSE /\ file[f].startCluster = CLUSTER_FREE
             /\ Reshaped(vol, CLUSTER_FREE, b.vol, CLUSTER_FREE)
             /\ FreeClusters(b.vol) = {}
    BY <1>1, StartedFact
  <1>3. len \in Nat \ {0} /\ MaxSize \in Nat
    BY FileAssumption
  <1>4. CASE ~IsValidCluster(c)
    <2>1. FileInv' /\ Seen(f, Bytes[f], Positions[f])
      BY <1>1, <1>2, <1>4, NotStarted
    <2>2. Posix!Write(f, len)
      <3> DEFINE q == Len(Bytes[f])
                 n == 0
      <3>1. Bytes[f] = Posix!Overlaid(f, q, n) /\ Positions[f] # -1
        BY <1>1, OverSame, FileBytes
      <3>2. n \in 0..len /\ FreeClusters(vol') = {} /\ len \in Nat
        BY <1>1, <1>2, <1>3, <1>4
      <3> HIDE DEF q, n
      <3>3. q = Len(Bytes[f])
        BY DEF q
      <3>4. QED
        BY <1>1, <2>1, <3>1, <3>2, <3>3, SeesWrite
    <2>3. QED
      BY <2>1, <2>2
  <1>5. CASE IsValidCluster(c)
    <2> DEFINE v == b.vol
               end == at + len
               size == IF at > k.filesize THEN at ELSE k.filesize
               job == [kind |-> IF appending THEN "append" ELSE "write", low |-> at, data |-> x.data,
                       bytes |-> [i \in Nat |-> Byte(f, i)]]
    <2> HIDE DEF b, x, s, k
    <2>1. /\ c \in Cluster /\ v \in Tables /\ Sound(v, c) /\ k \in Handles /\ k.inUse
          /\ k.filesize = h.filesize /\ k.append = h.append /\ k.currentPosition = h.currentPosition
          /\ Placed(v, k) /\ Begins(f, v, k)
          /\ \A w : Grown(v, w, c) => Reshaped(vol, StartOf(f), w, c)
          /\ Bytes[f] = BytesIn(v, data, c, k.filesize)
      BY <1>2, <1>5 DEF Begins
    <2>2. /\ k.filesize \in 0..MaxSize /\ k.currentPosition \in 0..MaxSize /\ k.filesize \in Nat
          /\ k.currentPosition \in Nat /\ at \in Nat
          /\ end \in 0..MaxSize /\ end \in Nat
      BY <1>1, <1>3, <2>1 DEF Handles
    <2>j. /\ job.low = at /\ job.data = x.data /\ Writes(job, f)
          /\ appending => job.kind = "append"
          /\ job.kind = "append" => k.filesize < end
      <3>1. job.low = at /\ job.data = x.data
        OBVIOUS
      <3>2. job.kind = IF appending THEN "append" ELSE "write"
        OBVIOUS
      <3>3. \A i \in Nat : job.bytes[i] = Byte(f, i)
        OBVIOUS
      <3> HIDE DEF job
      <3>4. job.kind # "read"
        BY <3>2
      <3>5. appending => k.filesize < end
        BY <1>3, <2>1, <2>2
      <3>6. QED
        BY <3>1, <3>2, <3>3, <3>4, <3>5 DEF Writes
    <2> HIDE DEF job
    <2>3. /\ x.ok /\ Grown(v, x.vol, c) /\ x.vol \in Tables /\ Sound(x.vol, c)
          /\ InCall(y, x.vol, c, size, end, job) /\ y.remain > 0
          /\ Laid(v, x.vol, x.data, c, k.filesize, size)
          /\ size <= Span(Size(x.vol, c)) /\ size \in 0..MaxSize
      <3>1. /\ at = (IF k.append THEN k.filesize ELSE k.currentPosition)
            /\ at > k.filesize => HasRoom(f, at)
            /\ end = at + len /\ size = (IF at > k.filesize THEN at ELSE k.filesize)
            /\ c = k.startCluster /\ x = Filled(v, k, len)
        BY <1>1, <2>1 DEF x
      <3>2. Begins(f, v, k) /\ end \in 0..MaxSize
        BY <2>1, <2>2
      <3> HIDE DEF at, end, size, c, h, v
      <3>3. CallState(x) => /\ CallState(y) /\ y.pos = x.pos /\ y.ok = x.ok /\ y.vol = x.vol
                            /\ y.remain = len /\ y.at = at /\ y.data = x.data
        <4>1. len \in Nat /\ at \in Nat
          BY <1>3, <2>2
        <4>2. y = Restart(x, len, at)
          BY DEF Restart
        <4>3. CallState(x) =>
                 LET w == Restart(x, len, at) IN
                 CallState(w) /\ w.pos = x.pos /\ w.ok = x.ok /\ w.vol = x.vol /\ w.remain = len /\ w.at = at
                 /\ w.data = x.data
          BY ONLY <4>1, RestartFact, ZenonT(60)
        <4> HIDE DEF y
        <4>4. QED
          BY <4>2, <4>3, Zenon
      <3> HIDE DEF y
      <3>4. /\ x.ok /\ Grown(v, x.vol, c) /\ x.vol \in Tables /\ Sound(x.vol, c)
            /\ InCall(y, x.vol, c, size, end, job) /\ y.remain > 0
            /\ Laid(v, x.vol, x.data, c, k.filesize, size)
            /\ size <= Span(Size(x.vol, c)) /\ at \in Nat /\ size \in 0..MaxSize
        BY <1>3, <2>j, <3>1, <3>2, <3>3, WriteStarts DEF Writes
      <3>5. QED
        BY <3>4
    <2>4. vol' = s.vol /\ data' = s.data /\ Set(f, o)
      BY <1>1, <1>5, <2>3
    <2>t. s = Written(y, f, appending)
      BY DEF s
    <2>f. z = (IF to > k.filesize THEN to ELSE k.filesize)
          /\ to = at + len - s.remain
          /\ size = (IF at > k.filesize THEN at ELSE k.filesize) /\ end = at + len
          /\ at = (IF k.append THEN k.filesize ELSE k.currentPosition)
      BY <2>1
    <2>o. o = IF k.append
              THEN [k EXCEPT !.modified = TRUE, !.appendPosition = s.pos, !.filesize = z]
              ELSE [k EXCEPT !.modified = TRUE, !.rwPosition = s.pos,
                             !.currentPosition = to, !.filesize = z]
      BY <2>1
    <2> HIDE DEF o, y, z, to, at, end, size, appending, v
    <2>s. size \in Nat
      BY <1>3, <2>3
    <2> DEFINE u == x.vol
               m == IF s.at > size THEN s.at ELSE size
    <2>5. InCall(s, u, c, size, end, job) /\ (s.remain = 0 \/ ~s.ok)
      <3> HIDE DEF c, u
      <3>1. u \in Tables /\ Sound(u, c) /\ InCall(y, u, c, size, end, job) /\ y.remain > 0
            /\ job.low \in Nat
        BY <2>2, <2>3, <2>j DEF u
      <3>2. QED
        BY <2>1, <2>2, <2>j, <2>s, <2>t, <3>1, WrittenFact
    <2>6. /\ Grown(u, s.vol, c) /\ s.at \in Nat /\ s.remain \in Nat /\ s.at + s.remain = end
          /\ at <= s.at /\ m > 0 /\ Size(s.vol, c) = ClustersFor(m)
          /\ IsAt(s.vol, c, s.pos, s.at) /\ s.pos \in Position
          /\ (~s.ok => FreeClusters(s.vol) = {}) /\ Carried(s, c, end, job)
      <3>1. u \in Tables /\ Sound(u, c) /\ size <= Span(Size(u, c)) /\ c \in Cluster
            /\ job.low = at /\ job.low \in Nat
        BY <2>1, <2>2, <2>3, <2>j
      <3>2. m = (IF s.at > size THEN s.at ELSE size)
        OBVIOUS
      <3> HIDE DEF m, u, c
      <3>3. QED
        BY <2>2, <2>5, <2>s, <3>1, <3>2, DoneFact
    <2>7. to = s.at /\ z = m /\ z \in 0..MaxSize /\ z \in Nat /\ to \in 0..MaxSize
      <3> HIDE DEF c, u
      <3>1. to = s.at
        BY <1>3, <2>2, <2>6, <2>f
      <3>2. s.at <= end
        BY <2>2, <2>6
      <3>3. to \in 0..MaxSize
        BY <1>3, <2>2, <2>6, <3>1, <3>2
      <3>4. z = m
        BY <2>2, <2>6, <2>f, <3>1
      <3>5. z \in 0..MaxSize
        BY <1>3, <2>2, <2>f, <3>3
      <3>6. QED
        BY <1>3, <3>1, <3>3, <3>4, <3>5
    <2> HIDE DEF m
    <2>8. Grown(v, s.vol, c)
      BY <2>1, <2>3, <2>6, GrownFurther
    <2>9. /\ Reshaped(vol, StartOf(f), vol', c) /\ Size(vol', c) = ClustersFor(z) /\ z > 0
          /\ c # CLUSTER_FREE
      BY <2>1, <2>4, <2>6, <2>7, <2>8, ClusterFact
    <2>w. WrittenTo(f, v, k.filesize, vol', data', c, at, to)
      <3> DEFINE n == k.filesize
                 d == x.data
      <3>1. /\ Sound(v, c) /\ n \in Nat /\ Grown(v, u, c) /\ at \in Nat
            /\ size = (IF at > n THEN at ELSE n) /\ size <= Span(Size(u, c))
            /\ Laid(v, u, d, c, n, size) /\ job.data = d /\ job.low = at
            /\ job.kind = "append" => n < end
            /\ to \in Nat /\ s.at = to /\ at <= to
        BY <2>1, <2>2, <2>3, <2>6, <2>7, <2>f, <2>j
      <3> HIDE DEF n, d, u, c
      <3>2. WrittenTo(f, v, n, s.vol, s.data, c, at, to)
        BY <2>1, <2>2, <2>6, <2>j, <2>s, <3>1, WrittenBytes
      <3>3. QED
        BY <2>4, <3>2 DEF n
    <2>v. ASSUME o \in Handles, o.inUse, o.startCluster = c, o.filesize = z,
                 \/ k.append /\ o.currentPosition = k.currentPosition
                 \/ ~k.append /\ o.currentPosition = to
          PROVE  Posix!Write(f, len)
      <3> DEFINE n == k.filesize
                 i == to - at
      <3>1. Positions[f] = k.currentPosition
        BY <1>1, <2>1, FileBytes
      <3>2. i \in 0..len /\ Reaches(n, at, i, to, z)
        <4>1. to \in Nat /\ at \in Nat /\ at <= to /\ to <= end /\ end = at + len /\ len \in Nat
          BY <1>3, <2>2, <2>6, <2>7, <2>f
        <4>2. i \in 0..len /\ to = at + i
          BY <4>1
        <4> HIDE DEF i
        <4>3. QED
          BY <2>f, <4>2 DEF Reaches
      <3>3. i < len => FreeClusters(vol') = {}
        <4>1. i < len => s.remain # 0
          BY <1>3, <2>2, <2>6, <2>7, <2>f
        <4>2. QED
          BY <2>4, <2>5, <2>6, <4>1
      <3>4. \/ at = n /\ o.currentPosition = Positions[f]
            \/ at = Positions[f] /\ o.currentPosition = to
        BY <2>f, <2>v, <3>1
      <3>5. /\ n \in Nat /\ at \in Nat /\ len \in Nat /\ Bytes[f] = BytesIn(v, data, c, n)
            /\ WrittenTo(f, v, n, vol', data', c, at, to)
        BY <1>3, <2>1, <2>2, <2>w
      <3> HIDE DEF n, i, c
      <3>6. QED
        BY <1>1, <2>4, <2>9, <2>v, <3>2, <3>3, <3>4, <3>5, WriteSeen
    <2>10. CASE k.append
      <3>1. o = [k EXCEPT !.modified = TRUE, !.appendPosition = s.pos, !.filesize = z]
        BY <2>o, <2>10
      <3>2. /\ o \in Handles /\ o.inUse /\ o.startCluster = c /\ o.filesize = z /\ o.append
            /\ o.currentPosition = k.currentPosition /\ o.rwPosition = k.rwPosition
            /\ o.appendPosition = s.pos /\ o.modified
        BY <2>1, <2>6, <2>7, <2>10, <3>1 DEF Handles
      <3>3. z = s.at /\ k.currentPosition <= k.filesize /\ k.filesize <= z
        <4> HIDE DEF c
        <4>1. k.currentPosition <= k.filesize
          BY <2>1, <2>10 DEF Placed
        <4>2. at = k.filesize /\ size = k.filesize
          BY <2>2, <2>10, <2>f
        <4>3. QED
          BY <2>2, <2>6, <2>7, <4>1, <4>2 DEF m
      <3>4. IsAt(s.vol, c, k.rwPosition, k.currentPosition)
        <4>1. IsAt(v, c, k.rwPosition, k.currentPosition)
          BY <2>1, <2>9, <3>3 DEF Placed
        <4> DEFINE p == k.rwPosition
                   a == k.currentPosition
                   w == s.vol
        <4>2. v \in Tables /\ Grown(v, w, c) /\ Sound(v, c) /\ c \in Cluster /\ IsAt(v, c, p, a)
          BY <2>1, <2>8, <4>1
        <4> HIDE DEF p, a, w, c
        <4>3. IsAt(w, c, p, a)
          BY <4>2, GrownAt
        <4>4. QED
          BY <4>3 DEF p, a, w
      <3>5. k.currentPosition <= z
        BY <2>2, <2>7, <3>3
      <3>6. Placed(vol', o) /\ Agrees(o, entry[f])
        BY <2>4, <2>6, <3>2, <3>3, <3>4, <3>5 DEF Placed, Agrees
      <3>7. Posix!Write(f, len)
        BY <2>10, <2>v, <3>2
      <3> HIDE DEF c, h
      <3>8. FileInv'
        BY <2>4, <2>9, <3>2, <3>6, SetFact
      <3>9. QED
        BY <3>7, <3>8
    <2>11. CASE ~k.append
      <3>1. o = [k EXCEPT !.modified = TRUE, !.rwPosition = s.pos, !.currentPosition = to, !.filesize = z]
        BY <2>o, <2>11
      <3>2. /\ o \in Handles /\ o.inUse /\ o.startCluster = c /\ o.filesize = z /\ ~o.append
            /\ o.currentPosition = to /\ o.rwPosition = s.pos
            /\ o.appendPosition = k.appendPosition /\ o.modified
        BY <2>1, <2>6, <2>7, <2>11, <3>1 DEF Handles
      <3>3. Placed(vol', o) /\ Agrees(o, entry[f])
        BY <2>4, <2>6, <2>7, <3>2 DEF Placed, Agrees
      <3>4. Posix!Write(f, len)
        BY <2>11, <2>v, <3>2
      <3> HIDE DEF c, h
      <3>5. FileInv'
        BY <2>4, <2>9, <3>2, <3>3, SetFact
      <3>6. QED
        BY <3>4, <3>5
    <2>12. QED
      BY <2>10, <2>11
  <1>6. QED
    BY <1>4, <1>5

LEMMA FtruncateKeeps ==
  ASSUME ~SlackIsFree, Careful, FileInv, NEW f \in File, NEW size \in Offsets, Ftruncate(f, size)
  PROVE  FileInv' /\ Posix!Truncate(f)
  <1>1. /\ file[f].currentPosition = 0 /\ out' = <<>>
        /\ \/ Lengthen(f, size)
           \/ Shorten(f, size)
           \/ /\ file[f].inUse /\ Set(f, [file[f] EXCEPT !.modified = TRUE])
              /\ vol' = vol /\ data' = data
    BY DEF Ftruncate
  <1>2. CASE Lengthen(f, size)
    BY <1>1, <1>2, LengthenKeeps
  <1>3. CASE Shorten(f, size)
    BY <1>1, <1>3, ShortenKeeps
  <1>4. CASE /\ file[f].inUse /\ Set(f, [file[f] EXCEPT !.modified = TRUE])
             /\ vol' = vol /\ data' = data
    BY <1>1, <1>4, SameSizeKeeps
  <1>5. QED
    BY <1>1, <1>2, <1>3, <1>4

-----------------------------------------------------------------------------
(* The theorems.                                                              *)

LEMMA InitFact == Init => FileInv
  <1> SUFFICES ASSUME Init PROVE FileInv
    OBVIOUS
  <1>1. /\ vol.fat = [c \in Cluster |-> CLUSTER_FREE] /\ vol.firstFree = CLUSTER_FIRST
        /\ vol.numberFree = Cardinality(Cluster)
        /\ vol = [fat |-> vol.fat, firstFree |-> vol.firstFree, numberFree |-> vol.numberFree]
    BY DEF Init
  <1>2. FreeClusters(vol) = Cluster
    BY <1>1 DEF FreeClusters
  <1>3. vol \in Tables
    <2>1. CLUSTER_FIRST \in CLUSTER_FIRST..LastCluster + 1
      BY ClusterFact DEF CLUSTER_FIRST
    <2>2. vol.fat \in [Cluster -> {CLUSTER_FREE, CLUSTER_EOF} \union Cluster]
      BY <1>1
    <2>3. vol.numberFree \in 0..LastCluster - 1
      BY <1>1, ClusterFact
    <2>4. QED
      BY <1>1, <2>1, <2>2, <2>3 DEF Tables
  <1>4. NoEntry \in Entries /\ NoEntry.startCluster = CLUSTER_FREE /\ NoEntry.filesize = 0
    BY UnitFact DEF NoEntry, Entries
  <1>5. /\ file \in [File -> Handles] /\ entry \in [File -> Entries]
        /\ \A f \in File : ~file[f].inUse /\ entry[f] = NoEntry
    BY <1>4, ClosedFact DEF Init
  <1>6. \A f \in File : StartOf(f) = CLUSTER_FREE /\ SizeOf(f) = 0
    BY <1>4, <1>5 DEF StartOf, SizeOf
  <1>7. TypeOK
    BY <1>3, <1>5 DEF TypeOK, Handles, Entries
  <1>8. ChainsApart
    <2>1. \A f \in File : Chain(vol, StartOf(f)) = {}
      BY <1>6, NoChain
    <2>2. UNION {Chain(vol, StartOf(f)) : f \in File} = {}
      BY <2>1
    <2>3. UsedClusters(vol) = {}
      BY <1>2 DEF UsedClusters
    <2>4. QED
      BY <1>1, <1>2, <1>6, <2>1, <2>2, <2>3 DEF ChainsApart
  <1>9. QED
    BY <1>5, <1>6, <1>7, <1>8 DEF FileInv, SizesFit

(* Every step keeps the invariant, and is one of a program's own files.       *)
LEMMA StepKeeps ==
  ASSUME ~SlackIsFree, Careful, FileInv, [Next]_vars
  PROVE  FileInv' /\ [Posix!Next]_(Posix!vars)
  <1>1. CASE UNCHANGED vars
    <2>1. FileInv'
      BY <1>1, NothingChanges DEF vars
    <2>2. UNCHANGED Posix!vars
      BY <1>1 DEF vars, Posix!vars, BytesOf, StartOf, SizeOf
    <2>3. QED
      BY <2>1, <2>2
  <1>2. CASE Next
    <2>1. PICK f \in File :
             \/ \E trunc, append \in BOOLEAN : Open(f, trunc, append)
             \/ Close(f)
             \/ \E n \in Lengths : Write(f, n)
             \/ Fsync(f)
             \/ \E n \in Lengths : ReadCall(f, n)
             \/ \E p \in Offsets : Seek(f, p) \/ Ftruncate(f, p)
      BY <1>2 DEF Next
    <2>2. FileInv' /\ Posix!Next
      <3>1. CASE \E trunc, append \in BOOLEAN : Open(f, trunc, append)
        <4>1. FileInv' /\ Posix!Open(f)
          BY <3>1, OpenKeeps
        <4>2. QED
          BY <4>1 DEF Posix!Next
      <3>2. CASE Close(f)
        <4>1. FileInv' /\ Posix!Close(f)
          BY <3>2, CloseKeeps
        <4>2. QED
          BY <4>1 DEF Posix!Next
      <3>3. CASE \E n \in Lengths : Write(f, n)
        <4>1. PICK n \in Lengths : Write(f, n)
          BY <3>3
        <4>2. FileInv' /\ Posix!Write(f, n)
          BY <4>1, WriteKeeps
        <4>3. QED
          BY <4>2 DEF Posix!Next
      <3>4. CASE Fsync(f)
        <4>1. FileInv' /\ Posix!Seek(f)
          BY <3>4, FsyncKeeps
        <4>2. QED
          BY <4>1 DEF Posix!Next
      <3>5. CASE \E n \in Lengths : ReadCall(f, n)
        <4>1. PICK n \in Lengths : ReadCall(f, n)
          BY <3>5
        <4>2. FileInv' /\ Posix!Read(f, n)
          BY <4>1, ReadKeeps
        <4>3. QED
          BY <4>2 DEF Posix!Next
      <3>6. CASE \E p \in Offsets : Seek(f, p)
        <4>1. FileInv' /\ Posix!Seek(f)
          BY <3>6, SeekKeeps
        <4>2. QED
          BY <4>1 DEF Posix!Next
      <3>7. CASE \E p \in Offsets : Ftruncate(f, p)
        <4>1. FileInv' /\ Posix!Truncate(f)
          BY <3>7, FtruncateKeeps
        <4>2. QED
          BY <4>1 DEF Posix!Next
      <3>8. QED
        BY <2>1, <3>1, <3>2, <3>3, <3>4, <3>5, <3>6, <3>7
    <2>3. QED
      BY <2>2
  <1>3. QED
    BY <1>1, <1>2

(* On a volume whose table does not end in zeros, a program that leaves room  *)
(* for what extends a file without data, and that seeks before it reads where *)
(* a cluster ended with the file, keeps the files apart, their clusters as    *)
(* many as their sizes need, and the position of every handle where it says.  *)
THEOREM FileInvariant == Careful /\ ~SlackIsFree => (Spec => []FileInv)
  <1>1. ASSUME Careful, ~SlackIsFree PROVE Spec => []FileInv
    <2>1. FileInv /\ [Next]_vars => FileInv'
      BY <1>1, StepKeeps
    <2>2. QED
      BY <2>1, InitFact, PTL DEF Spec
  <1>2. QED
    BY <1>1

LEMMA FilesAccounted == FileInv => ClustersAccountedFor
  <1> SUFFICES ASSUME FileInv PROVE ClustersAccountedFor
    OBVIOUS
  <1>1. ASSUME NEW f \in File
        PROVE  Cardinality(Chain(vol, StartOf(f))) = ClustersFor(SizeOf(f))
    <2>1. IF StartOf(f) = CLUSTER_FREE THEN SizeOf(f) = 0
          ELSE Size(vol, StartOf(f)) = ClustersFor(SizeOf(f))
      BY FileFact
    <2>2. CASE StartOf(f) = CLUSTER_FREE
      BY <2>1, <2>2, NoChain, FS_EmptySet, ClustersForFact
    <2>3. CASE StartOf(f) # CLUSTER_FREE
      BY <2>1, <2>3 DEF Size
    <2>4. QED
      BY <2>2, <2>3
  <1>2. TypeOK /\ ChainsApart
    BY DEF FileInv
  <1>3. QED
    BY <1>1, <1>2 DEF ClustersAccountedFor, ChainsApart, UsedClusters

(* Whatever was written, cut, extended or refused for want of room, no        *)
(* cluster is lost, none is in two files, and the count of the free ones is   *)
(* right (_FAT_open, _FAT_write, _FAT_ftruncate, linkFreeCluster, clearLinks, *)
(* trimChain): for volumes and files of any size.                             *)
THEOREM ClustersStayAccounted == Careful /\ ~SlackIsFree => (Spec => []ClustersAccountedFor)
  <1>1. FileInv => ClustersAccountedFor
    BY FilesAccounted
  <1>2. QED
    BY <1>1, FileInvariant, PTL

LEMMA InitSeen == Init => Posix!Init
  <1> SUFFICES ASSUME Init PROVE Posix!Init
    OBVIOUS
  <1>1. \A f \in File : ~file[f].inUse /\ entry[f].filesize = 0
    BY DEF Init, Closed, NoEntry
  <1>2. \A f \in File : BytesOf(f) = <<>>
    BY <1>1 DEF BytesOf, SizeOf
  <1>3. QED
    BY <1>1, <1>2 DEF Posix!Init, Init

(* For such a program a file of libfat is what it takes a file for: through   *)
(* opens, seeks, truncations and refused writes, each byte is read back where *)
(* it was written, zeros where nothing was, no call changes another file, and *)
(* a write is only short once no cluster is free (_FAT_open, _FAT_read,       *)
(* _FAT_write, _FAT_seek, _FAT_ftruncate): for volumes and files of any size. *)
THEOREM FilesArePosix == Careful /\ ~SlackIsFree => (Spec => ImplementsPosixFile)
  <1>1. ASSUME Careful, ~SlackIsFree PROVE Spec => ImplementsPosixFile
    <2>1. FileInv /\ [Next]_vars => FileInv' /\ [Posix!Next]_(Posix!vars)
      BY <1>1, StepKeeps
    <2>2. QED
      BY <2>1, InitFact, InitSeen, PTL DEF Spec, ImplementsPosixFile, Posix!Spec
  <1>2. QED
    BY <1>1
=============================================================================
