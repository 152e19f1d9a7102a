------------------------------- MODULE FatTree -------------------------------
(* The directories of libfat (libfat/source/directory.c, fatdir.c, and the    *)
(* part of _FAT_open that creates files): mkdir, unlink, rename, chdir, and   *)
(* one file that may be open meanwhile.  Each call holds the partition's lock *)
(* and is one step.                                                           *)
(*                                                                            *)
(* A directory is a chain of clusters of slots.  A long name takes a slot     *)
(* before its entry; a slot "last" ends the directory.                        *)
EXTENDS FatTable, SequencesExt

CONSTANTS
    SlotsPerCluster,
    Names,     \* the names that the program uses
    LongNames, \* those that need a slot of their own
    Careful    \* whether the program spares the library its weak points

ASSUME TreeAssumption ==
    SlotsPerCluster \in Nat /\ SlotsPerCluster >= 3 /\ LongNames \subseteq Names

VARIABLES
    vol,  \* the file allocation table (see FatTable)
    slot, \* the slots of each cluster
    cwd,  \* partition->cwdCluster
    open, \* the file that is open: its entry, its first cluster, modified
    res   \* what the last call returned

vars == <<vol, slot, cwd, open, res>>

rootDirCluster == CLUSTER_FIRST
CLUSTER_ROOT == 0

Slot(k, n, c) == [kind |-> k, name |-> n, cluster |-> c]
LAST == Slot("last", "", 0)
FREE == Slot("free", "", 0)
PART == Slot("part", "", 0)
Blank == [o \in 0..SlotsPerCluster - 1 |-> LAST]
Entries == {"dir", "file"}

Closed == [inUse |-> FALSE, at |-> <<CLUSTER_FREE, 0>>, cluster |-> CLUSTER_FREE,
           modified |-> FALSE]

-----------------------------------------------------------------------------
(* Directories; "w" is the volume in the course of a call: w.vol, w.slot.     *)

Now == [vol |-> vol, slot |-> slot]

Length(w, d) == Cardinality(Chain(w.vol, d)) * SlotsPerCluster

(* The place of slot i of directory d, and what is in it.                     *)
Place(w, d, i) == <<Walk(w.vol, d)[i \div SlotsPerCluster], i % SlotsPerCluster>>
At(w, p) == w.slot[p[1]][p[2]]
Kind(w, d, i) == At(w, Place(w, d, i)).kind

(* The slots of d that getNextEntry goes through: those before the end mark.  *)
Used(w, d) ==
    LET length == Length(w, d) IN
    0..Least({i \in 0..length - 1 : Kind(w, d, i) = "last"} \union {length}) - 1

(* Where the entries of d are, those of a name in particular.                 *)
EntriesIn(w, d) == {p \in {Place(w, d, i) : i \in Used(w, d)} : At(w, p).kind \in Entries}
Named(w, d, n) == {p \in EntriesIn(w, d) : At(w, p).name = n}

Put(w, p, s) == [w EXCEPT !.slot[p[1]][p[2]] = s]

IsDot(n) == n \in {".", ".."}
Parts(n) == IF n \in LongNames THEN 1 ELSE 0

(* linkFreeClusterCleared.                                                    *)
Cleared(w, l) ==
    [vol |-> l.vol, cluster |-> l.cluster,
     slot |-> IF IsValidCluster(l.cluster) THEN [w.slot EXCEPT ![l.cluster] = Blank] ELSE w.slot]
LinkCleared(w, c) == Cleared(w, LinkFreeCluster(w.vol, c))

(* findEntryGap.  The first free slots that are enough; else the free slots   *)
(* before the end mark, and what follows it, for which the directory is made  *)
(* a cluster longer if need be.                                               *)
Gap(free, end, size) ==
    LET gaps == {i \in free : i..i + size - 1 \subseteq free}
        tail == {i \in free : i..end - 1 \subseteq free} \union {end}
    IN  Least(IF gaps # {} THEN gaps ELSE tail)
GapIn(w, d, size) ==
    Gap({i \in Used(w, d) : Kind(w, d, i) = "free"}, Cardinality(Used(w, d)), size)

AtEnd(w, d, g, size) == ~(g..g + size - 1 \subseteq Used(w, d))

Lengthened(w, d) == LinkCleared(w, LastOf(w.vol, d))

(* Entry e, with the part of its name before it, in "size" slots from g on.   *)
Filled(w, d, g, size, e) ==
    [ok |-> TRUE, at |-> Place(w, d, g + size - 1),
     w |-> Put(IF size = 2 THEN Put(w, Place(w, d, g), PART) ELSE w, Place(w, d, g + size - 1), e)]

\* Mutant: the slot after the entry is not made the end.
FilledUnmarked(w, d, g, size, end, e) == Filled(w, d, g, size, e)

(* The same; at the end of the directory, an end mark follows.                *)
FilledTo(w, d, g, size, end, e) ==
    Filled(IF end THEN Put(w, Place(w, d, g + size), LAST) ELSE w, d, g, size, e)

NotAdded(w) == [ok |-> FALSE, w |-> w, at |-> <<CLUSTER_FREE, 0>>]

(* The slots from g on, with a cluster x for the directory if it needs one.   *)
AddIn(x, d, g, size, end, e) ==
    IF IsValidCluster(x.cluster) THEN FilledTo(x, d, g, size, end, e) ELSE NotAdded(x)
AddAt(w, d, g, size, end, e) ==
    IF g + size - 1 + (IF end THEN 1 ELSE 0) < Length(w, d)
    THEN FilledTo(w, d, g, size, end, e)
    ELSE AddIn(Lengthened(w, d), d, g, size, end, e)
AddFrom(w, d, g, size, e) == AddAt(w, d, g, size, AtEnd(w, d, g, size), e)

(* addEntry: entry e of name n is put into directory d.                       *)
AddEntry(w, d, n, e) ==
    IF Named(w, d, n) # {} THEN NotAdded(w)
    ELSE AddFrom(w, d, GapIn(w, d, Parts(n) + 1), Parts(n) + 1, e)

(* The slot before place p in directory d.                                    *)
Before(w, d, p) ==
    LET i == CHOOSE i \in 0..Length(w, d) - 1 : Place(w, d, i) = p IN Place(w, d, i - 1)

(* removeEntry of what is at place p of directory d.  It goes one slot on     *)
(* when it is done, and fails if there is none.                               *)
RemoveEntry(w, d, p) ==
    [ok |-> p # Place(w, d, Length(w, d) - 1),
     w |-> Put(IF At(w, p).name \in LongNames THEN Put(w, Before(w, d, p), FREE) ELSE w, p, FREE)]

-----------------------------------------------------------------------------
(* entryFromPath.  A path is absolute or not, with its components.  The       *)
(* lookup goes from directory to directory; "none" is where it failed.        *)
NONE == CLUSTER_ERROR

(* What component n of directory d is: a place, or the root.                  *)
RootEntry == [kind |-> "dir", cluster |-> rootDirCluster, at |-> <<CLUSTER_FREE, 0>>]
NoEntry == [kind |-> "none", cluster |-> NONE, at |-> <<CLUSTER_FREE, 0>>]

Meaning(s, p) ==
    IF s.kind = "dir" /\ s.cluster = CLUSTER_ROOT THEN RootEntry
    ELSE [kind |-> s.kind, cluster |-> s.cluster, at |-> p]

FirstIn(w, found) ==
    IF found = {} THEN NoEntry
    ELSE LET p == CHOOSE q \in found : TRUE IN Meaning(At(w, p), p)

Component(w, d, n) ==
    IF d = rootDirCluster /\ IsDot(n) THEN RootEntry ELSE FirstIn(w, Named(w, d, n))

Start(path) == IF path.abs THEN rootDirCluster ELSE cwd

EntryFromPath(path) ==
    LET Into(e, n) == IF e.kind = "dir" THEN Component(Now, e.cluster, n) ELSE NoEntry
        from == [RootEntry EXCEPT !.cluster = Start(path)]
    IN  IF path.abs /\ path.names = <<>> THEN RootEntry
        ELSE FoldLeft(Into, from, path.names)

(* The directory that the last component of a path is in.                     *)
DirOf(path) ==
    IF Len(path.names) = 1 /\ ~path.abs
    THEN [RootEntry EXCEPT !.cluster = cwd]
    ELSE EntryFromPath([path EXCEPT !.names = Front(@)])

Exists(path) == EntryFromPath(path).kind # "none"
HasDir(path) == DirOf(path).kind = "dir"

-----------------------------------------------------------------------------
Do(w, ok) ==
    /\ vol' = w.vol /\ slot' = w.slot
    /\ res' = IF ok THEN "ok" ELSE "fail"

Fail == Do(Now, FALSE) /\ UNCHANGED <<cwd, open>>

(* The root of a volume that another system made: what is behind its end mark *)
(* is not to be seen.                                                         *)
Formatted == [Blank EXCEPT ![SlotsPerCluster - 1] =
                 Slot("file", CHOOSE n \in Names : TRUE, CLUSTER_FREE)]

Init ==
    /\ vol = [fat |-> [c \in Cluster |-> IF c = rootDirCluster THEN CLUSTER_EOF
                                         ELSE CLUSTER_FREE],
              firstFree |-> CLUSTER_FIRST, numberFree |-> Cardinality(Cluster) - 1]
    /\ slot = [c \in Cluster |-> IF c = rootDirCluster THEN Formatted ELSE Blank]
    /\ cwd = rootDirCluster
    /\ open = Closed
    /\ res = "ok"

(* The slots of a cluster that was given back do not matter.                  *)
Kept(w) == [w EXCEPT !.slot = [c \in Cluster |->
                IF w.vol.fat[c] = CLUSTER_FREE THEN Blank ELSE @[c]]]

(* _FAT_mkdir.  The cluster comes before the entry, and is lost when there is *)
(* no room for that.                                                          *)
Mkdir(path) ==
    IF Exists(path) \/ ~HasDir(path) THEN Fail
    ELSE \E l \in {LinkCleared(Now, CLUSTER_FREE)}, d \in {DirOf(path).cluster} :
         LET n == Last(path.names)
             c == l.cluster
             up == IF d = rootDirCluster THEN CLUSTER_ROOT ELSE d
         IN  IF ~IsValidCluster(c)
             THEN Do(l, FALSE) /\ UNCHANGED <<cwd, open>>
             ELSE \E a \in {AddEntry(l, d, n, Slot("dir", n, c))} :
                  /\ Careful => a.ok
                  /\ Do(IF ~a.ok THEN a.w
                        ELSE Put(Put(a.w, <<c, 0>>, Slot("dir", ".", c)),
                                 <<c, 1>>, Slot("dir", "..", up)), a.ok)
                  /\ UNCHANGED <<cwd, open>>

\* Mutant: the directory is not looked into.
AnyIsEmpty(d) == TRUE

Empty(d) == \A p \in EntriesIn(Now, d) : IsDot(At(Now, p).name)

IsOpen(e) == open.inUse /\ e.at = open.at

(* _FAT_unlink, of files and directories.                                     *)
Unlink(path) ==
    \E e \in {EntryFromPath(path)} :
        /\ Careful => ~IsOpen(e) /\ e.cluster # cwd
        /\ IF e.kind = "none" \/ (e.kind = "dir" /\ ~Empty(e.cluster))
           THEN Fail
           ELSE \E r \in {RemoveEntry([Now EXCEPT !.vol = ClearLinks(@, e.cluster)],
                                      DirOf(path).cluster, e.at)} :
                Do(Kept(r.w), r.ok) /\ UNCHANGED <<cwd, open>>

(* _FAT_rename: the new entry is added, then the old one removed.             *)
Rename(old, new) ==
    \E e \in {EntryFromPath(old)}, from \in {DirOf(old).cluster}, to \in {DirOf(new).cluster} :
        /\ Careful => ~IsOpen(e) /\ (e.kind = "dir" => to = from)
        /\ IF e.kind = "none" \/ Exists(new) \/ ~HasDir(new) THEN Fail
           ELSE /\ LET n == Last(new.names) IN
                   \E a \in {AddEntry(Now, to, n, [At(Now, e.at) EXCEPT !.name = n])} :
                       IF ~a.ok THEN Do(a.w, FALSE)
                       ELSE \E r \in {RemoveEntry(a.w, from, e.at)} : Do(r.w, r.ok)
                /\ UNCHANGED <<cwd, open>>

Chdir(path) == \E e \in {EntryFromPath(path)} :
    IF e.kind = "dir"
    THEN cwd' = e.cluster /\ Do(Now, TRUE) /\ UNCHANGED open
    ELSE Fail

(* _FAT_open with O_CREAT.                                                    *)
Open(path) ==
    LET n == Last(path.names)
        Opened(at, c, new) == open' = [inUse |-> TRUE, at |-> at, cluster |-> c, modified |-> new]
    IN  /\ ~open.inUse
        /\ \E e \in {EntryFromPath(path)} :
           IF e.kind = "file"
           THEN Opened(e.at, e.cluster, FALSE) /\ UNCHANGED <<vol, slot, cwd, res>>
           ELSE IF e.kind = "dir" \/ ~HasDir(path) THEN Fail
           ELSE \E a \in {AddEntry(Now, DirOf(path).cluster, n, Slot("file", n, CLUSTER_FREE))} :
                /\ Do(a.w, a.ok)
                /\ IF a.ok THEN Opened(a.at, CLUSTER_FREE, TRUE) ELSE UNCHANGED open
                /\ UNCHANGED cwd

(* The first bytes are written to the file that is open (see FatFile).        *)
Write ==
    LET l == LinkFreeCluster(vol, CLUSTER_FREE) IN
    /\ open.inUse /\ open.cluster = CLUSTER_FREE /\ IsValidCluster(l.cluster)
    /\ vol' = l.vol
    /\ open' = [open EXCEPT !.cluster = l.cluster, !.modified = TRUE]
    /\ UNCHANGED <<slot, cwd, res>>

(* _FAT_close: the entry is found where it was when the file was opened.      *)
Close ==
    /\ open.inUse
    /\ slot' = IF open.modified
               THEN Put(Now, open.at, [At(Now, open.at) EXCEPT !.cluster = open.cluster]).slot
               ELSE slot
    /\ open' = Closed
    /\ UNCHANGED <<vol, cwd, res>>

(* The paths that calls are given; the last component is not "." or "..".     *)
Relative(s) == [abs |-> FALSE, names |-> s]
Absolute(s) == [abs |-> TRUE, names |-> s]
Through == (Names \ LongNames) \union {".."}
Targets == {Relative(<<n>>) : n \in Names} \union {Absolute(<<n>>) : n \in Names} \union
           {Relative(<<m, n>>) : m \in Through, n \in Names}
Places == {Absolute(<<>>)} \union {Relative(<<n>>) : n \in Names \union {".."}}

Next ==
    \/ \E p \in Targets : Mkdir(p) \/ Unlink(p) \/ Open(p)
    \/ \E p \in Targets, n \in Names : Rename(p, Relative(<<n>>))
    \/ \E p \in Places : Chdir(p)
    \/ Write \/ Close

Spec == Init /\ [][Next]_vars

-----------------------------------------------------------------------------
(* What there is, by absolute path, found from the root, as deep as           *)
(* directories of different clusters can be.                                  *)
Found ==
    LET Within(x) ==
            IF x.kind # "dir" THEN {}
            ELSE {[path |-> Append(x.path, At(Now, p).name), kind |-> At(Now, p).kind,
                   cluster |-> At(Now, p).cluster, at |-> p] :
                     p \in {q \in EntriesIn(Now, x.cluster) : ~IsDot(At(Now, q).name)}}
        root == [path |-> <<>>, kind |-> "dir", cluster |-> rootDirCluster,
                 at |-> <<CLUSTER_FREE, 0>>]
        level[k \in 1..LastCluster] ==
            IF k = 1 THEN {root} ELSE UNION {{x} \union Within(x) : x \in level[k - 1]}
    IN  level[LastCluster]

TypeOK ==
    /\ vol \in Tables
    /\ \A c \in Cluster, o \in 0..SlotsPerCluster - 1 :
          slot[c][o] \in [kind : {"last", "free", "part", "dir", "file"},
                          name : Names \union {"", ".", ".."}, cluster : 0..LastCluster]
    /\ cwd \in Cluster
    /\ open.cluster \in Cluster \union {CLUSTER_FREE} /\ res \in {"ok", "fail"}

(* The first cluster of what was found; of the open file, as the handle says. *)
FirstOf(x) == IF open.inUse /\ x.at = open.at THEN open.cluster ELSE x.cluster

(* Every cluster in use belongs to one directory or file that can be found    *)
(* from the root, and the count of the free ones is right.                    *)
ClustersFound ==
    /\ TypeOK
    /\ Cluster \ FreeClusters(vol) = UNION {Chain(vol, FirstOf(x)) : x \in Found}
    /\ \A x, y \in Found :
        x # y => Chain(vol, FirstOf(x)) \intersect Chain(vol, FirstOf(y)) = {}
    /\ vol.numberFree = Cardinality(FreeClusters(vol))

Posix == INSTANCE PosixTree WITH
    tree <- {[path |-> x.path, kind |-> x.kind,
              here |-> x.kind = "dir" /\ x.cluster = cwd] : x \in Found}

(* Through all calls, the directories on the volume are what a program takes  *)
(* them for: a call does all it should, or fails and changes nothing, and a   *)
(* path leads where it should whatever was renamed or removed.                *)
ImplementsPosixTree == Posix!Spec
=============================================================================
