------------------------------- MODULE FatFile -------------------------------
(* The files of libfat (libfat/source/fatfile.c): what open, close, read,     *)
(* write, seek and ftruncate do to the clusters of a volume, by the position  *)
(* in the chain that every open file keeps.  Each call holds the partition's  *)
(* lock and is one step.                                                      *)
(*                                                                            *)
(* The program is thought to write at each offset of a file one byte of its   *)
(* own, so that a byte in the wrong place is seen when it is read.            *)
EXTENDS FatTable, Sequences

CONSTANTS
    File,              \* the files; none is opened twice
    BytesPerSector, SectorsPerCluster,
    Lengths,           \* the lengths passed to read and write
    Offsets,           \* the offsets passed to lseek, and sizes to ftruncate
    Rewritten,         \* bound: the other files are opened to be appended to
    MaxSize,           \* bound: no file is made longer
    Careful            \* whether the program spares the library its weak points

ASSUME FileAssumption ==
    /\ BytesPerSector \in Nat \ {0} /\ SectorsPerCluster \in Nat \ {0}
    /\ Lengths \subseteq Nat \ {0} /\ MaxSize \in Nat /\ Offsets \subseteq 0..MaxSize
    /\ Rewritten \subseteq File
    /\ Careful \in BOOLEAN

VARIABLES
    vol,   \* the file allocation table (see FatTable)
    data,  \* the bytes of the clusters, from the first to the last
    file,  \* FILE_STRUCT
    entry, \* start cluster and size in the directory entries
    out    \* what the last read returned

vars == <<vol, data, file, entry, out>>

BytesPerCluster == BytesPerSector * SectorsPerCluster
Place == 0..Cardinality(Cluster) * BytesPerCluster - 1

Zero == <<"zero">>
Junk == <<"junk">>     \* what is in a cluster that was given back, or never used
Byte(f, p) == <<f, p>> \* what the program writes at offset p of file f

Position == [cluster : Cluster \union {CLUSTER_FREE},
             sector : 0..SectorsPerCluster, byte : 0..BytesPerSector]

Pos(c, s, b) == [cluster |-> c, sector |-> s, byte |-> b]

Closed == [inUse |-> FALSE, append |-> FALSE, modified |-> FALSE, filesize |-> 0,
           startCluster |-> CLUSTER_FREE, currentPosition |-> 0,
           rwPosition |-> Pos(CLUSTER_FREE, 0, 0), appendPosition |-> Pos(CLUSTER_FREE, 0, 0)]

(* clusterToSector and the offset in the sector: where position p is.         *)
At(p) == (p.cluster - CLUSTER_FIRST) * BytesPerCluster + p.sector * BytesPerSector + p.byte

Smaller(a, b) == IF a < b THEN a ELSE b

-----------------------------------------------------------------------------
(* The parts of a call.  "s" is its state:                                    *)
(*   pos, remain   the position, and how many bytes are left to transfer      *)
(*   at            the offset in the file of the next byte                    *)
(*   ok            flagNoError                                                *)
(*   vol, data     the volume                                                 *)
(*   got           the bytes read                                             *)

(* _FAT_cache_readSectors and readPartialSector: n bytes from position p.     *)
Get(s, p, n) ==
    [s EXCEPT !.remain = @ - n, !.at = @ + n,
              !.got = @ \o [i \in 1..n |-> IF At(p) + i - 1 \in Place
                                         THEN s.data[At(p) + i - 1] ELSE Junk]]

(* _FAT_cache_writeSectors and writePartialSector; "keep" is FALSE when the   *)
(* rest of the sector is erased.                                              *)
Put(s, f, p, n, keep) ==
    LET first == At(p)
        last  == first + n
        erased == IF keep THEN last ELSE first - p.byte + BytesPerSector
    IN  [s EXCEPT !.remain = @ - n, !.at = @ + n,
                  !.data = [i \in Place |-> IF first <= i /\ i < last THEN Byte(f, s.at + i - first)
                                            ELSE IF last <= i /\ i < erased THEN Zero
                                            ELSE @[i]]]

PutZeros(s, p, n) ==
    [s EXCEPT !.remain = @ - n, !.at = @ + n,
              !.data = [i \in Place |-> IF At(p) <= i /\ i < At(p) + n THEN Zero ELSE @[i]]]

(* What is left of the sector, and how many whole sectors to take from there. *)
InSector(s) == Smaller(BytesPerSector - s.pos.byte, s.remain)

SectorsLeft(s) ==
    IF s.remain > (SectorsPerCluster - s.pos.sector) * BytesPerSector
    THEN SectorsPerCluster - s.pos.sector
    ELSE s.remain \div BytesPerSector

(* The position n bytes on in its sector; n sectors on.                       *)
ByteOn(p, n) ==
    IF p.byte + n >= BytesPerSector THEN Pos(p.cluster, p.sector + 1, 0)
    ELSE [p EXCEPT !.byte = @ + n]
SectorOn(p, n) == [p EXCEPT !.sector = @ + n]

(* Turn, repeated as long as it has something to do.                          *)
Repeat(Turn(_), s) ==
    LET r[k \in 0..MaxSize] == IF k = 0 THEN s ELSE Turn(r[k - 1])
    IN  r[MaxSize]

-----------------------------------------------------------------------------
(* _FAT_read.                                                                 *)

ReadToSectorEnd(s) ==
    LET n == InSector(s) IN
    IF n < BytesPerSector THEN [Get(s, s.pos, n) EXCEPT !.pos = ByteOn(@, n)] ELSE s

ReadToClusterEnd(s) ==
    LET n == SectorsLeft(s) IN
    IF n > 0 THEN [Get(s, s.pos, n * BytesPerSector) EXCEPT !.pos = SectorOn(@, n)] ELSE s

(* On to the next cluster: there may be none, if nothing is left to read.     *)
ReadOn(s) ==
    LET next == NextCluster(s.vol, s.pos.cluster) IN
    IF s.pos.sector < SectorsPerCluster \/ ~s.ok THEN s
    ELSE IF s.remain = 0 /\ next = CLUSTER_EOF
    THEN [s EXCEPT !.pos.sector = SectorsPerCluster]
    ELSE IF ~IsValidCluster(next) THEN [s EXCEPT !.ok = FALSE]
    ELSE [s EXCEPT !.pos = Pos(next, 0, @.byte)]

ReadCluster(s) ==
    IF s.remain >= BytesPerCluster /\ s.ok
    THEN ReadOn([Get(s, Pos(s.pos.cluster, 0, 0), BytesPerCluster)
                 EXCEPT !.pos.sector = SectorsPerCluster])
    ELSE s

ReadSectors(s) ==
    LET n == s.remain \div BytesPerSector IN
    IF n > 0 /\ s.ok
    THEN [Get(s, Pos(s.pos.cluster, 0, 0), n * BytesPerSector) EXCEPT !.pos = SectorOn(@, n)]
    ELSE s

ReadRest(s) ==
    IF s.remain > 0 /\ s.ok
    THEN [Get(s, [s.pos EXCEPT !.byte = 0], s.remain) EXCEPT !.pos.byte = @ + s.remain]
    ELSE s

Transferred(s) ==
    ReadRest(ReadSectors(Repeat(ReadCluster, ReadOn(ReadToClusterEnd(ReadToSectorEnd(s))))))

Call(f, p, n) ==
    [pos |-> p, remain |-> n, at |-> file[f].currentPosition, ok |-> TRUE,
     vol |-> vol, data |-> data, got |-> <<>>]

Read(f, len) ==
    /\ file[f].inUse
    /\ LET here == file[f].currentPosition
           n == Smaller(len, file[f].filesize - here)
           s == Transferred(Call(f, file[f].rwPosition, n))
       IN  IF here >= file[f].filesize \/ file[f].startCluster = CLUSTER_FREE
           THEN out' = <<>> /\ UNCHANGED file
           ELSE /\ out' = s.got
                /\ file' = [file EXCEPT ![f].rwPosition = s.pos,
                                        ![f].currentPosition = @ + n - s.remain]
    /\ UNCHANGED <<vol, data, entry>>

-----------------------------------------------------------------------------
(* _FAT_write.                                                                *)

Onto(s, l) ==
    IF ~IsValidCluster(l.cluster) THEN [s EXCEPT !.vol = l.vol, !.ok = FALSE]
    ELSE [s EXCEPT !.vol = l.vol, !.pos = Pos(l.cluster, 0, @.byte)]

(* check_position_for_next_cluster: on to the next cluster, which is          *)
(* allocated if there is none.                                                *)
CheckPosition(s) ==
    LET c == s.pos.cluster IN
    IF s.remain = 0 \/ ~s.ok \/ s.pos.sector < SectorsPerCluster THEN s
    ELSE Onto(s, IF Ends(s.vol, c) THEN LinkFreeCluster(s.vol, c)
                 ELSE [vol |-> s.vol, cluster |-> NextCluster(s.vol, c)])

WriteToSectorEnd(s, f) ==
    LET n == InSector(s) IN
    IF n < BytesPerSector /\ s.ok
    THEN [Put(s, f, s.pos, n, TRUE) EXCEPT !.pos = ByteOn(@, n)] ELSE s

WriteToClusterEnd(s, f) ==
    LET n == SectorsLeft(s) IN
    IF 0 < n /\ n < SectorsPerCluster /\ s.ok
    THEN [Put(s, f, s.pos, n * BytesPerSector, TRUE) EXCEPT !.pos = SectorOn(@, n)] ELSE s

(* One cluster of those that the code writes in groups.                       *)
PutCluster(t, f) ==
    IF ~t.ok THEN t
    ELSE [Put(t, f, Pos(t.pos.cluster, 0, 0), BytesPerCluster, TRUE)
          EXCEPT !.pos.sector = SectorsPerCluster]
WriteCluster(s, f) ==
    IF s.remain < BytesPerCluster \/ ~s.ok THEN s ELSE PutCluster(CheckPosition(s), f)

WriteSectors(s, f) ==
    LET n == s.remain \div BytesPerSector IN
    IF n > 0 /\ s.ok
    THEN [Put(s, f, Pos(s.pos.cluster, 0, 0), n * BytesPerSector, TRUE)
          EXCEPT !.pos = SectorOn(@, n)]
    ELSE s

WriteRest(s, f, appending) ==
    IF s.remain > 0 /\ s.ok
    THEN [Put(s, f, [s.pos EXCEPT !.byte = 0], s.remain, ~appending)
          EXCEPT !.pos.byte = @ + s.remain]
    ELSE s

Written(s, f, appending) ==
    LET Cluster_(t) == WriteCluster(t, f)
        head == WriteToClusterEnd(WriteToSectorEnd(CheckPosition(s), f), f)
        body == CheckPosition(Repeat(Cluster_, head))
    IN  WriteRest(WriteSectors(body, f), f, appending)

-----------------------------------------------------------------------------
(* file_extend: zeros from the end of the file to currentPosition.            *)

ZeroToSectorEnd(s) ==
    LET n == InSector(s) IN
    IF s.pos.byte > 0 \/ s.remain < BytesPerSector
    THEN [PutZeros(s, s.pos, n) EXCEPT !.pos = ByteOn(@, n)] ELSE s

PutZeroSector(t) ==
    IF ~t.ok THEN t ELSE [PutZeros(t, t.pos, BytesPerSector) EXCEPT !.pos = SectorOn(@, 1)]
ZeroSector(s) ==
    IF s.remain < BytesPerSector \/ ~s.ok THEN s ELSE PutZeroSector(CheckPosition(s))

ZeroRest(t) ==
    IF t.remain = 0 \/ ~t.ok THEN t
    ELSE [PutZeros(t, [t.pos EXCEPT !.byte = 0], t.remain) EXCEPT !.pos.byte = t.remain]

ZeroFrom(s) ==
    IF s.ok THEN ZeroRest(CheckPosition(Repeat(ZeroSector, ZeroToSectorEnd(s)))) ELSE s

(* The position after the last byte, at the border of a cluster not past it.  *)
EndPosition(v, start, size) ==
    Pos(LastOf(v, start),
        IF size > 0 /\ size % BytesPerCluster = 0 THEN SectorsPerCluster
        ELSE (size % BytesPerCluster) \div BytesPerSector,
        size % BytesPerSector)

(* The state once the file has been extended to offset "to".                  *)
Extended(v, start, size, to) ==
    ZeroFrom(CheckPosition(
        [pos |-> EndPosition(v, start, size), remain |-> to - size, at |-> size, ok |-> TRUE,
         vol |-> v, data |-> data, got |-> <<>>]))

-----------------------------------------------------------------------------
(* The calls.                                                                 *)

(* The entry of an open file that was modified is not looked at until it is   *)
(* written, and not kept in the model until then.                             *)
NoEntry == [startCluster |-> CLUSTER_FREE, filesize |-> 0]

Init ==
    /\ vol = [fat |-> [c \in Cluster |-> CLUSTER_FREE], firstFree |-> CLUSTER_FIRST,
              numberFree |-> Cardinality(Cluster)]
    /\ data = [i \in Place |-> Junk]
    /\ file = [f \in File |-> Closed]
    /\ entry = [f \in File |-> NoEntry]
    /\ out = <<>>

Set(f, r) ==
    /\ file' = [file EXCEPT ![f] = r]
    /\ entry' = IF r.modified THEN [entry EXCEPT ![f] = NoEntry] ELSE entry

(* The bytes once the table is v: those of free clusters do not matter.       *)
Kept(v) == [i \in Place |-> IF v.fat[CLUSTER_FIRST + i \div BytesPerCluster] = CLUSTER_FREE
                            THEN Junk ELSE data[i]]

(* _FAT_open of a file for reading and writing, with O_TRUNC or O_APPEND.     *)
Open(f, trunc, append) ==
    /\ ~file[f].inUse
    /\ LET e == entry[f]
           cut == trunc /\ e.startCluster # CLUSTER_FREE
           v == IF cut THEN ClearLinks(vol, e.startCluster) ELSE vol
           start == IF cut THEN CLUSTER_FREE ELSE e.startCluster
           size == IF cut THEN 0 ELSE e.filesize
           rw == Pos(start, 0, 0)
       IN  /\ vol' = v
           /\ data' = Kept(v)
           /\ Set(f, [inUse |-> TRUE, append |-> append, modified |-> cut, filesize |-> size,
                      startCluster |-> start, currentPosition |-> 0, rwPosition |-> rw,
                      appendPosition |-> IF append THEN EndPosition(v, start, size) ELSE rw])
    /\ out' = <<>>

(* _FAT_syncToDisc.                                                           *)
Synced(f) ==
    IF file[f].modified
    THEN [entry EXCEPT ![f] = [startCluster |-> file[f].startCluster,
                               filesize |-> file[f].filesize]]
    ELSE entry

Close(f) ==
    /\ file[f].inUse
    /\ entry' = Synced(f)
    /\ file' = [file EXCEPT ![f] = Closed]
    /\ out' = <<>>
    /\ UNCHANGED <<vol, data>>

Fsync(f) ==
    /\ file[f].inUse
    /\ entry' = Synced(f)
    /\ file' = [file EXCEPT ![f].modified = FALSE]
    /\ out' = <<>>
    /\ UNCHANGED <<vol, data>>

(* A careful program leaves room for what extends a file without data...      *)
HasRoom(f, size) ==
    Careful => (size + BytesPerCluster - 1) \div BytesPerCluster
                   <= Cardinality(Chain(vol, file[f].startCluster) \union FreeClusters(vol))

(* ...and seeks before it reads from where a cluster ended with the file.     *)
AtFormerEnd(f) ==
    file[f].rwPosition.sector = SectorsPerCluster /\ file[f].currentPosition < file[f].filesize

ReadCall(f, len) ==
    /\ Careful => ~AtFormerEnd(f)
    /\ Read(f, len)

(* The first cluster of a file, allocated if it has none yet.                 *)
Begun(f, l) ==
    [vol |-> l.vol,
     handle |-> IF IsValidCluster(l.cluster)
                THEN [file[f] EXCEPT !.startCluster = l.cluster,
                                     !.rwPosition = Pos(l.cluster, 0, 0),
                                     !.appendPosition = Pos(l.cluster, 0, 0)]
                ELSE file[f]]
Started(f) ==
    IF file[f].startCluster = CLUSTER_FREE THEN Begun(f, LinkFreeCluster(vol, CLUSTER_FREE))
    ELSE [vol |-> vol, handle |-> file[f]]

(* Zeros up to the position of the file, if that is past its end.             *)
Filled(v, h, n) ==
    IF ~h.append /\ h.currentPosition > h.filesize
    THEN Extended(v, h.startCluster, h.filesize, h.currentPosition)
    ELSE [pos |-> IF h.append THEN h.appendPosition ELSE h.rwPosition,
          remain |-> n, at |-> h.currentPosition, ok |-> TRUE,
          vol |-> v, data |-> data, got |-> <<>>]

(* _FAT_write: a first cluster if there is none, zeros up to the position if  *)
(* it is past the end, then the data.                                         *)
Write(f, len) ==
    LET h == file[f]
        at == IF h.append THEN h.filesize ELSE h.currentPosition
        appending == h.append \/ len + at > h.filesize
        Size(end) == IF end > h.filesize THEN end ELSE h.filesize
    IN  /\ h.inUse
        /\ at + len <= MaxSize
        /\ at > h.filesize => HasRoom(f, at)
        /\ \E b \in {Started(f)} :
           IF ~IsValidCluster(b.handle.startCluster)
           THEN vol' = b.vol /\ UNCHANGED <<file, data, entry>>
           ELSE \E x \in {Filled(b.vol, b.handle, len)} :
                IF ~x.ok THEN vol' = x.vol /\ data' = x.data /\ Set(f, b.handle)
                ELSE \E s \in {Written([x EXCEPT !.remain = len, !.at = at], f, appending)} :
                     /\ vol' = s.vol /\ data' = s.data
                     /\ Set(f, IF h.append
                               THEN [b.handle EXCEPT !.modified = TRUE, !.appendPosition = s.pos,
                                                     !.filesize = Size(at + len - s.remain)]
                               ELSE [b.handle EXCEPT !.modified = TRUE, !.rwPosition = s.pos,
                                                     !.currentPosition = at + len - s.remain,
                                                     !.filesize = Size(at + len - s.remain)])
        /\ out' = <<>>

\* Mutant: a position past a cluster that is full is taken to be in the next.
SeekFromBorder(f, p) ==
    [from |-> IF p >= file[f].currentPosition THEN file[f].rwPosition.cluster
              ELSE file[f].startCluster,
     count |-> p \div BytesPerCluster - (IF p >= file[f].currentPosition
                   THEN file[f].currentPosition \div BytesPerCluster ELSE 0)]

(* Where _FAT_seek starts to follow the chain, and how far it has to.         *)
SeekFrom(f, p) ==
    LET h == file[f]
        current == h.currentPosition \div BytesPerCluster
                   - (IF h.rwPosition.sector = SectorsPerCluster THEN 1 ELSE 0)
    IN  IF p >= h.currentPosition
        THEN [from |-> h.rwPosition.cluster, count |-> p \div BytesPerCluster - current]
        ELSE [from |-> h.startCluster, count |-> p \div BytesPerCluster]

(* _FAT_seek.  Past the end of the file, only currentPosition is set; when    *)
(* the chain is too short, only a part of rwPosition is.                      *)
Seek(f, p) ==
    LET h == file[f]
        k == SeekFrom(f, p)
        walk == Walk(vol, k.from)
        to == walk[k.count]
        missing == k.count + 1 - Cardinality({walk[i] : i \in 0..k.count})
        sector == (p % BytesPerCluster) \div BytesPerSector
        border == missing = 1 /\ p = h.filesize /\ sector = 0
    IN  /\ h.inUse
        /\ Careful => ~h.append \/ p <= h.filesize
        /\ Set(f, IF p > h.filesize \/ h.startCluster = CLUSTER_FREE
                  THEN [h EXCEPT !.currentPosition = p]
                  ELSE IF missing > 0 /\ ~border
                  THEN [h EXCEPT !.rwPosition = Pos(@.cluster, sector, p % BytesPerSector)]
                  ELSE [h EXCEPT !.currentPosition = p,
                           !.rwPosition = IF border THEN Pos(to, SectorsPerCluster, 0)
                                          ELSE Pos(to, sector, p % BytesPerSector)])
        /\ out' = <<>>
        /\ UNCHANGED <<vol, data>>

(* _FAT_ftruncate to more than the file has: the size is set whether or not   *)
(* there was room.                                                            *)
Lengthen(f, size) ==
    /\ file[f].inUse /\ size > file[f].filesize
    /\ HasRoom(f, size)
    /\ \E b \in {Started(f)} :
       LET h == b.handle IN
       IF ~IsValidCluster(h.startCluster)
       THEN vol' = b.vol /\ UNCHANGED <<data, file, entry>>
       ELSE \E x \in {Extended(b.vol, h.startCluster, h.filesize, size)} :
            /\ vol' = x.vol /\ data' = x.data
            /\ Set(f, [h EXCEPT !.filesize = size, !.modified = TRUE,
                          !.appendPosition = IF ~h.append THEN file[f].appendPosition
                                             ELSE IF x.ok THEN x.pos ELSE h.rwPosition])

(* _FAT_ftruncate to less.                                                    *)
Shorten(f, size) ==
    /\ file[f].inUse /\ size < file[f].filesize
    /\ LET h == file[f]
           clusters == (size + BytesPerCluster - 1) \div BytesPerCluster
           t == IF size = 0
                THEN [vol |-> ClearLinks(vol, h.startCluster), cluster |-> CLUSTER_FREE]
                ELSE TrimChain(vol, h.startCluster, clusters)
       IN  /\ vol' = t.vol
           /\ data' = Kept(t.vol)
           /\ Set(f, [h EXCEPT !.filesize = size, !.modified = TRUE,
                         !.startCluster = IF size = 0 THEN CLUSTER_FREE ELSE @,
                         !.appendPosition = IF size = 0 THEN Pos(CLUSTER_FREE, 0, 0)
                                            ELSE IF h.append
                                            THEN EndPosition(t.vol, t.cluster, size) ELSE @])

Ftruncate(f, size) ==
    /\ Careful => file[f].currentPosition = 0
    /\ \/ Lengthen(f, size)
       \/ Shorten(f, size)
       \/ /\ file[f].inUse /\ size = file[f].filesize
          /\ Set(f, [file[f] EXCEPT !.modified = TRUE])
          /\ UNCHANGED <<vol, data>>
    /\ out' = <<>>

Next == \E f \in File :
    \/ \E trunc, append \in BOOLEAN : (f \in Rewritten \/ (trunc /\ append)) /\ Open(f, trunc, append)
    \/ Close(f)
    \/ \E n \in Lengths : Write(f, n)
    \/ /\ f \in Rewritten
       /\ \/ Fsync(f)
          \/ \E n \in Lengths : ReadCall(f, n)
          \/ \E p \in Offsets : Seek(f, p) \/ Ftruncate(f, p)

Spec == Init /\ [][Next]_vars

-----------------------------------------------------------------------------
(* The file that a program sees: what the open handle says, or the directory. *)
StartOf(f) == IF file[f].inUse THEN file[f].startCluster ELSE entry[f].startCluster
SizeOf(f) == IF file[f].inUse THEN file[f].filesize ELSE entry[f].filesize

ClustersFor(size) == (size + BytesPerCluster - 1) \div BytesPerCluster

TypeOK ==
    /\ vol \in Tables
    /\ file \in [File -> [inUse : BOOLEAN, append : BOOLEAN, modified : BOOLEAN,
                          filesize : 0..MaxSize, startCluster : Cluster \union {CLUSTER_FREE},
                          currentPosition : 0..MaxSize, rwPosition : Position,
                          appendPosition : Position]]
    /\ entry \in [File -> [startCluster : Cluster \union {CLUSTER_FREE}, filesize : 0..MaxSize]]

(* The clusters of a file are as many as its size needs, no cluster is in two *)
(* files, none in use is in no file, and the count of the free ones is right: *)
(* whatever was written, cut, or refused for want of room.                    *)
ClustersAccountedFor ==
    /\ TypeOK
    /\ \A f \in File :
        /\ Cardinality(Chain(vol, StartOf(f))) = ClustersFor(SizeOf(f))
        /\ \A g \in File \ {f} : Chain(vol, StartOf(f)) \intersect Chain(vol, StartOf(g)) = {}
    /\ Cluster \ FreeClusters(vol) = UNION {Chain(vol, StartOf(f)) : f \in File}
    /\ vol.numberFree = Cardinality(FreeClusters(vol))

(* The bytes of a file, found from its first cluster by following the chain.  *)
BytesOf(f) ==
    LET walk == Walk(vol, StartOf(f)) IN
    [i \in 1..SizeOf(f) |->
        data[(walk[(i - 1) \div BytesPerCluster] - CLUSTER_FIRST) * BytesPerCluster
             + ((i - 1) % BytesPerCluster)]]

Posix == INSTANCE PosixFile WITH
    Files <- File,
    bytes <- [f \in File |-> BytesOf(f)],
    pos <- [f \in File |-> IF file[f].inUse THEN file[f].currentPosition ELSE -1],
    full <- FreeClusters(vol) = {}

(* Through all calls on two files that share a volume, a file of libfat is    *)
(* what a program takes a file for: each byte is read where it was written,   *)
(* zeros where nothing was, and a write is done in full while there is room.  *)
ImplementsPosixFile == Posix!Spec
=============================================================================
