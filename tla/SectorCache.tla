----------------------------- MODULE SectorCache -----------------------------
(* The sector cache of libfat (libfat/source/cache.c) over the card and its   *)
(* driver: what every file operation reads and writes through.                *)
(*                                                                            *)
(* A page holds SectorsPerPage sectors, fewer at the end of the partition.    *)
(* A call goes through its sectors page by page: a page that is not there is  *)
(* fetched in the place of the one used longest ago, after that one has been  *)
(* written back.  Each of these transfers may fail, which ends the call.      *)
(*                                                                            *)
(* Contents are told apart only as far as needed: sector s holds "s" when it  *)
(* holds what was last written to it, another number when it holds what       *)
(* belongs elsewhere, and Stale when it holds anything else.                  *)
EXTENDS SdCard, SequencesExt

CONSTANTS
    NumberOfPages,
    SectorsPerPage,
    EndOfPartition, \* the first sector that is not of the partition
    MaxSectors,     \* bound: sectors in a call
    MaxLost         \* bound: while so many sectors are lost, no other read loses more

ASSUME CacheAssumption ==
    /\ NumberOfPages \in Nat \ {0, 1} /\ SectorsPerPage \in Nat \ {0}
    /\ EndOfPartition \in 1..BlockCount /\ MaxSectors \in Nat /\ MaxLost \in Nat

VARIABLES
    pages,    \* cacheEntries
    used,     \* the entries in use, in the order of last_access
    call,     \* the call under way
    flushed,  \* the last call was a flush, and returned true
    suspect   \* history: sectors that a failed read or unmounting has lost

cacheVars == <<pages, used, call, flushed, suspect>>
vars == <<cardVars, cacheVars>>

Sector == 0..EndOfPartition - 1
Page == 1..NumberOfPages
CACHE_FREE == EndOfPartition
Content == Block \union {Stale}
NoData == [i \in 0..SectorsPerPage - 1 |-> Stale]

FreePage == [sector |-> CACHE_FREE, count |-> 0, dirty |-> FALSE, data |-> NoData]
Idle == [op |-> "idle", sector |-> 0, left |-> 0]

(* The sectors of an entry, and the entries that hold a sector.               *)
SectorsOf(e) == IF e.sector = CACHE_FREE THEN {} ELSE e.sector..e.sector + e.count - 1
Holding(s) == {p \in Page : s \in SectorsOf(pages[p])}

Base(s) == (s \div SectorsPerPage) * SectorsPerPage
Count(s) == IF Base(s) + SectorsPerPage > EndOfPartition
            THEN EndOfPartition - Base(s)
            ELSE SectorsPerPage

(* The entry that _FAT_cache_getPage replaces: the first free one, or else    *)
(* the one used longest ago.                                                  *)
Victim ==
    LET free == {p \in Page : pages[p].sector = CACHE_FREE}
    IN  IF free = {} THEN Head(used) ELSE CHOOSE p \in free : \A q \in free : p <= q

Touch(p) ==
    \/ \E i \in DOMAIN used : used[i] = p /\ used' = Append(RemoveAt(used, i), p)
    \/ p \notin Range(used) /\ used' = Append(used, p)

Return(done) == call' = Idle /\ flushed' = done

CacheInit ==
    /\ pages = [p \in Page |-> FreePage]
    /\ used = <<>>
    /\ call = Idle
    /\ flushed = FALSE
    /\ suspect = {}

-----------------------------------------------------------------------------
(* Calls.                                                                     *)

Begin(op, s, n) ==
    /\ cmd = "up" /\ call.op = "idle"
    /\ call' = [op |-> op, sector |-> s, left |-> n]
    /\ flushed' = FALSE
    /\ UNCHANGED <<cardVars, pages, used, suspect>>

(* _FAT_cache_readSectors and the calls that read a part of a sector.         *)
BeginRead == \E s \in Sector, n \in 1..MaxSectors :
    s + n <= EndOfPartition /\ Begin("read", s, n)

(* _FAT_cache_writeSectors and the calls that write a part of a sector, after *)
(* erasing the rest of it or not.                                             *)
BeginWrite == \E s \in Sector, n \in 1..MaxSectors :
    s + n <= EndOfPartition /\ Begin("write", s, n)

BeginFlush == Begin("flush", 0, 0)
BeginUnmount == Begin("unmount", 0, 0)

(* The sectors of the call that entry p serves.                               *)
Part(p) == {s \in SectorsOf(pages[p]) : call.sector <= s /\ s < call.sector + call.left}

(* Contents that were current are so no longer once the sectors in S have     *)
(* been written anew.                                                         *)
Outdated(f, S) == [i \in DOMAIN f |-> IF f[i] \in S THEN Stale ELSE f[i]]

(* One turn of the loop of a call, with its sector in entry p.                *)
Serve(p) ==
    /\ call.op \in {"read", "write"} /\ p \in Holding(call.sector)
    /\ LET part == Part(p)
           rest == call.left - Cardinality(part)
       IN  /\ IF call.op = "write"
              THEN /\ pages' = [q \in Page |->
                          LET old == Outdated(pages[q].data, part) IN
                          IF q # p THEN [pages[q] EXCEPT !.data = old]
                          ELSE [pages[q] EXCEPT !.dirty = TRUE,
                                   !.data = [i \in DOMAIN old |->
                                       IF pages[p].sector + i \in part
                                       THEN pages[p].sector + i ELSE old[i]]]]
                   /\ blocks' = Outdated(blocks, part)
              ELSE UNCHANGED <<pages, blocks>>
           /\ IF rest = 0
              THEN Return(FALSE)
              ELSE /\ call' = [call EXCEPT !.sector = @ + Cardinality(part), !.left = rest]
                   /\ UNCHANGED flushed
    /\ Touch(p)
    /\ UNCHANGED <<card, drv, cmd, rsp, suspect>>

(* _FAT_disc_writeSectors of entry p: "then" says what becomes of the call.   *)
WritePage(p, failed) ==
    \E o \in Writes(pages[p].sector, pages[p].count) :
        /\ card' = o.card
        /\ blocks' = IF o.moved THEN Stored(pages[p].sector, pages[p].count, pages[p].data)
                     ELSE blocks
        /\ IF o.ok
           THEN pages' = [pages EXCEPT ![p].dirty = FALSE] /\ UNCHANGED <<call, flushed>>
           ELSE failed /\ UNCHANGED pages
        /\ UNCHANGED <<drv, cmd, rsp, used, suspect>>

Missing == call.op \in {"read", "write"} /\ Holding(call.sector) = {}

\* Mutant: the page is given up unwritten.
GiveUp ==
    /\ Missing /\ pages[Victim].dirty
    /\ pages' = [pages EXCEPT ![Victim].dirty = FALSE]
    /\ UNCHANGED <<cardVars, used, call, flushed, suspect>>

(* _FAT_cache_getPage, first part: the page to be replaced is written back.   *)
WriteBack ==
    /\ Missing /\ pages[Victim].dirty
    /\ WritePage(Victim, Return(FALSE))

(* _FAT_cache_getPage, second part: the page is fetched.  A read that fails   *)
(* after its data has moved leaves that data in the buffer of the entry that  *)
(* was to be replaced, which keeps its sectors.                               *)
Fill ==
    /\ Missing /\ ~pages[Victim].dirty
    /\ LET v == Victim
           first == Base(call.sector)
           n == Count(call.sector)
           Into(d, f) == [i \in DOMAIN d |-> IF i < n THEN f[i] ELSE d[i]]
       IN  \E o \in Reads(first, n) :
            /\ o.ok \/ ~o.moved \/ Cardinality(suspect) < MaxLost
            /\ card' = o.card
            /\ IF o.ok
               THEN /\ pages' = [pages EXCEPT ![v] = [sector |-> first, count |-> n,
                                   dirty |-> @.dirty, data |-> Into(NoData, Fetched(first, n))]]
                    /\ Touch(v)
                    /\ UNCHANGED <<call, flushed, suspect>>
               ELSE /\ pages' = [pages EXCEPT ![v].data =
                                   IF o.moved /\ pages[v].sector # CACHE_FREE
                                   THEN Into(@, Fetched(first, n)) ELSE @]
                    /\ suspect' = IF o.moved THEN suspect \union SectorsOf(pages[v]) ELSE suspect
                    /\ Return(FALSE)
                    /\ UNCHANGED used
    /\ UNCHANGED <<blocks, drv, cmd, rsp>>

(* _FAT_cache_flush writes the dirty pages in turn, up to one that fails.     *)
FlushPage ==
    /\ call.op \in {"flush", "unmount"}
    /\ \E p \in Page :
        /\ pages[p].dirty
        /\ \A q \in 1..p - 1 : ~pages[q].dirty
        /\ WritePage(p, IF call.op = "flush" THEN Return(FALSE)
                        ELSE call' = [call EXCEPT !.op = "destroy"] /\ UNCHANGED flushed)

\* Mutant: the flush ends with the first page.
FlushedOne ==
    /\ call.op = "flush" /\ (\E p \in Page : ~pages[p].dirty)
    /\ Return(TRUE)
    /\ UNCHANGED <<cardVars, pages, used, suspect>>

Flushed ==
    /\ call.op = "flush" /\ \A p \in Page : ~pages[p].dirty
    /\ Return(TRUE)
    /\ UNCHANGED <<cardVars, pages, used, suspect>>

(* _FAT_cache_destructor frees the pages whatever the flush has returned.  A  *)
(* partition that was unmounted is not mounted again (bound).                 *)
Destroy ==
    /\ \/ call.op = "destroy"
       \/ call.op = "unmount" /\ \A p \in Page : ~pages[p].dirty
    /\ pages' = [p \in Page |-> FreePage] /\ used' = <<>>
    /\ suspect' = suspect \union
                  UNION {SectorsOf(pages[p]) : p \in {q \in Page : pages[q].dirty}}
    /\ Return(FALSE)
    /\ cmd' = "unmounted"
    /\ UNCHANGED <<card, blocks, drv, rsp>>

-----------------------------------------------------------------------------
Init == CardInit /\ CacheInit

Mount == (MMC_Initialize \/ CardStep) /\ UNCHANGED cacheVars

Work == \/ \E p \in Page : Serve(p)
        \/ WriteBack \/ Fill \/ FlushPage \/ Flushed \/ Destroy

Next == Mount \/ BeginRead \/ BeginWrite \/ BeginFlush \/ BeginUnmount \/ Work

(* mmc_init_card is a loop in one call: it does not stop between two steps.   *)
Spec == Init /\ [][Next]_vars /\ WF_vars(CardStep /\ UNCHANGED cacheVars)

-----------------------------------------------------------------------------
TypeOK ==
    /\ CardTypeOK
    /\ pages \in [Page -> [sector : Sector \union {CACHE_FREE}, count : 0..SectorsPerPage,
                           dirty : BOOLEAN, data : [0..SectorsPerPage - 1 -> Content]]]
    /\ used \in Seq(Page) /\ IsInjective(used)
    /\ call \in [op : {"idle", "read", "write", "flush", "unmount", "destroy"},
                sector : Sector, left : 0..MaxSectors]
    /\ flushed \in BOOLEAN
    /\ suspect \subseteq Sector

(* What was written to a sector is kept: it is in the one page that holds the *)
(* sector, and on the card too unless that page is dirty; whatever transfers  *)
(* and commands have failed.  The exceptions: the sectors of a page on which  *)
(* a failed read has put other data, and of dirty pages when the partition    *)
(* is unmounted while the card fails; and a card whose bus is not the one     *)
(* that the driver uses.                                                      *)
WrittenIsKept ==
    /\ TypeOK
    /\ SameBus => \A s \in Sector \ suspect :
        /\ \A p \in Holding(s) : pages[p].data[s - pages[p].sector] = s
        /\ Cardinality(Holding(s)) <= 1
        /\ (\A p \in Holding(s) : ~pages[p].dirty) => blocks[s] = s

(* A flush that returns true has put on the card all that had been written.   *)
FlushStores ==
    flushed /\ SameBus => \A s \in Sector \ suspect : blocks[s] = s

(* Once the driver is up, it addresses the card as the card counts, and uses  *)
(* the bus that the card uses, whatever was lost on the way.                  *)
MountAgrees ==
    cmd = "up" => /\ drv.sd2_0 <=> card.kind = "sdhc"
                  /\ drv.sd <=> IsSd(card)
                  /\ SameBus

(* Mounting ends, whichever card there is and whatever is lost: the driver    *)
(* asks an SD card a limited number of times, and then takes it for another.  *)
MountEnds == cmd \in Commands ~> cmd \in Phases
=============================================================================
