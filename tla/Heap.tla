-------------------------------- MODULE Heap --------------------------------
(* The heap of the C library (libc/heap.c): a doubly linked list of chunks,   *)
(* each a header and the data after it, that malloc, memalign, realloc and    *)
(* free split and merge.  An address is a natural number; the list is the     *)
(* function "chunk" from the addresses of the headers to what they say.       *)
EXTENDS Integers, FiniteSets

CONSTANTS
    Start,        \* _heap_init's start, rounded up: the first header
    End,          \* _heap_init's end
    AddressSpace, \* 2^32
    Sizes,        \* the sizes asked for
    Alignments,   \* the alignments asked of memalign
    MaxBlocks     \* bound: blocks held at a time

Header == 16 \* sizeof(struct chunk)
Pointer == 4 \* sizeof(void*), and the least size that split leaves
MALLOC_ALIGNMENT == 8

ASSUME HeapAssumption ==
    /\ Start \in Nat /\ End \in Nat /\ AddressSpace \in Nat
    /\ 4 < Start /\ Start + Header < End /\ End < AddressSpace
    /\ \A n \in Sizes : n \in Nat /\ n < AddressSpace - MALLOC_ALIGNMENT
    /\ Alignments \subseteq Nat /\ MaxBlocks \in Nat

VARIABLES
    chunk, \* the headers, by address
    held   \* the blocks of the application: by address, what it asked for

vars == <<chunk, held>>

NULL == 0
FREE == "CHUNK_STATUS_FREE"
USED == "CHUNK_STATUS_USED"

-----------------------------------------------------------------------------
RoundUp(x, a) == (x + a - 1) - ((x + a - 1) % a)

\* The macro ROUND_DOWN_PTR(p, a) uses its second argument only.
RoundDownPtr(p, a) == a - (a % a)

heap_size == (RoundDownPtr(End, 4) - Start) % AddressSpace
Top == Start + heap_size

DataFor(c) == c + Header
HeaderFor(d) == d - Header
After(h, c) == DataFor(c) + h[c].size

SetStatus(h, c, s) == [h EXCEPT ![c].status = s]

\* Mutant: the chunk after the two keeps its link to the second.
MergedOneWay(h, one) ==
    LET two == h[one].next IN
    [a \in DOMAIN h \ {two} |->
        IF a = one THEN [h[one] EXCEPT !.size = @ + h[two].size + Header, !.next = h[two].next]
        ELSE h[a]]

(* merge_with_next: chunk "one" takes in the chunk after it.                  *)
MergeWithNext(h, one) ==
    LET two == h[one].next
        three == h[two].next
    IN  [a \in DOMAIN h \ {two} |->
            IF a = one THEN [h[one] EXCEPT !.size = @ + h[two].size + Header, !.next = three]
            ELSE IF a = three THEN [h[a] EXCEPT !.prev = one]
            ELSE h[a]]

FreeBefore(h, c) == h[c].prev # NULL /\ h[h[c].prev].status = FREE
FreeAfter(h, c) == h[c].next # NULL /\ h[h[c].next].status = FREE

MergeAfter(h, c) == IF FreeAfter(h, c) THEN MergeWithNext(h, c) ELSE h

\* Mutant: only the chunk after is merged.
FreedForward(h, c) == MergeAfter(SetStatus(h, c, FREE), c)

(* newly_free: the chunk is merged with its free neighbours.                  *)
NewlyFree(h, c) ==
    LET h1 == SetStatus(h, c, FREE) IN
    IF FreeBefore(h1, c)
    THEN MergeAfter(MergeWithNext(h1, h1[c].prev), h1[c].prev)
    ELSE MergeAfter(h1, c)

NewlyUsed(h, c) == SetStatus(h, c, USED)

\* Mutant: no room is left for the header.
SplitsShort(h, c, n) == h[c].size >= n + Pointer

(* split: n bytes stay in chunk c, and the rest becomes a free chunk, unless  *)
(* there is no place for it.                                                  *)
Splits(h, c, n) == h[c].size >= n + Header + Pointer
Rest(c, n) == DataFor(c) + n

Split(h, c, n) ==
    IF Splits(h, c, n)
    THEN LET part == Rest(c, n)
             next == h[c].next
         IN  [a \in DOMAIN h \union {part} |->
                IF a = c THEN [h[c] EXCEPT !.size = n, !.next = part]
                ELSE IF a = part THEN [prev |-> c, next |-> next, status |-> FREE,
                                       size |-> h[c].size - n - Header]
                ELSE IF a = next THEN [h[a] EXCEPT !.prev = part]
                ELSE h[a]]
    ELSE h

-----------------------------------------------------------------------------
(* memalign: the first free chunk that has the place is taken.                *)

(* The bytes of chunk c given up so that data and header can be aligned.      *)
Gap(c, alignment) ==
    IF DataFor(c) % alignment # 0
    THEN RoundUp(DataFor(c) + Header, alignment) - DataFor(c)
    ELSE 0

\* Mutant: the bytes given up are not counted.
FitsUnaligned(h, c, alignment, n) == h[c].status = FREE /\ h[c].size >= n

Fits(h, c, alignment, n) ==
    h[c].status = FREE /\ h[c].size >= n + Gap(c, alignment)

(* The chunk that is taken: the list is in the order of the addresses.        *)
FirstFit(c, alignment, n) ==
    /\ Fits(chunk, c, alignment, n)
    /\ \A b \in DOMAIN chunk : Fits(chunk, b, alignment, n) => c <= b

(* The heap once n bytes have been taken from chunk c.                        *)
Take(h, c, alignment, n) ==
    LET gap == Gap(c, alignment) IN
    NewlyUsed(Split(IF gap # 0 THEN Split(h, c, gap - Header) ELSE h, c + gap, n), c + gap)

Power(a) == IF a < Pointer THEN Pointer ELSE a

Init ==
    /\ chunk = [a \in {Start} |-> [prev |-> NULL, next |-> NULL, status |-> FREE,
                                   size |-> heap_size - Header]]
    /\ held = [d \in {} |-> 0]

(* The blocks with one more, or one less.                                     *)
With(b, d, n) == [e \in DOMAIN b \union {d} |-> IF e = d THEN n ELSE b[e]]
Without(b, d) == [e \in DOMAIN b \ {d} |-> b[e]]

(* memalign, when it does not return NULL; the application passes powers of   *)
(* two.                                                                       *)
Memalign(alignment, n) ==
    LET al == Power(alignment)
        size == RoundUp(n, MALLOC_ALIGNMENT)
    IN  /\ n # 0 /\ n <= heap_size
        /\ \E c \in DOMAIN chunk :
            /\ FirstFit(c, al, size)
            /\ chunk' = Take(chunk, c, al, size)
            /\ held' = With(held, DataFor(c + Gap(c, al)), n)

Malloc(n) == Memalign(MALLOC_ALIGNMENT, n)

Free(d) ==
    /\ chunk' = NewlyFree(chunk, HeaderFor(d))
    /\ held' = Without(held, d)

(* realloc with less than the chunk has: the rest, if it makes a chunk, is    *)
(* freed.                                                                     *)
Shrink(d, n) ==
    LET c == HeaderFor(d)
        size == RoundUp(n, MALLOC_ALIGNMENT)
    IN  /\ n # 0 /\ size <= chunk[c].size
        /\ chunk' = IF size < chunk[c].size /\ Splits(chunk, c, size)
                    THEN NewlyFree(Split(chunk, c, size), Rest(c, size))
                    ELSE chunk
        /\ held' = With(held, d, n)

(* realloc with more, when the next chunk is free and large enough.           *)
CanGrow(c, size) ==
    /\ size > chunk[c].size /\ FreeAfter(chunk, c)
    /\ chunk[chunk[c].next].size >= size - chunk[c].size

Grow(d, n) ==
    LET c == HeaderFor(d)
        next == chunk[c].next
        size == RoundUp(n, MALLOC_ALIGNMENT)
    IN  /\ n # 0 /\ CanGrow(c, size)
        /\ chunk' = MergeWithNext(NewlyUsed(Split(chunk, next, size - chunk[c].size), next), c)
        /\ held' = With(held, d, n)

(* realloc with more otherwise: a new chunk is taken, then the old one freed; *)
(* nothing happens if there is no new one.                                    *)
Move(d, n) ==
    LET c == HeaderFor(d)
        size == RoundUp(n, MALLOC_ALIGNMENT)
        To(new) == DataFor(new + Gap(new, MALLOC_ALIGNMENT))
    IN  /\ n # 0 /\ size > chunk[c].size /\ ~CanGrow(c, size)
        /\ size <= heap_size
        /\ \E new \in DOMAIN chunk :
            /\ FirstFit(new, MALLOC_ALIGNMENT, size)
            /\ chunk' = NewlyFree(Take(chunk, new, MALLOC_ALIGNMENT, size), c)
            /\ held' = Without(With(held, To(new), n), d)

Next ==
    \/ \E n \in Sizes : Cardinality(DOMAIN held) < MaxBlocks /\
            (Malloc(n) \/ \E a \in Alignments : Memalign(a, n))
    \/ \E d \in DOMAIN held :
        \/ Free(d)
        \/ \E n \in Sizes : Shrink(d, n) \/ Grow(d, n) \/ Move(d, n)

Spec == Init /\ [][Next]_vars

-----------------------------------------------------------------------------
Chunk == [prev : Nat, next : Nat, size : Nat, status : {FREE, USED}]

Typed(h) == DOMAIN h \subseteq Nat \ {NULL} /\ h \in [DOMAIN h -> Chunk]

TypeOK ==
    /\ Typed(chunk)
    /\ DOMAIN held \subseteq Nat /\ held \in [DOMAIN held -> Nat]

(* The parts of Tiled.  The chunks lie side by side...                        *)
Apart(h) == \A a, b \in DOMAIN h : a < b => After(h, a) <= b

(* ...within the heap...                                                      *)
Inside(h) == \A a \in DOMAIN h : Start <= a /\ After(h, a) <= Top

(* ...each but the last linked to the chunk where it ends...                  *)
LinkedOn(h) == \A a \in DOMAIN h :
    IF h[a].next = NULL THEN After(h, a) = Top
    ELSE h[a].next \in DOMAIN h /\ h[a].next = After(h, a) /\ h[h[a].next].prev = a

(* ...and each but the first to the chunk that ends where it begins.          *)
LinkedBack(h) == \A a \in DOMAIN h :
    IF a = Start THEN h[a].prev = NULL
    ELSE h[a].prev \in DOMAIN h /\ h[h[a].prev].next = a

(* The chunks tile the heap from its first byte to its last, and the list     *)
(* goes through them in both directions: no call of malloc, memalign, realloc *)
(* or free loses a byte of the heap or has two chunks share one.              *)
Tiled ==
    /\ Start \in DOMAIN chunk
    /\ Apart(chunk) /\ Inside(chunk) /\ LinkedOn(chunk) /\ LinkedBack(chunk)

(* Every block that the application holds is the data of a chunk in use of    *)
(* at least the size that it asked for, and no chunk is in use otherwise.     *)
HeldIsUsed ==
    /\ \A d \in DOMAIN held :
        HeaderFor(d) \in DOMAIN chunk /\ chunk[HeaderFor(d)].status = USED
            /\ held[d] <= chunk[HeaderFor(d)].size
    /\ \A c \in DOMAIN chunk : chunk[c].status = USED => DataFor(c) \in DOMAIN held

(* The heap does not fragment for good: whatever the calls, once everything   *)
(* has been freed it is one chunk again, as it was to begin with.             *)
MadeWhole == DOMAIN held = {} => DOMAIN chunk = {Start}

(* _heap_init is given the end of the heap, "Initialise the heap for malloc,  *)
(* realloc and free": no block lies past it.                                  *)
WithinTheHeap == \A d \in DOMAIN held : d + held[d] <= End
=============================================================================
