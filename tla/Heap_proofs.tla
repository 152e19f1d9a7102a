----------------------------- MODULE Heap_proofs -----------------------------
(***************************************************************************)
(* Proofs about the heap of the C library, for every heap, every size and  *)
(* alignment that is asked for, and every number of blocks.                *)
(***************************************************************************)
EXTENDS Heap, TLAPS

USE DEF Header, Pointer, MALLOC_ALIGNMENT, NULL, FREE, USED

\* A list of chunks that tiles the heap, whatever their statuses.
WellFormed(h) ==
    /\ Typed(h) /\ Start \in DOMAIN h
    /\ Apart(h) /\ Inside(h) /\ LinkedOn(h) /\ LinkedBack(h)

\* Of two chunks side by side only one is free, unless one of them is "but".
Settled(h, but) == \A a \in DOMAIN h :
    /\ a # but /\ h[a].status = FREE
    /\ h[a].next # NULL /\ h[a].next # but
    => h[h[a].next].status = USED

\* The heaps g and h have the same chunks in use, of the same sizes, but for
\* those in S.
SameUsed(h, g, S) ==
    /\ \A a \in DOMAIN h \ S : h[a].status = USED =>
          a \in DOMAIN g /\ g[a].status = USED /\ g[a].size = h[a].size
    /\ \A a \in DOMAIN g \ S : g[a].status = USED => a \in DOMAIN h /\ h[a].status = USED

-----------------------------------------------------------------------------
(* Arithmetic.                                                                *)

LEMMA ModBelowZero ==
    ASSUME NEW a \in Int, NEW b \in Nat \ {0}, 0 - b < a, a < 0
    PROVE  a % b = a + b
  BY SMTT(30)

LEMMA HeapSize == heap_size \in Nat /\ heap_size >= Header /\ Top \in Nat
<1>1. Start \in Nat /\ AddressSpace \in Nat /\ 4 < Start /\ Start + 16 < AddressSpace
  BY HeapAssumption
<1>2. RoundDownPtr(End, 4) = 4
  BY DEF RoundDownPtr
<1>3. (4 - Start) % AddressSpace = (4 - Start) + AddressSpace
  <2>1. 4 - Start \in Int /\ AddressSpace \in Nat \ {0} /\ 0 - AddressSpace < 4 - Start
        /\ 4 - Start < 0
    BY <1>1
  <2> QED
    BY <2>1, ModBelowZero
<1>4. heap_size = (4 - Start) + AddressSpace
  BY <1>2, <1>3 DEF heap_size
<1> QED
  BY <1>1, <1>4 DEF Top

LEMMA RoundUpLemma ==
    ASSUME NEW x \in Nat, NEW a \in Nat \ {0}
    PROVE  RoundUp(x, a) \in Nat /\ RoundUp(x, a) >= x
  BY SMTT(30) DEF RoundUp

LEMMA RoundUpSize ==
    ASSUME NEW n \in Nat \ {0}
    PROVE  RoundUp(n, 8) \in Nat /\ RoundUp(n, 8) >= n /\ RoundUp(n, 8) >= 8
  BY SMTT(30) DEF RoundUp

-----------------------------------------------------------------------------
(* What the operations on the list do to one that is well formed.             *)

LEMMA SetStatusLemma ==
    ASSUME NEW h, WellFormed(h), NEW c \in DOMAIN h, NEW s \in {FREE, USED}
    PROVE  LET g == SetStatus(h, c, s) IN
           /\ WellFormed(g) /\ DOMAIN g = DOMAIN h
           /\ g[c].status = s
           /\ \A a \in DOMAIN h : a # c => g[a].status = h[a].status
           /\ \A a \in DOMAIN h :
                 g[a].size = h[a].size /\ g[a].next = h[a].next /\ g[a].prev = h[a].prev
<1> DEFINE g == SetStatus(h, c, s)
<1>1. /\ DOMAIN g = DOMAIN h
      /\ g[c] = [h[c] EXCEPT !.status = s]
      /\ \A a \in DOMAIN h : a # c => g[a] = h[a]
      /\ \A a \in DOMAIN h : h[a] \in Chunk
      /\ g \in [DOMAIN h -> Chunk]
  BY DEF SetStatus, WellFormed, Typed, Chunk
<1>2. /\ g[c].status = s
      /\ \A a \in DOMAIN h : a # c => g[a].status = h[a].status
      /\ \A a \in DOMAIN h :
            g[a].size = h[a].size /\ g[a].next = h[a].next /\ g[a].prev = h[a].prev
  BY <1>1 DEF Chunk
<1>3. Typed(g) /\ Start \in DOMAIN g
  BY <1>1 DEF WellFormed, Typed
<1>4. Apart(g) /\ Inside(g)
  BY <1>1, <1>2 DEF WellFormed, Apart, Inside, After, DataFor
<1>5. LinkedOn(g) /\ LinkedBack(g)
  BY <1>1, <1>2 DEF WellFormed, LinkedOn, LinkedBack, After, DataFor
<1> QED
  BY <1>1, <1>2, <1>3, <1>4, <1>5 DEF WellFormed

\* g is h with the chunk after "one" taken into it.
Merged(h, one, g) ==
    LET two == h[one].next IN
    /\ two \in DOMAIN h /\ two # one /\ DOMAIN g = DOMAIN h \ {two}
    /\ g[one].size = h[one].size + h[two].size + Header
    /\ g[one].next = h[two].next /\ g[one].next # two
    /\ \A a \in DOMAIN g : g[a].status = h[a].status
    /\ \A a \in DOMAIN g \ {one} : g[a].size = h[a].size /\ g[a].next = h[a].next
    /\ \A a \in DOMAIN g \ {one} : h[a].next # two

LEMMA MergeLemma ==
    ASSUME NEW h, WellFormed(h), NEW one \in DOMAIN h, h[one].next # NULL
    PROVE  /\ WellFormed(MergeWithNext(h, one))
           /\ Merged(h, one, MergeWithNext(h, one))
<1> DEFINE g == MergeWithNext(h, one)
           two == h[one].next
           three == h[two].next
<1>1. /\ two \in DOMAIN h /\ two = After(h, one) /\ h[two].prev = one
      /\ DOMAIN h \subseteq Nat \ {0}
      /\ \A a \in DOMAIN h : h[a] \in Chunk
      /\ Start \in Nat /\ Top \in Nat
  BY HeapAssumption, HeapSize DEF WellFormed, LinkedOn, Typed
<1>2. one < two /\ two # Start
  BY <1>1 DEF WellFormed, Inside, After, DataFor, Chunk
<1>3. \/ three = NULL /\ After(h, two) = Top
      \/ three \in DOMAIN h /\ three = After(h, two) /\ h[three].prev = two /\ two < three
  BY <1>1 DEF WellFormed, LinkedOn, After, DataFor, Chunk
<1>4. DOMAIN g = DOMAIN h \ {two}
  BY DEF MergeWithNext
<1>5. g[one] = [prev |-> h[one].prev, next |-> three, status |-> h[one].status,
                size |-> h[one].size + h[two].size + 16]
  <2>1. one \in DOMAIN h \ {two} /\ h[one] \in Chunk /\ h[two] \in Chunk
    BY <1>1, <1>2
  <2>2. g[one] = [h[one] EXCEPT !.size = @ + h[two].size + Header, !.next = three]
    BY <2>1 DEF MergeWithNext
  <2> HIDE DEF g, three
  <2> QED
    BY <2>1, <2>2 DEF Chunk
<1>6. \A a \in DOMAIN g \ {one} :
          g[a] = IF a = three THEN [h[a] EXCEPT !.prev = one] ELSE h[a]
  BY <1>4 DEF MergeWithNext
<1>7. \A a \in DOMAIN g \ {one} :
          /\ g[a].size = h[a].size /\ g[a].next = h[a].next /\ g[a].status = h[a].status
          /\ g[a].prev = IF a = three THEN one ELSE h[a].prev
          /\ h[a].next # two
          /\ g[a] \in Chunk
  <2> SUFFICES ASSUME NEW a \in DOMAIN g \ {one}
               PROVE  /\ g[a].size = h[a].size /\ g[a].next = h[a].next
                      /\ g[a].status = h[a].status
                      /\ g[a].prev = IF a = three THEN one ELSE h[a].prev
                      /\ h[a].next # two
                      /\ g[a] \in Chunk
    OBVIOUS
  <2>1. h[a] \in Chunk /\ a \in DOMAIN h /\ one \in Nat
    BY <1>1, <1>4
  <2>2. h[a].next # two
    BY <1>1, <2>1 DEF WellFormed, LinkedOn
  <2> HIDE DEF g
  <2> QED
    BY <1>6, <2>1, <2>2 DEF Chunk
<1>8. g[one] \in Chunk /\ one \in DOMAIN g
  BY <1>1, <1>2, <1>3, <1>4, <1>5 DEF Chunk
<1>9. g \in [DOMAIN g -> Chunk]
  <2>1. g = [a \in DOMAIN g |-> g[a]]
    BY DEF MergeWithNext
  <2> HIDE DEF g
  <2> QED
    BY <1>7, <1>8, <2>1
<1> HIDE DEF g
<1>10. Typed(g) /\ Start \in DOMAIN g
  BY <1>1, <1>2, <1>4, <1>9 DEF WellFormed, Typed
<1>11. \A a \in DOMAIN g \ {one} : After(g, a) = After(h, a)
  BY <1>7 DEF After, DataFor
<1>12. After(g, one) = After(h, two)
  BY <1>1, <1>5 DEF After, DataFor, Chunk
<1>13. Apart(g)
  <2> SUFFICES ASSUME NEW a \in DOMAIN g, NEW b \in DOMAIN g, a < b
               PROVE  After(g, a) <= b
    BY DEF Apart
  <2>1. a \in DOMAIN h /\ b \in DOMAIN h /\ b # two
    BY <1>4
  <2>2. CASE a = one
    <3>1. two <= b
      BY <1>1, <2>1, <2>2 DEF WellFormed, Apart
    <3>2. After(h, two) <= b
      BY <1>1, <2>1, <3>1 DEF WellFormed, Apart
    <3> QED
      BY <1>12, <2>2, <3>2
  <2>3. CASE a # one
    BY <1>11, <2>1, <2>3 DEF WellFormed, Apart
  <2> QED
    BY <2>2, <2>3
<1>14. Inside(g)
  BY <1>1, <1>4, <1>11, <1>12 DEF WellFormed, Inside
<1>15. LinkedOn(g)
  <2> SUFFICES ASSUME NEW a \in DOMAIN g
               PROVE  IF g[a].next = NULL THEN After(g, a) = Top
                      ELSE /\ g[a].next \in DOMAIN g /\ g[a].next = After(g, a)
                           /\ g[g[a].next].prev = a
    BY DEF LinkedOn
  <2>1. CASE a = one
    <3>1. three # NULL => three \in DOMAIN g \ {one}
      BY <1>1, <1>2, <1>3, <1>4
    <3>2. g[a].next = three /\ After(g, a) = After(h, two)
      BY <1>5, <1>12, <2>1
    <3>3. three # NULL => g[three].prev = a
      BY <1>7, <2>1, <3>1
    <3> HIDE DEF three
    <3> QED
      BY <1>1, <1>3, <3>1, <3>2, <3>3
  <2>2. CASE a # one
    <3>1. a \in DOMAIN h /\ a # two /\ g[a].next = h[a].next /\ h[a].next # two
      BY <1>4, <1>7, <2>2
    <3>2. h[a].next # NULL =>
              h[a].next \in DOMAIN g /\ h[a].next = After(h, a) /\ h[h[a].next].prev = a
      BY <1>4, <3>1 DEF WellFormed, LinkedOn
    <3>3. h[a].next = NULL => After(h, a) = Top
      BY <3>1 DEF WellFormed, LinkedOn
    <3>4. h[a].next # NULL => h[a].next # three
      BY <1>3, <3>1, <3>2
    <3>5. h[a].next # NULL => g[h[a].next].prev = a
      BY <1>5, <1>7, <3>2, <3>4
    <3> QED
      BY <1>11, <2>2, <3>1, <3>2, <3>3, <3>5
  <2> QED
    BY <2>1, <2>2
<1>16. LinkedBack(g)
  <2> SUFFICES ASSUME NEW a \in DOMAIN g
               PROVE  IF a = Start THEN g[a].prev = NULL
                      ELSE g[a].prev \in DOMAIN g /\ g[g[a].prev].next = a
    BY DEF LinkedBack
  <2>1. a \in DOMAIN h /\ a # two
    BY <1>4
  <2>2. CASE a = three /\ a # one
    <3>1. a # Start
      BY <1>1, <1>2, <1>3, <2>1, <2>2 DEF WellFormed, Inside
    <3> QED
      BY <1>5, <1>7, <1>8, <2>2, <3>1
  <2>3. CASE a # three \/ a = one
    <3>1. g[a].prev = h[a].prev
      BY <1>5, <1>7, <2>3
    <3>2. CASE a = Start
      BY <2>1, <3>1, <3>2 DEF WellFormed, LinkedBack
    <3>3. CASE a # Start
      <4>1. h[a].prev \in DOMAIN h /\ h[h[a].prev].next = a
        BY <2>1, <3>3 DEF WellFormed, LinkedBack
      <4>2. a # three
        BY <1>1, <1>2, <1>3, <2>3
      <4>3. h[a].prev # two /\ h[a].prev # one
        BY <2>1, <4>1, <4>2
      <4> QED
        BY <1>4, <1>7, <3>1, <3>3, <4>1, <4>3
    <3> QED
      BY <3>2, <3>3
  <2> QED
    BY <2>2, <2>3
<1>17. \A a \in DOMAIN g : g[a].status = h[a].status
  BY <1>5, <1>7
<1> QED
  BY <1>1, <1>2, <1>3, <1>4, <1>5, <1>7, <1>10, <1>13, <1>14, <1>15, <1>16, <1>17
     DEF WellFormed, Merged, g

\* g is h with chunk c cut after n bytes.
Parted(h, c, n, g) ==
    LET part == Rest(c, n) IN
    /\ part \notin DOMAIN h /\ DOMAIN g = DOMAIN h \union {part} /\ part # NULL
    /\ g[c].size = n /\ g[c].next = part /\ g[c].status = h[c].status
    /\ g[part].status = FREE /\ g[part].next = h[c].next
    /\ g[part].size = h[c].size - n - Header
    /\ \A a \in DOMAIN h \ {c} :
          g[a].size = h[a].size /\ g[a].next = h[a].next /\ g[a].status = h[a].status

LEMMA SplitLemma ==
    ASSUME NEW h, WellFormed(h), NEW c \in DOMAIN h, NEW n \in Nat, Splits(h, c, n)
    PROVE  WellFormed(Split(h, c, n)) /\ Parted(h, c, n, Split(h, c, n))
<1> DEFINE g == Split(h, c, n)
           part == Rest(c, n)
           next == h[c].next
<1>1. /\ DOMAIN h \subseteq Nat \ {0}
      /\ \A a \in DOMAIN h : h[a] \in Chunk
      /\ Start \in Nat /\ Top \in Nat
      /\ c \in Nat /\ h[c].size \in Nat /\ h[c].size >= n + 20
  BY HeapAssumption, HeapSize DEF WellFormed, Typed, Chunk, Splits
<1>2. part \in Nat /\ part = c + 16 + n /\ c < part /\ part < After(h, c)
      /\ After(h, c) = c + 16 + h[c].size
  BY <1>1 DEF Rest, DataFor, After
<1>3. part \notin DOMAIN h
  <2> SUFFICES ASSUME part \in DOMAIN h PROVE FALSE
    OBVIOUS
  <2>1. After(h, c) <= part
    BY <1>2 DEF WellFormed, Apart
  <2> QED
    BY <1>1, <1>2, <2>1
<1>4. part # Start /\ part # 0
  BY <1>1, <1>2, <1>3 DEF WellFormed
<1>5. \/ next = NULL /\ After(h, c) = Top
      \/ next \in DOMAIN h /\ next = After(h, c) /\ h[next].prev = c /\ next # c /\ next # Start
  <2>1. next # NULL => next \in DOMAIN h /\ next = After(h, c) /\ h[next].prev = c
    BY DEF WellFormed, LinkedOn
  <2>2. next = NULL => After(h, c) = Top
    BY DEF WellFormed, LinkedOn
  <2>3. next # NULL => next # c /\ next # Start
    BY <1>1, <1>2, <2>1 DEF WellFormed, Inside
  <2> QED
    BY <2>1, <2>2, <2>3
<1>6. g = [a \in DOMAIN h \union {part} |->
                IF a = c THEN [h[c] EXCEPT !.size = n, !.next = part]
                ELSE IF a = part THEN [prev |-> c, next |-> next, status |-> FREE,
                                       size |-> h[c].size - n - Header]
                ELSE IF a = next THEN [h[a] EXCEPT !.prev = part]
                ELSE h[a]]
  BY DEF Split
<1> HIDE DEF g, part, next
<1>7. DOMAIN g = DOMAIN h \union {part}
  BY <1>6
<1>8. g[c] = [prev |-> h[c].prev, next |-> part, size |-> n, status |-> h[c].status]
      /\ g[c] \in Chunk
  <2>1. g[c] = [h[c] EXCEPT !.size = n, !.next = part] /\ h[c] \in Chunk
    BY <1>1, <1>6
  <2> QED
    BY <1>2, <2>1 DEF Chunk
<1>9. g[part] = [prev |-> c, next |-> next, status |-> FREE, size |-> h[c].size - n - 16]
      /\ g[part] \in Chunk
  <2>1. g[part] = [prev |-> c, next |-> next, status |-> FREE, size |-> h[c].size - n - 16]
    BY <1>3, <1>6
  <2>2. next \in Nat
    BY <1>1 DEF Chunk, next
  <2> QED
    BY <1>1, <2>1, <2>2 DEF Chunk
<1>10. \A a \in DOMAIN h \ {c} :
          /\ g[a].size = h[a].size /\ g[a].next = h[a].next /\ g[a].status = h[a].status
          /\ g[a].prev = IF a = next THEN part ELSE h[a].prev
          /\ g[a] \in Chunk
  <2> SUFFICES ASSUME NEW a \in DOMAIN h \ {c}
               PROVE  /\ g[a].size = h[a].size /\ g[a].next = h[a].next
                      /\ g[a].status = h[a].status
                      /\ g[a].prev = IF a = next THEN part ELSE h[a].prev
                      /\ g[a] \in Chunk
    OBVIOUS
  <2>1. g[a] = IF a = next THEN [h[a] EXCEPT !.prev = part] ELSE h[a]
    BY <1>3, <1>6
  <2>2. h[a] \in Chunk
    BY <1>1
  <2> QED
    BY <1>2, <2>1, <2>2 DEF Chunk
<1>11. g \in [DOMAIN g -> Chunk]
  <2>1. g = [a \in DOMAIN g |-> g[a]]
    BY <1>6
  <2> QED
    BY <1>7, <1>8, <1>9, <1>10, <2>1
<1>12. Typed(g) /\ Start \in DOMAIN g
  BY <1>1, <1>2, <1>4, <1>7, <1>11 DEF WellFormed, Typed
<1>13. /\ \A a \in DOMAIN h \ {c} : After(g, a) = After(h, a)
       /\ After(g, c) = part /\ After(g, part) = After(h, c)
  BY <1>1, <1>2, <1>8, <1>9, <1>10 DEF After, DataFor
<1>14. Apart(g)
  <2> SUFFICES ASSUME NEW a \in DOMAIN g, NEW b \in DOMAIN g, a < b
               PROVE  After(g, a) <= b
    BY DEF Apart
  <2>1. CASE a \in DOMAIN h \ {c} /\ b \in DOMAIN h
    BY <1>13, <2>1 DEF WellFormed, Apart
  <2>2. CASE a \in DOMAIN h \ {c} /\ b = part
    <3>1. a < c
      <4>1. c < a => After(h, c) <= a
        BY <2>2 DEF WellFormed, Apart
      <4> QED
        BY <1>1, <1>2, <2>2, <4>1
    <3>2. After(h, a) <= c /\ After(h, a) \in Nat
      BY <1>1, <2>2, <3>1 DEF WellFormed, Apart, After, DataFor, Chunk
    <3> QED
      BY <1>1, <1>2, <1>13, <2>2, <3>2
  <2>3. CASE a = c /\ b \in DOMAIN h
    <3>1. After(h, c) <= b
      BY <2>3 DEF WellFormed, Apart
    <3> QED
      BY <1>1, <1>2, <1>13, <2>3, <3>1
  <2>4. CASE a = c /\ b = part
    BY <1>2, <1>13, <2>4
  <2>5. CASE a = part /\ b \in DOMAIN h
    <3>1. After(h, c) <= b
      BY <1>1, <1>2, <2>5 DEF WellFormed, Apart
    <3> QED
      BY <1>13, <2>5, <3>1
  <2> QED
    BY <1>2, <1>7, <2>1, <2>2, <2>3, <2>4, <2>5
<1>15. Inside(g)
  <2> SUFFICES ASSUME NEW a \in DOMAIN g
               PROVE  Start <= a /\ After(g, a) <= Top
    BY DEF Inside
  <2>1. Start <= c /\ After(h, c) <= Top
    BY DEF WellFormed, Inside
  <2>2. CASE a \in DOMAIN h \ {c}
    BY <1>13, <2>2 DEF WellFormed, Inside
  <2>3. CASE a = c \/ a = part
    BY <1>1, <1>2, <1>13, <2>1, <2>3
  <2> QED
    BY <1>7, <2>2, <2>3
<1>16. LinkedOn(g)
  <2> SUFFICES ASSUME NEW a \in DOMAIN g
               PROVE  IF g[a].next = NULL THEN After(g, a) = Top
                      ELSE /\ g[a].next \in DOMAIN g /\ g[a].next = After(g, a)
                           /\ g[g[a].next].prev = a
    BY DEF LinkedOn
  <2>1. CASE a = c
    <3>1. g[a].next = part /\ After(g, a) = part /\ g[part].prev = a /\ part \in DOMAIN g
      BY <1>7, <1>8, <1>9, <1>13, <2>1
    <3> QED
      BY <1>4, <3>1
  <2>2. CASE a = part
    <3>1. g[a].next = next /\ After(g, a) = After(h, c)
      BY <1>9, <1>13, <2>2
    <3>2. next # NULL => next \in DOMAIN g /\ g[next].prev = part
      BY <1>1, <1>5, <1>7, <1>10
    <3> QED
      BY <1>1, <1>5, <2>2, <3>1, <3>2
  <2>3. CASE a \in DOMAIN h \ {c}
    <3>1. g[a].next = h[a].next /\ After(g, a) = After(h, a)
      BY <1>10, <1>13, <2>3
    <3>2. h[a].next = NULL => After(h, a) = Top
      BY <2>3 DEF WellFormed, LinkedOn
    <3>3. h[a].next # NULL =>
              h[a].next \in DOMAIN h /\ h[a].next = After(h, a) /\ h[h[a].next].prev = a
      BY <2>3 DEF WellFormed, LinkedOn
    <3>4. h[a].next # NULL /\ h[a].next = c => g[c].prev = a
      BY <1>8, <3>3
    <3>5. h[a].next # NULL /\ h[a].next # c => g[h[a].next].prev = a
      BY <1>1, <1>5, <1>10, <2>3, <3>3
    <3> QED
      BY <1>7, <3>1, <3>2, <3>3, <3>4, <3>5
  <2> QED
    BY <1>7, <2>1, <2>2, <2>3
<1>17. LinkedBack(g)
  <2> SUFFICES ASSUME NEW a \in DOMAIN g
               PROVE  IF a = Start THEN g[a].prev = NULL
                      ELSE g[a].prev \in DOMAIN g /\ g[g[a].prev].next = a
    BY DEF LinkedBack
  <2>1. CASE a = part
    BY <1>4, <1>7, <1>8, <1>9, <2>1
  <2>2. CASE a \in DOMAIN h /\ a = next /\ a # c
    BY <1>1, <1>5, <1>7, <1>9, <1>10, <2>2
  <2>3. CASE a \in DOMAIN h /\ (a # next \/ a = c)
    <3>1. g[a].prev = h[a].prev
      BY <1>8, <1>10, <2>3
    <3>2. a = Start => h[a].prev = NULL
      BY <2>3 DEF WellFormed, LinkedBack
    <3>3. a # Start => h[a].prev \in DOMAIN h /\ h[h[a].prev].next = a
      BY <2>3 DEF WellFormed, LinkedBack
    <3>4. a # next
      BY <1>1, <1>5, <2>3
    <3>5. a # Start => h[a].prev # c
      BY <3>3, <3>4 DEF next
    <3>6. a # Start => g[h[a].prev].next = a
      BY <1>10, <3>3, <3>5
    <3> QED
      BY <1>7, <3>1, <3>2, <3>3, <3>6
  <2> QED
    BY <1>7, <2>1, <2>2, <2>3
<1> QED
  BY <1>3, <1>4, <1>7, <1>8, <1>9, <1>10, <1>12, <1>14, <1>15, <1>16, <1>17
     DEF WellFormed, Parted, g, part, next

-----------------------------------------------------------------------------
(* Freeing a chunk.                                                           *)

LEMMA Ascending ==
    ASSUME NEW h, WellFormed(h), NEW a \in DOMAIN h
    PROVE  /\ a \in Nat \ {NULL} /\ h[a].status \in {FREE, USED} /\ h[a].size \in Nat
           /\ h[a].next # NULL =>
                 h[a].next \in DOMAIN h /\ a < h[a].next /\ h[h[a].next].prev = a
           /\ h[a].prev # NULL =>
                 h[a].prev \in DOMAIN h /\ h[a].prev < a /\ h[h[a].prev].next = a
<1>1. /\ DOMAIN h \subseteq Nat \ {0}
      /\ \A b \in DOMAIN h : h[b].status \in {FREE, USED} /\ h[b].size \in Nat
  BY DEF WellFormed, Typed, Chunk
<1>2. \A b \in DOMAIN h : h[b].next # NULL =>
          h[b].next \in DOMAIN h /\ b < h[b].next /\ h[h[b].next].prev = b
  BY <1>1 DEF WellFormed, LinkedOn, After, DataFor
<1>3. h[a].prev # NULL => h[a].prev \in DOMAIN h /\ h[h[a].prev].next = a
  BY DEF WellFormed, LinkedBack
<1> QED
  BY <1>1, <1>2, <1>3

\* The chunk is merged with the one after it.
LEMMA MergeAfterLemma ==
    ASSUME NEW h, WellFormed(h), NEW c \in DOMAIN h, h[c].status = FREE,
           Settled(h, c), ~FreeBefore(h, c)
    PROVE  LET g == MergeAfter(h, c) IN
           /\ WellFormed(g) /\ Settled(g, NULL) /\ SameUsed(h, g, {})
           /\ c \in DOMAIN g /\ DOMAIN g \subseteq DOMAIN h
<1>1. \A a \in DOMAIN h : h[a].next = c => h[a].status # FREE
  <2> SUFFICES ASSUME NEW a \in DOMAIN h, h[a].next = c, h[a].status = FREE PROVE FALSE
    OBVIOUS
  <2>1. h[c].prev = a /\ a # NULL
    BY Ascending
  <2> QED
    BY <2>1 DEF FreeBefore
<1>2. CASE FreeAfter(h, c)
  <2> DEFINE g == MergeWithNext(h, c)
             two == h[c].next
  <2>1. two # NULL /\ h[two].status = FREE /\ MergeAfter(h, c) = g
    BY <1>2 DEF FreeAfter, MergeAfter
  <2>a. WellFormed(g) /\ Merged(h, c, g)
    BY <2>1, MergeLemma
  <2> HIDE DEF g
  <2>2. /\ WellFormed(g)
        /\ two \in DOMAIN h /\ two # c /\ DOMAIN g = DOMAIN h \ {two}
        /\ g[c].next = h[two].next /\ g[c].next # two
        /\ \A a \in DOMAIN g : g[a].status = h[a].status
        /\ \A a \in DOMAIN g \ {c} : g[a].size = h[a].size /\ g[a].next = h[a].next
        /\ \A a \in DOMAIN g \ {c} : h[a].next # two
    BY <2>a DEF Merged
  <2> HIDE DEF two
  <2>3. Settled(g, NULL)
    <3> SUFFICES ASSUME NEW a \in DOMAIN g, g[a].status = FREE, g[a].next # NULL
                 PROVE  g[g[a].next].status = USED
      BY DEF Settled
    <3>1. g[a].next \in DOMAIN g /\ a \in DOMAIN h
      BY <2>2, Ascending
    <3>2. CASE a = c
      <4>1. h[two].next # c
        BY <2>2, <3>1, <3>2, Ascending
      <4> QED
        BY <2>1, <2>2, <3>1, <3>2, <4>1 DEF Settled
    <3>3. CASE a # c
      <4>1. h[a].status = FREE /\ h[a].next = g[a].next
        BY <2>2, <3>3
      <4>2. h[a].next # c
        BY <1>1, <3>1, <4>1
      <4> QED
        BY <2>2, <3>1, <3>3, <4>1, <4>2 DEF Settled
    <3> QED
      BY <3>2, <3>3
  <2>4. SameUsed(h, g, {})
    BY <2>1, <2>2 DEF SameUsed
  <2> QED
    BY <2>1, <2>2, <2>3, <2>4
<1>3. CASE ~FreeAfter(h, c)
  <2>1. MergeAfter(h, c) = h
    BY <1>3 DEF MergeAfter
  <2>2. Settled(h, NULL)
    <3> SUFFICES ASSUME NEW a \in DOMAIN h, h[a].status = FREE, h[a].next # NULL
                 PROVE  h[h[a].next].status = USED
      BY DEF Settled
    <3>1. CASE a = c
      <4>1. h[h[a].next].status # FREE /\ h[a].next \in DOMAIN h
        BY <1>3, <3>1, Ascending DEF FreeAfter
      <4> QED
        BY <4>1, Ascending
    <3>2. CASE a # c
      BY <1>1, <3>2 DEF Settled
    <3> QED
      BY <3>1, <3>2
  <2>3. SameUsed(h, h, {})
    BY DEF SameUsed
  <2> QED
    BY <2>1, <2>2, <2>3
<1> QED
  BY <1>2, <1>3

\* A chunk is freed and merged with its neighbours; nothing else changes.
LEMMA NewlyFreeLemma ==
    ASSUME NEW h, WellFormed(h), NEW c \in DOMAIN h, Settled(h, c)
    PROVE  LET g == NewlyFree(h, c) IN
           /\ WellFormed(g) /\ Settled(g, NULL) /\ SameUsed(h, g, {c})
           /\ c \in DOMAIN g => g[c].status = FREE
<1> DEFINE k == SetStatus(h, c, FREE)
<1>1. /\ WellFormed(k) /\ DOMAIN k = DOMAIN h /\ k[c].status = FREE
      /\ \A a \in DOMAIN h : a # c => k[a].status = h[a].status
      /\ \A a \in DOMAIN h : k[a].size = h[a].size /\ k[a].next = h[a].next
  BY SetStatusLemma
<1> HIDE DEF k
<1>2. Settled(k, c)
  <2> SUFFICES ASSUME NEW a \in DOMAIN h, a # c, k[a].status = FREE,
                      k[a].next # NULL, k[a].next # c
               PROVE  k[k[a].next].status = USED
    BY <1>1 DEF Settled
  <2>1. k[a].next \in DOMAIN h
    BY <1>1, Ascending
  <2> QED
    BY <1>1, <2>1 DEF Settled
<1>3. SameUsed(h, k, {c})
  BY <1>1 DEF SameUsed
<1>4. CASE FreeBefore(k, c)
  <2> DEFINE p == k[c].prev
             m == MergeWithNext(k, p)
             g == MergeAfter(m, p)
  <2>1. p # NULL /\ p \in DOMAIN k /\ p < c /\ k[p].next = c /\ k[p].status = FREE /\ c # NULL
    BY <1>1, <1>4, Ascending DEF FreeBefore
  <2>2. NewlyFree(h, c) = g
    BY <1>4 DEF NewlyFree, k
  <2> HIDE DEF p
  <2>a. WellFormed(m) /\ Merged(k, p, m)
    BY <1>1, <2>1, MergeLemma
  <2> HIDE DEF m
  <2>3. /\ WellFormed(m) /\ DOMAIN m = DOMAIN k \ {c} /\ p # c
        /\ \A a \in DOMAIN m : m[a].status = k[a].status
        /\ \A a \in DOMAIN m \ {p} : m[a].size = k[a].size /\ m[a].next = k[a].next
        /\ \A a \in DOMAIN m \ {p} : k[a].next # c
    BY <2>1, <2>a DEF Merged
  <2>4. Settled(m, p)
    <3> SUFFICES ASSUME NEW a \in DOMAIN m, a # p, m[a].status = FREE,
                        m[a].next # NULL, m[a].next # p
                 PROVE  m[m[a].next].status = USED
      BY DEF Settled
    <3>1. m[a].next \in DOMAIN m
      BY <2>3, Ascending
    <3> QED
      BY <1>2, <2>3, <3>1 DEF Settled
  <2>5. ~FreeBefore(m, p)
    <3> SUFFICES ASSUME m[p].prev # NULL, m[m[p].prev].status = FREE PROVE FALSE
      BY DEF FreeBefore
    <3>1. m[p].prev \in DOMAIN m /\ m[m[p].prev].next = p /\ m[p].prev # p
      BY <2>1, <2>3, Ascending
    <3>2. k[m[p].prev].next = p /\ k[m[p].prev].status = FREE /\ m[p].prev \in DOMAIN k
          /\ m[p].prev # c
      BY <2>3, <3>1
    <3>3. k[p].status = USED
      BY <1>2, <2>1, <2>3, <3>2 DEF Settled
    <3> QED
      BY <2>1, <3>3
  <2>6. m[p].status = FREE /\ p \in DOMAIN m
    BY <2>1, <2>3
  <2>7. /\ WellFormed(g) /\ Settled(g, NULL) /\ SameUsed(m, g, {})
        /\ DOMAIN g \subseteq DOMAIN m
    BY <2>3, <2>4, <2>5, <2>6, MergeAfterLemma
  <2> HIDE DEF g
  <2>8. SameUsed(h, g, {c})
    <3>1. SameUsed(k, m, {c})
      BY <2>1, <2>3 DEF SameUsed
    <3> QED
      BY <1>3, <2>7, <3>1 DEF SameUsed
  <2>9. c \notin DOMAIN g
    BY <2>3, <2>7
  <2> QED
    BY <2>2, <2>7, <2>8, <2>9
<1>5. CASE ~FreeBefore(k, c)
  <2> DEFINE g == MergeAfter(k, c)
  <2>1. NewlyFree(h, c) = g
    BY <1>5 DEF NewlyFree, k
  <2>2. WellFormed(g) /\ Settled(g, NULL) /\ SameUsed(k, g, {}) /\ c \in DOMAIN g
    BY <1>1, <1>2, <1>5, MergeAfterLemma
  <2> HIDE DEF g
  <2>3. g[c].status \in {FREE, USED}
    BY <2>2, Ascending
  <2>4. g[c].status = FREE
    BY <1>1, <2>2, <2>3 DEF SameUsed
  <2>5. SameUsed(h, g, {c})
    BY <1>1, <1>3, <2>2 DEF SameUsed
  <2> QED
    BY <2>1, <2>2, <2>4, <2>5
<1> QED
  BY <1>4, <1>5

-----------------------------------------------------------------------------
(* Taking a chunk.                                                            *)

\* Chunk c of h becomes a chunk in use of at least n bytes of g; no other chunk
\* in use is touched.
Taken(h, c, n, g) ==
    /\ WellFormed(g) /\ Settled(g, NULL) /\ SameUsed(h, g, {c})
    /\ c \in DOMAIN g /\ g[c].status = USED /\ g[c].size >= n

\* A free chunk is cut to n bytes and used.
LEMMA UseLemma ==
    ASSUME NEW h, WellFormed(h), NEW c \in DOMAIN h, Settled(h, c), h[c].status = FREE,
           h[c].next # NULL => h[h[c].next].status = USED,
           NEW n \in Nat, h[c].size >= n
    PROVE  Taken(h, c, n, NewlyUsed(Split(h, c, n), c))
<1> DEFINE k == Split(h, c, n)
           g == SetStatus(k, c, USED)
           part == Rest(c, n)
<1>1. \/ Parted(h, c, n, k)
      \/ k = h
  BY SplitLemma DEF Split
<1>2. WellFormed(k)
  BY SplitLemma DEF Split
<1> HIDE DEF k, part
<1>3. /\ c \in DOMAIN k /\ k[c].size >= n
      /\ \A a \in DOMAIN h \ {c} :
            /\ a \in DOMAIN k /\ k[a].size = h[a].size /\ k[a].next = h[a].next
            /\ k[a].status = h[a].status
  BY <1>1 DEF Parted
<1>4. /\ WellFormed(g) /\ DOMAIN g = DOMAIN k /\ g[c].status = USED
      /\ \A a \in DOMAIN k : a # c => g[a].status = k[a].status
      /\ \A a \in DOMAIN k : g[a].size = k[a].size /\ g[a].next = k[a].next
  BY <1>2, <1>3, SetStatusLemma
<1> HIDE DEF g
<1>5. \A a \in DOMAIN g \ DOMAIN h :
          /\ a # c /\ k[a].status = FREE
          /\ k[a].next = h[c].next
  BY <1>1, <1>4 DEF Parted
<1>6. Settled(g, NULL)
  <2> SUFFICES ASSUME NEW a \in DOMAIN g, g[a].status = FREE, g[a].next # NULL
               PROVE  g[g[a].next].status = USED
    BY DEF Settled
  <2>1. a # c /\ g[a].next \in DOMAIN g
    BY <1>4, Ascending
  <2>2. CASE a \in DOMAIN h
    <3>1. h[a].status = FREE /\ h[a].next = g[a].next /\ h[a].next \in DOMAIN h
      BY <1>3, <1>4, <2>1, <2>2, Ascending
    <3> QED
      BY <1>3, <1>4, <2>1, <2>2, <3>1 DEF Settled
  <2>3. CASE a \notin DOMAIN h
    <3>1. g[a].next = h[c].next
      BY <1>4, <1>5, <2>3
    <3>2. h[c].next \in DOMAIN h /\ h[c].next # c
      BY <3>1, Ascending
    <3> QED
      BY <1>3, <1>4, <2>1, <3>1, <3>2
  <2> QED
    BY <2>2, <2>3
<1>7. SameUsed(h, g, {c})
  <2>1. FREE # USED
    OBVIOUS
  <2> QED
    BY <1>3, <1>4, <1>5, <2>1 DEF SameUsed
<1> QED
  BY <1>3, <1>4, <1>6, <1>7 DEF Taken, NewlyUsed, g, k

\* A chunk that has the place for n aligned bytes is taken.
LEMMA TakeLemma ==
    ASSUME NEW h, WellFormed(h), Settled(h, NULL), NEW c \in DOMAIN h,
           NEW al \in Nat \ {0}, NEW n \in Nat, n >= 8, Fits(h, c, al, n)
    PROVE  LET to == c + Gap(c, al) IN
           /\ Taken(h, to, n, Take(h, c, al, n))
           /\ to \in Nat
           /\ to \in DOMAIN h => h[to].status = FREE
<1> DEFINE gap == Gap(c, al)
           to == c + gap
           k == IF gap # 0 THEN Split(h, c, gap - Header) ELSE h
<1>1. c \in Nat \ {0} /\ h[c].size \in Nat /\ h[c].status = FREE /\ h[c].size >= n + gap
  BY Ascending DEF Fits
<1>2. gap \in Nat /\ (gap # 0 => gap >= Header)
  <2>1. CASE DataFor(c) % al # 0
    <3>1. DataFor(c) + 16 \in Nat /\ DataFor(c) \in Nat
      BY <1>1 DEF DataFor
    <3>2. RoundUp(DataFor(c) + 16, al) \in Nat /\ RoundUp(DataFor(c) + 16, al) >= DataFor(c) + 16
      BY <3>1, RoundUpLemma
    <3> QED
      BY <2>1, <3>1, <3>2 DEF Gap
  <2>2. CASE DataFor(c) % al = 0
    BY <2>2 DEF Gap
  <2> QED
    BY <2>1, <2>2
<1>3. Take(h, c, al, n) = NewlyUsed(Split(k, to, n), to)
  BY DEF Take
<1> HIDE DEF gap
<1>4. CASE gap = 0
  <2>1. to = c /\ k = h
    BY <1>1, <1>4
  <2>2. Settled(h, c) /\ (h[c].next # NULL => h[h[c].next].status = USED)
    BY <1>1, Ascending DEF Settled
  <2>3. Taken(h, c, n, NewlyUsed(Split(h, c, n), c))
    BY <1>1, <1>4, <2>2, UseLemma
  <2> HIDE DEF k, to
  <2> QED
    BY <1>1, <1>3, <2>1, <2>3 DEF to, gap
<1>5. CASE gap # 0
  <2>1. gap - 16 \in Nat /\ k = Split(h, c, gap - 16) /\ to = Rest(c, gap - 16)
    BY <1>1, <1>2, <1>5 DEF Rest, DataFor
  <2>2. Splits(h, c, gap - 16)
    BY <1>1, <1>2, <2>1 DEF Splits
  <2>3. WellFormed(k) /\ Parted(h, c, gap - 16, k)
    BY <2>1, <2>2, SplitLemma
  <2> HIDE DEF k, to
  <2>4. /\ to \notin DOMAIN h /\ DOMAIN k = DOMAIN h \union {to}
        /\ k[c].next = to /\ k[c].status = h[c].status
        /\ k[to].status = FREE /\ k[to].next = h[c].next
        /\ k[to].size = h[c].size - (gap - 16) - 16
        /\ \A a \in DOMAIN h \ {c} :
              k[a].size = h[a].size /\ k[a].next = h[a].next /\ k[a].status = h[a].status
    BY <2>1, <2>3 DEF Parted
  <2>5. Settled(k, to)
    <3> SUFFICES ASSUME NEW a \in DOMAIN k, a # to, k[a].status = FREE,
                        k[a].next # NULL, k[a].next # to
                 PROVE  k[k[a].next].status = USED
      BY DEF Settled
    <3>1. a \in DOMAIN h \ {c} /\ k[a].next \in DOMAIN h /\ a # NULL /\ k[a].next # NULL
      BY <2>3, <2>4, Ascending
    <3>2. h[h[a].next].status = USED /\ h[a].next = k[a].next
      BY <2>4, <3>1 DEF Settled
    <3>3. k[a].next # c
      BY <1>1, <3>2
    <3> QED
      BY <2>4, <3>1, <3>2, <3>3
  <2>6. k[to].next # NULL => k[k[to].next].status = USED
    <3> SUFFICES ASSUME h[c].next # NULL PROVE k[h[c].next].status = USED
      BY <2>4
    <3>1. h[c].next \in DOMAIN h \ {c}
      BY Ascending
    <3>2. h[h[c].next].status = USED
      BY <1>1 DEF Settled
    <3> QED
      BY <2>4, <3>1, <3>2
  <2>7. k[to].size >= n /\ to \in DOMAIN k
    BY <1>1, <1>2, <2>4
  <2>8. Taken(k, to, n, NewlyUsed(Split(k, to, n), to))
    BY <2>3, <2>4, <2>5, <2>6, <2>7, UseLemma
  <2>9. SameUsed(h, k, {to})
    BY <1>1, <2>4 DEF SameUsed
  <2>10. Taken(h, to, n, NewlyUsed(Split(k, to, n), to))
    BY <2>8, <2>9 DEF Taken, SameUsed
  <2>11. to \in Nat
    BY <1>1, <1>2 DEF to
  <2> QED
    BY <1>3, <2>4, <2>10, <2>11 DEF to, gap
<1> QED
  BY <1>4, <1>5

\* A chunk in use takes in bytes of the free chunk after it.
LEMMA GrowLemma ==
    ASSUME NEW h, WellFormed(h), Settled(h, NULL), NEW c \in DOMAIN h, h[c].status = USED,
           FreeAfter(h, c), NEW n \in Nat, h[h[c].next].size >= n
    PROVE  LET next == h[c].next IN
           Taken(h, c, h[c].size + n, MergeWithNext(NewlyUsed(Split(h, next, n), next), c))
<1> DEFINE next == h[c].next
           k == NewlyUsed(Split(h, next, n), next)
           g == MergeWithNext(k, c)
<1>1. next # NULL /\ next \in DOMAIN h /\ h[next].status = FREE /\ next # c
      /\ h[c].size \in Nat
  BY Ascending DEF FreeAfter
<1>2. Settled(h, next) /\ (h[next].next # NULL => h[h[next].next].status = USED)
  BY <1>1, Ascending DEF Settled
<1>3. Taken(h, next, n, k)
  BY <1>1, <1>2, UseLemma
<1>4. k[c].next = next /\ c \in DOMAIN k /\ k[c].status = USED /\ k[c].size = h[c].size
  <2> DEFINE m == Split(h, next, n)
  <2>1. WellFormed(m) /\ (Parted(h, next, n, m) \/ m = h)
    BY <1>1, SplitLemma DEF Split
  <2> HIDE DEF m
  <2>2. c \in DOMAIN m /\ next \in DOMAIN m /\ m[c].next = next
    BY <1>1, <2>1 DEF Parted
  <2>3. k[c].next = next /\ c \in DOMAIN k
    BY <2>1, <2>2, SetStatusLemma DEF NewlyUsed, m
  <2>4. k[c].status = USED /\ k[c].size = h[c].size
    BY <1>1, <1>3 DEF Taken, SameUsed
  <2> QED
    BY <2>3, <2>4
<1> HIDE DEF k, next
<1>5. WellFormed(g) /\ Merged(k, c, g)
  BY <1>1, <1>3, <1>4, MergeLemma DEF Taken
<1> HIDE DEF g
<1>6. /\ next \in DOMAIN k /\ DOMAIN g = DOMAIN k \ {next}
      /\ g[c].size = h[c].size + k[next].size + 16
      /\ k[next].size >= n /\ k[next].size \in Nat
      /\ \A a \in DOMAIN g : g[a].status = k[a].status
      /\ \A a \in DOMAIN g \ {c} : g[a].size = k[a].size /\ g[a].next = k[a].next
      /\ \A a \in DOMAIN g \ {c} : k[a].next # next
  BY <1>3, <1>4, <1>5, Ascending DEF Merged, Taken
<1>7. g[c].status = USED /\ c \in DOMAIN g /\ g[c].size >= h[c].size + n
  BY <1>1, <1>4, <1>6
<1>8. Settled(g, NULL)
  <2> SUFFICES ASSUME NEW a \in DOMAIN g, a # NULL, g[a].status = FREE, g[a].next # NULL
               PROVE  g[g[a].next].status = USED
    BY DEF Settled
  <2>1. a # c /\ g[a].next \in DOMAIN g
    BY <1>5, <1>7, Ascending
  <2>2. k[k[a].next].status = USED
    BY <1>3, <1>6, <2>1 DEF Taken, Settled
  <2> QED
    BY <1>6, <2>1, <2>2
<1>9. SameUsed(h, g, {c})
  <2>1. SameUsed(h, k, {next})
    BY <1>3 DEF Taken
  <2>2. \A a \in DOMAIN h \ {c} : h[a].status = USED =>
            a \in DOMAIN g /\ g[a].status = USED /\ g[a].size = h[a].size
    BY <1>1, <1>6, <2>1 DEF SameUsed
  <2>3. \A a \in DOMAIN g \ {c} : g[a].status = USED => a \in DOMAIN h /\ h[a].status = USED
    BY <1>6, <2>1 DEF SameUsed
  <2> QED
    BY <2>2, <2>3 DEF SameUsed
<1> QED
  BY <1>5, <1>7, <1>8, <1>9 DEF Taken, g, k, next

-----------------------------------------------------------------------------
(* The invariant.                                                             *)

\* The blocks b are the chunks of h in use.
Owned(h, b) ==
    /\ \A d \in DOMAIN b : HeaderFor(d) \in DOMAIN h
          /\ h[HeaderFor(d)].status = USED /\ b[d] <= h[HeaderFor(d)].size
    /\ \A c \in DOMAIN h : h[c].status = USED => DataFor(c) \in DOMAIN b

\* What a call keeps of the heap and of the blocks of the application.
Sound(h, b) ==
    /\ WellFormed(h) /\ Settled(h, NULL) /\ Owned(h, b)
    /\ DOMAIN b \subseteq Nat /\ \A d \in DOMAIN b : b[d] \in Nat
    /\ b = [d \in DOMAIN b |-> b[d]]

HeapInv == Sound(chunk, held)

LEMMA HeapInvImplies == HeapInv => TypeOK /\ Tiled /\ HeldIsUsed
<1>1. HeapInv => Typed(chunk) /\ Tiled
  BY DEF HeapInv, Sound, WellFormed, Tiled
<1>2. HeapInv => DOMAIN held \subseteq Nat /\ held \in [DOMAIN held -> Nat]
  BY DEF HeapInv, Sound
<1>3. HeapInv => HeldIsUsed
  BY DEF HeapInv, Sound, Owned, HeldIsUsed
<1> QED
  BY <1>1, <1>2, <1>3 DEF TypeOK

LEMMA HeapInit == Init => HeapInv
<1> SUFFICES ASSUME Init PROVE HeapInv
  OBVIOUS
<1>1. /\ heap_size \in Nat /\ heap_size >= 16 /\ Top = Start + heap_size
      /\ Start \in Nat \ {0}
  BY HeapSize, HeapAssumption DEF Top
<1>2. /\ DOMAIN chunk = {Start}
      /\ chunk[Start] = [prev |-> 0, next |-> 0, status |-> FREE, size |-> heap_size - 16]
      /\ chunk = [a \in {Start} |-> chunk[Start]]
  BY DEF Init
<1>3. chunk[Start] \in Chunk
  BY <1>1, <1>2 DEF Chunk
<1>4. Typed(chunk)
  BY <1>1, <1>2, <1>3 DEF Typed
<1>5. After(chunk, Start) = Top
  BY <1>1, <1>2 DEF After, DataFor
<1>6. Apart(chunk)
  BY <1>1, <1>2 DEF Apart
<1>7. Inside(chunk)
  BY <1>1, <1>2, <1>5 DEF Inside
<1>8. LinkedOn(chunk) /\ LinkedBack(chunk)
  BY <1>2, <1>5 DEF LinkedOn, LinkedBack
<1>9. Owned(chunk, held) /\ Settled(chunk, NULL)
  <2>1. FREE # USED
    OBVIOUS
  <2> QED
    BY <1>2, <2>1 DEF Owned, Settled, Init
<1>10. DOMAIN held = {} /\ held = [d \in DOMAIN held |-> held[d]]
  BY DEF Init
<1> QED
  BY <1>2, <1>4, <1>6, <1>7, <1>8, <1>9, <1>10 DEF HeapInv, Sound, WellFormed

\* A block is taken for the application, or one of its blocks resized.
LEMMA HoldLemma ==
    ASSUME NEW h, NEW b, Sound(h, b), NEW c \in Nat, NEW size \in Nat, NEW n \in Nat,
           n <= size, NEW g, Taken(h, c, size, g)
    PROVE  Sound(g, With(b, DataFor(c), n))
<1> DEFINE w == With(b, DataFor(c), n)
<1>1. /\ DOMAIN w = DOMAIN b \union {DataFor(c)} /\ w[DataFor(c)] = n
      /\ \A d \in DOMAIN b \ {DataFor(c)} : w[d] = b[d]
      /\ w = [d \in DOMAIN w |-> w[d]]
  BY DEF With
<1> HIDE DEF w
<1>2. DataFor(c) \in Nat /\ HeaderFor(DataFor(c)) = c
  BY DEF DataFor, HeaderFor
<1>3. DOMAIN b \subseteq Nat /\ \A d \in DOMAIN b : b[d] \in Nat
  BY DEF Sound
<1>4. DOMAIN w \subseteq Nat /\ \A d \in DOMAIN w : w[d] \in Nat
  BY <1>1, <1>2, <1>3
<1>5. ASSUME NEW d \in DOMAIN w
      PROVE  /\ HeaderFor(d) \in DOMAIN g /\ g[HeaderFor(d)].status = USED
             /\ w[d] <= g[HeaderFor(d)].size
  <2>1. CASE d = DataFor(c)
    <3>1. g[c].size \in Nat /\ g[c].size >= size
      BY Ascending DEF Taken
    <3> QED
      BY <1>1, <1>2, <2>1, <3>1 DEF Taken
  <2>2. CASE d # DataFor(c)
    <3>1. d \in DOMAIN b /\ w[d] = b[d] /\ HeaderFor(d) # c
      BY <1>1, <1>3, <2>2 DEF HeaderFor, DataFor
    <3>2. /\ HeaderFor(d) \in DOMAIN h /\ h[HeaderFor(d)].status = USED
          /\ b[d] <= h[HeaderFor(d)].size
      BY <3>1 DEF Sound, Owned
    <3> QED
      BY <3>1, <3>2 DEF Taken, SameUsed
  <2> QED
    BY <2>1, <2>2
<1>6. ASSUME NEW a \in DOMAIN g, g[a].status = USED
      PROVE  DataFor(a) \in DOMAIN w
  <2>1. CASE a = c
    BY <1>1, <2>1
  <2>2. CASE a # c
    <3>1. a \in DOMAIN h /\ h[a].status = USED
      BY <1>6, <2>2 DEF Taken, SameUsed
    <3> QED
      BY <1>1, <3>1 DEF Sound, Owned
  <2> QED
    BY <2>1, <2>2
<1>7. Owned(g, w)
  BY <1>5, <1>6 DEF Owned
<1> QED
  BY <1>1, <1>4, <1>7 DEF Sound, Taken, w

\* The chunk of a block.
LEMMA HeaderLemma ==
    ASSUME NEW h, NEW b, Sound(h, b), NEW d \in DOMAIN b
    PROVE  LET c == HeaderFor(d) IN
           /\ d \in Nat /\ c \in DOMAIN h /\ c \in Nat /\ DataFor(c) = d
           /\ h[c].status = USED /\ h[c].size \in Nat
           /\ WellFormed(h) /\ Settled(h, NULL) /\ Settled(h, c)
<1>1. WellFormed(h) /\ Settled(h, NULL)
  BY DEF Sound
<1>2. d \in Nat /\ HeaderFor(d) \in DOMAIN h /\ h[HeaderFor(d)].status = USED
  BY DEF Sound, Owned
<1>3. HeaderFor(d) \in Nat /\ h[HeaderFor(d)].size \in Nat
  BY <1>1, <1>2, Ascending
<1>4. DataFor(HeaderFor(d)) = d
  BY <1>2 DEF DataFor, HeaderFor
<1>5. Settled(h, HeaderFor(d))
  <2>1. \A a \in DOMAIN h : a # NULL
    BY <1>1, Ascending
  <2> QED
    BY <1>1, <2>1 DEF Settled
<1> QED
  BY <1>1, <1>2, <1>3, <1>4, <1>5

\* A block is freed.
LEMMA FreeLemma ==
    ASSUME NEW h, NEW b, Sound(h, b), NEW d \in DOMAIN b
    PROVE  Sound(NewlyFree(h, HeaderFor(d)), Without(b, d))
<1> DEFINE c == HeaderFor(d)
           g == NewlyFree(h, c)
           w == Without(b, d)
<1>1. d \in Nat /\ c \in DOMAIN h /\ c \in Nat /\ DataFor(c) = d
      /\ WellFormed(h) /\ Settled(h, c)
  BY HeaderLemma
<1>2. /\ DOMAIN w = DOMAIN b \ {d} /\ \A e \in DOMAIN w : w[e] = b[e]
      /\ w = [e \in DOMAIN w |-> w[e]]
  BY DEF Without
<1> HIDE DEF c, w
<1>3. /\ WellFormed(g) /\ Settled(g, NULL) /\ SameUsed(h, g, {c})
      /\ c \in DOMAIN g => g[c].status = FREE
  BY <1>1, NewlyFreeLemma
<1> HIDE DEF g
<1>4. DOMAIN b \subseteq Nat /\ \A e \in DOMAIN b : b[e] \in Nat
  BY DEF Sound
<1>5. ASSUME NEW e \in DOMAIN w
      PROVE  /\ HeaderFor(e) \in DOMAIN g /\ g[HeaderFor(e)].status = USED
             /\ w[e] <= g[HeaderFor(e)].size
  <2>1. e \in DOMAIN b /\ HeaderFor(e) # c
    BY <1>1, <1>2, <1>4 DEF HeaderFor, c
  <2> QED
    BY <1>2, <1>3, <2>1 DEF Sound, Owned, SameUsed
<1>6. ASSUME NEW a \in DOMAIN g, g[a].status = USED
      PROVE  DataFor(a) \in DOMAIN w
  <2>1. a # c
    BY <1>3, <1>6
  <2>2. a \in DOMAIN h /\ h[a].status = USED
    BY <1>3, <1>6, <2>1 DEF SameUsed
  <2>3. a \in Nat
    BY <1>1, <2>2, Ascending
  <2>4. DataFor(a) # d
    BY <1>1, <2>1, <2>3 DEF DataFor
  <2> QED
    BY <1>2, <2>2, <2>4 DEF Sound, Owned
<1>7. Owned(g, w)
  BY <1>5, <1>6 DEF Owned
<1> QED
  BY <1>2, <1>3, <1>4, <1>7 DEF Sound, g, w, c

-----------------------------------------------------------------------------
(* The steps.                                                                 *)

LEMMA MemalignStep ==
    ASSUME HeapInv, NEW a \in Nat, NEW n \in Nat, Memalign(a, n)
    PROVE  HeapInv'
<1> DEFINE al == Power(a)
           size == RoundUp(n, 8)
<1>1. n # 0
  BY DEF Memalign
<1>2. PICK c \in DOMAIN chunk :
          /\ FirstFit(c, al, size)
          /\ chunk' = Take(chunk, c, al, size)
          /\ held' = With(held, DataFor(c + Gap(c, al)), n)
  BY DEF Memalign
<1>3. al \in Nat \ {0}
  BY DEF Power
<1>4. size \in Nat /\ size >= n /\ size >= 8
  BY <1>1, RoundUpSize
<1>5. WellFormed(chunk) /\ Settled(chunk, NULL)
  BY DEF HeapInv, Sound
<1>6. Fits(chunk, c, al, size)
  BY <1>2 DEF FirstFit
<1> HIDE DEF al, size
<1>7. Taken(chunk, c + Gap(c, al), size, chunk') /\ c + Gap(c, al) \in Nat
  BY <1>2, <1>3, <1>4, <1>5, <1>6, TakeLemma
<1> QED
  BY <1>2, <1>4, <1>7, HoldLemma DEF HeapInv

LEMMA ShrinkStep ==
    ASSUME HeapInv, NEW d \in DOMAIN held, NEW n \in Nat, Shrink(d, n)
    PROVE  HeapInv'
<1> DEFINE c == HeaderFor(d)
           size == RoundUp(n, 8)
           k == Split(chunk, c, size)
           part == Rest(c, size)
<1>1. /\ c \in DOMAIN chunk /\ c \in Nat /\ DataFor(c) = d
      /\ chunk[c].status = USED /\ chunk[c].size \in Nat
      /\ WellFormed(chunk) /\ Settled(chunk, NULL)
  BY HeaderLemma DEF HeapInv
<1>2. size \in Nat /\ size >= n /\ size <= chunk[c].size
  BY RoundUpSize DEF Shrink
<1>3. held' = With(held, DataFor(c), n)
  BY <1>1 DEF Shrink
<1>4. CASE size < chunk[c].size /\ Splits(chunk, c, size)
  <2>1. chunk' = NewlyFree(k, part)
    BY <1>4 DEF Shrink
  <2>2. WellFormed(k) /\ Parted(chunk, c, size, k)
    BY <1>1, <1>2, <1>4, SplitLemma
  <2> HIDE DEF k, c, size
  <2>3. /\ part \notin DOMAIN chunk /\ DOMAIN k = DOMAIN chunk \union {part}
        /\ k[c].size = size /\ k[c].next = part /\ k[c].status = USED
        /\ k[part].status = FREE
        /\ \A a \in DOMAIN chunk \ {c} :
              /\ k[a].size = chunk[a].size /\ k[a].next = chunk[a].next
              /\ k[a].status = chunk[a].status
    BY <1>1, <2>2 DEF Parted
  <2> HIDE DEF part
  <2>4. Settled(k, part)
    <3> SUFFICES ASSUME NEW a \in DOMAIN k, a # part, k[a].status = FREE,
                        k[a].next # NULL, k[a].next # part
                 PROVE  k[k[a].next].status = USED
      BY DEF Settled
    <3>1. a \in DOMAIN chunk \ {c} /\ k[a].next \in DOMAIN chunk /\ a # NULL
      BY <2>2, <2>3, Ascending
    <3>2. chunk[k[a].next].status = USED
      BY <1>1, <2>3, <3>1 DEF Settled
    <3> QED
      BY <2>3, <3>1, <3>2
  <2>5. /\ WellFormed(chunk') /\ Settled(chunk', NULL) /\ SameUsed(k, chunk', {part})
        /\ part \in DOMAIN chunk' => chunk'[part].status = FREE
    BY <2>1, <2>2, <2>3, <2>4, NewlyFreeLemma
  <2>6. c \in DOMAIN chunk' /\ chunk'[c].status = USED /\ chunk'[c].size = size
    BY <1>1, <2>3, <2>5 DEF SameUsed
  <2>7. SameUsed(chunk, chunk', {c})
    BY <1>1, <2>3, <2>5 DEF SameUsed
  <2>8. Taken(chunk, c, size, chunk')
    BY <1>2, <2>5, <2>6, <2>7 DEF Taken
  <2> QED
    BY <1>1, <1>2, <1>3, <2>8, HoldLemma DEF HeapInv
<1>5. CASE ~(size < chunk[c].size /\ Splits(chunk, c, size))
  <2>1. chunk' = chunk
    BY <1>5 DEF Shrink
  <2>2. SameUsed(chunk, chunk', {c})
    BY <2>1 DEF SameUsed
  <2>3. Taken(chunk, c, size, chunk')
    BY <1>1, <1>2, <2>1, <2>2 DEF Taken
  <2> QED
    BY <1>1, <1>2, <1>3, <2>3, HoldLemma DEF HeapInv
<1> QED
  BY <1>4, <1>5

LEMMA GrowStep ==
    ASSUME HeapInv, NEW d \in DOMAIN held, NEW n \in Nat, Grow(d, n)
    PROVE  HeapInv'
<1> DEFINE c == HeaderFor(d)
           size == RoundUp(n, 8)
           more == size - chunk[c].size
           next == chunk[c].next
<1>1. /\ c \in DOMAIN chunk /\ c \in Nat /\ DataFor(c) = d
      /\ chunk[c].status = USED /\ chunk[c].size \in Nat
      /\ WellFormed(chunk) /\ Settled(chunk, NULL)
  BY HeaderLemma DEF HeapInv
<1>2. size \in Nat /\ size >= n
  BY RoundUpSize DEF Grow
<1>3. size > chunk[c].size /\ FreeAfter(chunk, c) /\ chunk[next].size >= more
  BY DEF Grow, CanGrow
<1>4. held' = With(held, DataFor(c), n)
  BY <1>1 DEF Grow
<1>5. chunk' = MergeWithNext(NewlyUsed(Split(chunk, next, more), next), c)
  BY DEF Grow
<1>6. more \in Nat
  BY <1>1, <1>2, <1>3
<1> HIDE DEF more, c, size
<1>7. Taken(chunk, c, chunk[c].size + more, chunk')
  BY <1>1, <1>3, <1>5, <1>6, GrowLemma
<1>8. chunk[c].size + more = size
  BY <1>1, <1>2 DEF more
<1> QED
  BY <1>1, <1>2, <1>4, <1>7, <1>8, HoldLemma DEF HeapInv

LEMMA MoveStep ==
    ASSUME HeapInv, NEW d \in DOMAIN held, NEW n \in Nat, Move(d, n)
    PROVE  HeapInv'
<1> DEFINE size == RoundUp(n, 8)
<1>1. n # 0
  BY DEF Move
<1>2. PICK new \in DOMAIN chunk :
          /\ FirstFit(new, 8, size)
          /\ chunk' = NewlyFree(Take(chunk, new, 8, size), HeaderFor(d))
          /\ held' = Without(With(held, DataFor(new + Gap(new, 8)), n), d)
  BY DEF Move
<1>3. size \in Nat /\ size >= n /\ size >= 8
  BY <1>1, RoundUpSize
<1>4. WellFormed(chunk) /\ Settled(chunk, NULL)
  BY DEF HeapInv, Sound
<1>5. Fits(chunk, new, 8, size)
  BY <1>2 DEF FirstFit
<1> HIDE DEF size
<1> DEFINE k == Take(chunk, new, 8, size)
           w == With(held, DataFor(new + Gap(new, 8)), n)
<1>6. Taken(chunk, new + Gap(new, 8), size, k) /\ new + Gap(new, 8) \in Nat
  BY <1>3, <1>4, <1>5, TakeLemma
<1> HIDE DEF k
<1>7. Sound(k, w)
  BY <1>3, <1>6, HoldLemma DEF HeapInv
<1>8. d \in DOMAIN w
  BY DEF With
<1> HIDE DEF w
<1>9. Sound(NewlyFree(k, HeaderFor(d)), Without(w, d))
  BY <1>7, <1>8, FreeLemma
<1> QED
  BY <1>2, <1>9 DEF HeapInv, k, w

LEMMA HeapStep == HeapInv /\ [Next]_vars => HeapInv'
<1> SUFFICES ASSUME HeapInv, [Next]_vars PROVE HeapInv'
  OBVIOUS
<1>1. ASSUME NEW n \in Sizes, NEW a \in Nat, Memalign(a, n) PROVE HeapInv'
  BY <1>1, MemalignStep, HeapAssumption
<1>2. ASSUME NEW n \in Sizes, Malloc(n) PROVE HeapInv'
  BY <1>1, <1>2 DEF Malloc
<1>3. ASSUME NEW d \in DOMAIN held, Free(d) PROVE HeapInv'
  BY <1>3, FreeLemma DEF HeapInv, Free
<1>4. ASSUME NEW d \in DOMAIN held, NEW n \in Sizes, Shrink(d, n) PROVE HeapInv'
  BY <1>4, ShrinkStep, HeapAssumption
<1>5. ASSUME NEW d \in DOMAIN held, NEW n \in Sizes, Grow(d, n) PROVE HeapInv'
  BY <1>5, GrowStep, HeapAssumption
<1>6. ASSUME NEW d \in DOMAIN held, NEW n \in Sizes, Move(d, n) PROVE HeapInv'
  BY <1>6, MoveStep, HeapAssumption
<1>7. CASE UNCHANGED vars
  BY <1>7 DEF HeapInv, vars
<1> QED
  BY <1>1, <1>2, <1>3, <1>4, <1>5, <1>6, <1>7, HeapAssumption DEF Next

-----------------------------------------------------------------------------
\* Whatever the application asks for, in whatever order, the list keeps its
\* invariant.
THEOREM HeapInvariant == Spec => []HeapInv
<1>1. Init => HeapInv
  BY HeapInit
<1>2. HeapInv /\ [Next]_vars => HeapInv'
  BY HeapStep
<1> QED
  BY <1>1, <1>2, PTL DEF Spec

\* The chunks are records of the list and the blocks are numbers (struct chunk).
THEOREM HeapTypes == Spec => []TypeOK
  BY HeapInvariant, HeapInvImplies, PTL

\* No call of malloc, memalign, realloc or free loses a byte of the heap or has
\* two chunks share one: split and merge_with_next keep both links right.
THEOREM HeapTiled == Spec => []Tiled
  BY HeapInvariant, HeapInvImplies, PTL

\* What the application holds is never given to anyone else, and is of the size
\* that was asked for, aligned or not, moved or not.
THEOREM HeapHeld == Spec => []HeldIsUsed
  BY HeapInvariant, HeapInvImplies, PTL

\* Once all is freed, newly_free has made the heap one chunk again.
THEOREM HeapWhole == Spec => []MadeWhole
<1>1. HeapInv => MadeWhole
  <2> SUFFICES ASSUME HeapInv, DOMAIN held = {}, NEW a \in DOMAIN chunk, a # Start
               PROVE  FALSE
    BY DEF MadeWhole, HeapInv, Sound, WellFormed
  <2>1. WellFormed(chunk) /\ Settled(chunk, NULL) /\ Start \in DOMAIN chunk
    BY DEF HeapInv, Sound, WellFormed
  <2>2. \A c \in DOMAIN chunk : chunk[c].status = FREE
    BY <2>1, Ascending DEF HeapInv, Sound, Owned
  <2>3. chunk[Start].next = NULL
    <3> SUFFICES ASSUME chunk[Start].next # NULL PROVE FALSE
      OBVIOUS
    <3>1. Start # NULL /\ chunk[Start].next \in DOMAIN chunk
      BY <2>1, Ascending
    <3> QED
      BY <2>1, <2>2, <3>1 DEF Settled
  <2>4. After(chunk, Start) = Top
    BY <2>1, <2>3 DEF WellFormed, LinkedOn
  <2>5. Start < a /\ a \in Nat /\ chunk[a].size \in Nat /\ Start \in Nat
    BY <2>1, Ascending, HeapAssumption DEF WellFormed, Inside
  <2>6. Top <= a
    BY <2>1, <2>4, <2>5 DEF WellFormed, Apart
  <2>7. After(chunk, a) <= Top
    BY <2>1 DEF WellFormed, Inside
  <2> QED
    BY <2>5, <2>6, <2>7, HeapSize DEF After, DataFor
<1> QED
  BY <1>1, HeapInvariant, PTL
=============================================================================
