----------------------------- MODULE HeapLemmas -----------------------------
(***************************************************************************)
(* Lemmas about the operators of MM, in three parts: the words of the      *)
(* arena, boundary tags and free lists; how blocks tile the heap; and      *)
(* heaps in the middle of a call, with one lemma per kind of step that     *)
(* mm.c makes: unlink, link, write tags, merge, split, extend.             *)
(***************************************************************************)
EXTENDS MMInv, TLAPS

USE DEF WSIZE, DSIZE, ALIGNMENT, NULL
-----------------------------------------------------------------------------
\* Arithmetic of boundary tags.

\* A tag holds the size and the bit that were packed into it.
LEMMA PackParts ==
  ASSUME NEW s \in Nat, s % 8 = 0, NEW x \in {0, 1}
  PROVE  /\ PACK(s, x) \in Nat
         /\ GET_SIZE(PACK(s, x)) = s
         /\ GET_ALLOC(PACK(s, x)) = x
BY DEF PACK, GET_SIZE, GET_ALLOC

\* The size field of any word is a multiple of 8.
LEMMA SizeField ==
  ASSUME NEW w \in Nat
  PROVE  /\ GET_SIZE(w) \in Nat /\ GET_SIZE(w) % 8 = 0
         /\ GET_SIZE(w) <= w /\ w <= GET_SIZE(w) + 7
         /\ GET_ALLOC(w) \in {0, 1}
BY DEF GET_SIZE, GET_ALLOC

\* Sums and differences of multiples of 8.
LEMMA Aligned8 ==
  ASSUME NEW x \in Int, NEW y \in Int, x % 8 = 0, y % 8 = 0
  PROVE  (x + y) % 8 = 0 /\ (x - y) % 8 = 0
OBVIOUS

\* The words around a block pointer are word-aligned.
LEMMA Words8 ==
  ASSUME NEW x \in Int, x % 8 = 0
  PROVE  /\ x % 4 = 0 /\ (x - 4) % 4 = 0 /\ (x + 4) % 4 = 0
         /\ (x - 8) % 4 = 0 /\ (x + 8) % 4 = 0
OBVIOUS
-----------------------------------------------------------------------------
\* Addresses.

\* The addresses of the list heads.
Heads == {BucketAddr(k) : k \in Buckets}

\* A place for a block: its header and its two links are words of the arena.
Spot(b) == b \in Nat /\ b % 8 = 0 /\ FirstBlk <= b /\ b + 32 <= mem_max_addr

\* Places for blocks that do not overlap.
Spots(F) == /\ \A b \in F : Spot(b)
            /\ \A b, c \in F : b < c => b + 32 <= c

\* The list heads and the first block lie in the arena, in this order.
LEMMA Layout ==
  /\ mem_start_brk \in Nat /\ mem_max_addr \in Nat /\ FirstBlk \in Nat
  /\ FirstBlk % 8 = 0 /\ mem_max_addr % 8 = 0
  /\ mem_start_brk + 16 <= FirstBlk /\ FirstBlk <= mem_max_addr
  /\ mem_max_addr - FirstBlk <= MAX_HEAP
  /\ BUCKETS_COUNT \in Nat
  /\ FirstBlk = mem_start_brk + 4 * BUCKETS_COUNT + 16
<1>1. PICK j \in Nat : BUCKETS_COUNT = 2 * j
  BY LayoutAssumption
<1>2. FirstBlk = mem_start_brk + 8 * (j + 2)
  BY <1>1, ArenaAssumption DEF FirstBlk
<1> QED
  BY <1>1, <1>2, ArenaAssumption, LayoutAssumption DEF mem_max_addr

\* An aligned address between the ends of the arena is a word of it.
LEMMA InArena ==
  ASSUME NEW a \in Int, mem_start_brk <= a, a < mem_max_addr, a % 4 = 0
  PROVE  a \in Arena
BY Layout DEF Arena

\* A word of the arena is an aligned address between its ends.
LEMMA ArenaInt ==
  ASSUME NEW a \in Arena
  PROVE  a \in Nat /\ mem_start_brk <= a /\ a < mem_max_addr /\ a % 4 = 0
BY Layout DEF Arena

\* The list heads are words of the arena, below the prologue.
LEMMA HeadsInArena ==
  ASSUME NEW a \in Heads
  PROVE  a \in Arena /\ a \in Nat /\ a < FirstBlk - 16 /\ a # NULL
<1>1. PICK k \in Buckets : a = mem_start_brk + k * 4
  BY DEF Heads, BucketAddr, mem_heap_lo
<1>2. k \in Nat /\ k < BUCKETS_COUNT
  BY <1>1, Layout DEF Buckets
<1> QED
  BY <1>1, <1>2, Layout, InArena, ArenaAssumption

\* The header and the two links of a block are words of the arena.
LEMMA SpotWords ==
  ASSUME NEW b, Spot(b)
  PROVE  b - 4 \in Arena /\ b \in Arena /\ b + 4 \in Arena /\ b # NULL
BY Layout, Words8, InArena DEF Spot
-----------------------------------------------------------------------------
\* The free lists.  bk gives the list head that each block belongs to.

Typed(m) == m \in [Arena -> Nat]

\* Linked, with the bucket of a block given by the function bk.
LinkedBy(m, F, bk) ==
  /\ \A h \in Heads : m[h] # NULL => /\ m[h] \in F
                                     /\ bk[m[h]] = h
                                     /\ m[m[h] + 4] = NULL
  /\ \A b \in F :
       /\ m[b] # NULL => /\ m[b] \in F
                         /\ bk[m[b]] = bk[b]
                         /\ m[m[b] + 4] = b
       /\ m[b + 4] # NULL => /\ m[b + 4] \in F
                             /\ bk[m[b + 4]] = bk[b]
                             /\ m[m[b + 4]] = b
       /\ m[b + 4] = NULL => m[bk[b]] = b
  /\ Anchored(m, F)

\* The words that the lists of the blocks F use.
ListWords(F) == Heads \union F \union {b + 4 : b \in F}

\* PUT changes one word.
LEMMA PutTyped ==
  ASSUME NEW m, Typed(m), NEW a \in Arena, NEW v \in Nat
  PROVE  /\ Typed(PUT(m, a, v))
         /\ \A x \in Arena : PUT(m, a, v)[x] = IF x = a THEN v ELSE m[x]
BY DEF Typed, PUT

\* Lists are not disturbed by writes to other words.
LEMMA LinkedFrame ==
  ASSUME NEW m, NEW m2, NEW F, NEW bk, LinkedBy(m, F, bk),
         \A b \in F : bk[b] \in Heads,
         \A a \in ListWords(F) : m2[a] = m[a]
  PROVE  LinkedBy(m2, F, bk)
<1>1. \A b \in F : m2[b] = m[b] /\ m2[b + 4] = m[b + 4]
  BY DEF ListWords
<1>2. Anchored(m2, F)
  BY <1>1 DEF LinkedBy, Anchored, GET
<1> QED
  BY <1>2 DEF LinkedBy, ListWords

\* add_to_bucket puts an unlisted block on its list.
LEMMA AddLinked ==
  ASSUME NEW m, Typed(m), NEW F, NEW b, b \notin F,
         NEW F2, F2 = F \union {b}, Spots(F2),
         NEW bk, \A f \in F2 : bk[f] \in Heads,
         LinkedBy(m, F, bk),
         NEW m2, m2 = add_to_bucket(m, b, bk[b])
  PROVE  /\ Typed(m2)
         /\ LinkedBy(m2, F2, bk)
         /\ \A a \in Arena \ ListWords(F2) : m2[a] = m[a]
<1> DEFINE h == bk[b]
           first == m[h]
<1>1. h \in Heads /\ h \in Arena /\ h \in Nat /\ h < FirstBlk - 16 /\ h # NULL
  BY HeadsInArena
<1>2. \A f \in F2 : /\ f \in Nat /\ FirstBlk <= f /\ f # NULL
                              /\ f \in Arena /\ f + 4 \in Arena
  BY SpotWords DEF Spots, Spot
<1>3. first # NULL => first \in F /\ bk[first] = h /\ m[first + 4] = NULL
  BY <1>1 DEF LinkedBy
<1>4. /\ Typed(m2)
      /\ \A a \in Arena :
           m2[a] = IF a = h THEN b
                   ELSE IF a = b THEN first
                   ELSE IF a = b + 4 THEN NULL
                   ELSE IF first # NULL /\ a = first + 4 THEN b
                   ELSE m[a]
  <2> DEFINE c1 == PUT(m, b, NULL)
             c2 == PUT(c1, b + 4, NULL)
             d1 == PUT(c2, first + 4, b)
             d2 == PUT(d1, b, first)
  <2>1. Typed(c1) /\ Typed(c2)
        /\ \A a \in Arena : c2[a] = IF a = b \/ a = b + 4 THEN NULL ELSE m[a]
    BY <1>2 DEF Typed, PUT
  <2>2. first \in Nat
    BY <1>1 DEF Typed
  <2>3. CASE first = NULL
    <3>1. m2 = PUT(c2, h, b)
      BY <2>3 DEF add_to_bucket, GET
    <3>2. Typed(m2) /\ \A a \in Arena : m2[a] = IF a = h THEN b ELSE c2[a]
      BY <3>1, <2>1, <1>1, <1>2 DEF Typed, PUT
    <3> QED
      BY <3>2, <2>1, <2>3, <1>1, <1>2
  <2>4. CASE first # NULL
    <3>1. m2 = PUT(d2, h, b)
      BY <2>4 DEF add_to_bucket, GET
    <3>2. first + 4 \in Arena
      BY <2>4, <1>2, <1>3
    <3> HIDE DEF c1, c2
    <3>3. Typed(d1) /\ \A a \in Arena : d1[a] = IF a = first + 4 THEN b ELSE c2[a]
      BY <2>1, <3>2, <1>2 DEF Typed, PUT
    <3> HIDE DEF d1
    <3>4. Typed(d2) /\ \A a \in Arena : d2[a] = IF a = b THEN first ELSE d1[a]
      BY <3>3, <2>2, <1>2 DEF Typed, PUT
    <3> HIDE DEF d2
    <3>5. Typed(m2) /\ \A a \in Arena : m2[a] = IF a = h THEN b ELSE d2[a]
      BY <3>1, <3>4, <1>1, <1>2 DEF Typed, PUT
    <3>6. first # b /\ first + 4 # b + 4
      BY <1>3, <2>4, <1>2
    <3> QED
      BY <3>3, <3>4, <3>5, <3>6, <2>1, <2>4
  <2> QED
    BY <2>3, <2>4
<1>5. \A f, g \in F2 : f # g + 4 /\ (f # g => f + 4 # g + 4)
  BY <1>2 DEF Spots
<1>6. \A x \in Heads : x \in Arena /\ \A f \in F2 : x # f /\ x # f + 4
  BY <1>2, HeadsInArena, Layout
<1>7. /\ m2[h] = b /\ m2[b] = first /\ m2[b + 4] = NULL
      /\ first # NULL => m2[first + 4] = b
      /\ \A x \in Heads : x # h => m2[x] = m[x]
      /\ \A f \in F : m2[f] = m[f]
      /\ \A f \in F : f # first => m2[f + 4] = m[f + 4]
  BY <1>1, <1>2, <1>3, <1>4, <1>5, <1>6
<1>8. \A x \in Heads : m2[x] # NULL => /\ m2[x] \in F2
                                       /\ bk[m2[x]] = x
                                       /\ m2[m2[x] + 4] = NULL
  <2> SUFFICES ASSUME NEW x \in Heads, m2[x] # NULL
               PROVE  /\ m2[x] \in F2
                      /\ bk[m2[x]] = x
                      /\ m2[m2[x] + 4] = NULL
    OBVIOUS
  <2>1. CASE x = h
    BY <2>1, <1>7
  <2>2. CASE x # h
    <3>1. m[x] \in F /\ bk[m[x]] = x /\ m[m[x] + 4] = NULL
      BY <2>2, <1>7 DEF LinkedBy
    <3>2. m[x] # first
      BY <3>1, <2>2, <1>3, <1>2
    <3> QED
      BY <3>1, <3>2, <2>2, <1>7
  <2> QED
    BY <2>1, <2>2
<1>9. ASSUME NEW f \in F2
      PROVE  /\ m2[f] # NULL => /\ m2[f] \in F2
                                /\ bk[m2[f]] = bk[f]
                                /\ m2[m2[f] + 4] = f
             /\ m2[f + 4] # NULL => /\ m2[f + 4] \in F2
                                    /\ bk[m2[f + 4]] = bk[f]
                                    /\ m2[m2[f + 4]] = f
             /\ m2[f + 4] = NULL => m2[bk[f]] = f
  <2>1. CASE f = b
    BY <2>1, <1>3, <1>7
  <2>2. CASE f \in F /\ f = first
    <3>1. bk[f] = h /\ m[f + 4] = NULL /\ first # NULL
      BY <2>2, <1>2, <1>3
    <3>2. m[f] # NULL => m[f] \in F /\ bk[m[f]] = bk[f] /\ m[m[f] + 4] = f
      BY <2>2 DEF LinkedBy
    <3>3. m[f] # NULL => m[f] # first
      BY <3>1, <3>2, <2>2, <1>2
    <3> QED
      BY <3>1, <3>2, <3>3, <2>2, <1>7, <1>2
  <2>3. CASE f \in F /\ f # first
    <3>1. m[f] # NULL => m[f] \in F /\ bk[m[f]] = bk[f] /\ m[m[f] + 4] = f
      BY <2>3 DEF LinkedBy
    <3>2. m[f] # NULL => m[f] # first
      BY <3>1, <2>3, <1>2, <1>3
    <3>3. m[f + 4] # NULL => /\ m[f + 4] \in F /\ bk[m[f + 4]] = bk[f]
                             /\ m[m[f + 4]] = f
      BY <2>3 DEF LinkedBy
    <3>4. m[f + 4] = NULL => m[bk[f]] = f
      BY <2>3 DEF LinkedBy
    <3>5. m[f + 4] = NULL => bk[f] # h
      BY <3>4, <2>3
    <3> QED
      BY <3>1, <3>2, <3>3, <3>4, <3>5, <2>3, <1>7
  <2> QED
    BY <2>1, <2>2, <2>3
<1>10. \A a \in Arena \ ListWords(F2) : m2[a] = m[a]
  BY <1>1, <1>3, <1>4 DEF ListWords
<1>11. ASSUME NEW S \in SUBSET F2, S # {}
       PROVE  \E f \in S : m2[f + 4] \notin S
  <2>1. CASE b \in S
    BY <2>1, <1>2, <1>7
  <2>2. CASE b \notin S
    <3>1. S \in SUBSET F
      BY <2>2
    <3>2. PICK f \in S : m[f + 4] \notin S
      BY <3>1, <1>11 DEF LinkedBy, Anchored, GET
    <3>3. f \in F /\ f # NULL
      BY <3>1, <1>2
    <3>4. CASE f = first
      BY <3>3, <3>4, <2>2, <1>7
    <3>5. CASE f # first
      BY <3>2, <3>3, <3>5, <1>7
    <3> QED
      BY <3>4, <3>5
  <2> QED
    BY <2>1, <2>2
<1>12. Anchored(m2, F2)
  BY <1>11 DEF Anchored, GET
<1> QED
  BY <1>4, <1>8, <1>9, <1>10, <1>12 DEF LinkedBy

\* remove_from_bucket takes a listed block off its list, without a search.
LEMMA RemoveLinked ==
  ASSUME NEW m, Typed(m), NEW F, NEW b \in F, Spots(F),
         NEW bk, \A f \in F : bk[f] \in Heads,
         LinkedBy(m, F, bk),
         NEW m2, m2 = remove_from_bucket(m, b, bk[b])
  PROVE  /\ Typed(m2)
         /\ LinkedBy(m2, F \ {b}, bk)
         /\ \A a \in Arena \ ListWords(F) : m2[a] = m[a]
<1> DEFINE h == bk[b]
           next == m[b]
           prev == m[b + 4]
<1>1. h \in Heads /\ h \in Arena /\ h \in Nat /\ h < FirstBlk - 16 /\ h # NULL
  BY HeadsInArena
<1>2. \A f \in F : /\ f \in Nat /\ FirstBlk <= f /\ f # NULL
                   /\ f \in Arena /\ f + 4 \in Arena
  BY SpotWords DEF Spots, Spot
<1>3. /\ next # NULL => next \in F /\ bk[next] = h /\ m[next + 4] = b
      /\ prev # NULL => prev \in F /\ bk[prev] = h /\ m[prev] = b
      /\ prev = NULL <=> m[h] = b
  BY <1>1, <1>2 DEF LinkedBy
<1>4. next \in Nat /\ prev \in Nat
  BY <1>2 DEF Typed
<1>5. \A f, g \in F : f # g + 4 /\ (f # g => f + 4 # g + 4)
  BY <1>2 DEF Spots
<1>6. \A x \in Heads : x \in Arena /\ \A f \in F : x # f /\ x # f + 4
  BY <1>2, HeadsInArena, Layout
<1>7. /\ Typed(m2)
      /\ \A a \in Arena :
           m2[a] = IF a = (IF prev = NULL THEN h ELSE prev) THEN next
                   ELSE IF next # NULL /\ a = next + 4 THEN prev
                   ELSE m[a]
  <2> DEFINE c1 == PUT(m, h, next)
             d1 == PUT(m, prev, next)
  <2>1. CASE prev = NULL
    <3>1. Typed(c1) /\ \A a \in Arena : c1[a] = IF a = h THEN next ELSE m[a]
      BY <1>1, <1>4 DEF Typed, PUT
    <3>2. c1[b] = next
      BY <3>1, <1>2, <1>6, <1>1
    <3>3. m2 = IF next # NULL THEN PUT(c1, next + 4, NULL) ELSE c1
      BY <2>1, <3>2, <1>3 DEF remove_from_bucket, GET
    <3> HIDE DEF c1
    <3>4. CASE next = NULL
      BY <3>1, <3>3, <3>4, <2>1
    <3>5. CASE next # NULL
      <4>1. next + 4 \in Arena /\ next + 4 # h
        BY <3>5, <1>1, <1>2, <1>3, <1>6
      <4> QED
        BY <4>1, <3>1, <3>3, <3>5, <2>1 DEF Typed, PUT
    <3> QED
      BY <3>4, <3>5
  <2>2. CASE prev # NULL
    <3>0. prev \in Arena
      BY <2>2, <1>2, <1>3
    <3>1. Typed(d1) /\ \A a \in Arena : d1[a] = IF a = prev THEN next ELSE m[a]
      BY <3>0, <1>4 DEF Typed, PUT
    <3>2. d1[prev] = next
      BY <3>0, <3>1
    <3>3. m2 = IF next # NULL THEN PUT(d1, next + 4, prev) ELSE d1
      BY <2>2, <3>2, <1>3 DEF remove_from_bucket, GET
    <3> HIDE DEF d1
    <3>4. CASE next = NULL
      BY <3>1, <3>3, <3>4, <2>2
    <3>5. CASE next # NULL
      <4>1. next + 4 \in Arena /\ next + 4 # prev
        BY <3>5, <2>2, <1>2, <1>3, <1>5
      <4> QED
        BY <4>1, <3>1, <3>3, <3>5, <2>2, <1>4 DEF Typed, PUT
    <3> QED
      BY <3>4, <3>5
  <2> QED
    BY <2>1, <2>2
<1>8. /\ prev = NULL => m2[h] = next
      /\ prev # NULL => m2[prev] = next
      /\ next # NULL => m2[next + 4] = prev
      /\ \A x \in Heads : ~(x = h /\ prev = NULL) => m2[x] = m[x]
      /\ \A f \in F : f # prev => m2[f] = m[f]
      /\ \A f \in F : f # next => m2[f + 4] = m[f + 4]
  <2>1. prev = NULL => m2[h] = next
    BY <1>1, <1>7
  <2>2. prev # NULL => m2[prev] = next
    BY <1>2, <1>3, <1>7
  <2>3. next # NULL => m2[next + 4] = prev
    BY <1>1, <1>2, <1>3, <1>5, <1>6, <1>7
  <2>4. ASSUME NEW x \in Heads, ~(x = h /\ prev = NULL) PROVE m2[x] = m[x]
    BY <2>4, <1>3, <1>6, <1>7
  <2>5. ASSUME NEW f \in F, f # prev PROVE m2[f] = m[f]
    BY <2>5, <1>1, <1>2, <1>3, <1>5, <1>6, <1>7
  <2>6. ASSUME NEW f \in F, f # next PROVE m2[f + 4] = m[f + 4]
    BY <2>6, <1>1, <1>2, <1>3, <1>5, <1>6, <1>7
  <2> QED
    BY <2>1, <2>2, <2>3, <2>4, <2>5, <2>6
<1>9. ASSUME NEW x \in Heads, m2[x] # NULL
      PROVE  /\ m2[x] \in F \ {b}
             /\ bk[m2[x]] = x
             /\ m2[m2[x] + 4] = NULL
  <2>1. CASE x = h /\ prev = NULL
    BY <2>1, <1>9, <1>3, <1>8, <1>2
  <2>2. CASE ~(x = h /\ prev = NULL)
    <3>1. m2[x] = m[x]
      BY <2>2, <1>8
    <3>2. m[x] \in F /\ bk[m[x]] = x /\ m[m[x] + 4] = NULL
      BY <3>1, <1>9 DEF LinkedBy
    <3>3. m[x] # b
      BY <3>2, <2>2, <1>3
    <3>4. m[x] # next
      BY <3>2, <1>2, <1>3
    <3> QED
      BY <3>1, <3>2, <3>3, <3>4, <1>8
  <2> QED
    BY <2>1, <2>2
<1>10. ASSUME NEW f \in F \ {b}
       PROVE  /\ m2[f] # NULL => /\ m2[f] \in F \ {b}
                                 /\ bk[m2[f]] = bk[f]
                                 /\ m2[m2[f] + 4] = f
              /\ m2[f + 4] # NULL => /\ m2[f + 4] \in F \ {b}
                                     /\ bk[m2[f + 4]] = bk[f]
                                     /\ m2[m2[f + 4]] = f
              /\ m2[f + 4] = NULL => m2[bk[f]] = f
  <2>1. /\ m[f] # NULL => m[f] \in F /\ bk[m[f]] = bk[f] /\ m[m[f] + 4] = f
        /\ m[f + 4] # NULL => m[f + 4] \in F /\ bk[m[f + 4]] = bk[f] /\ m[m[f + 4]] = f
        /\ m[f + 4] = NULL => m[bk[f]] = f
    BY DEF LinkedBy
  <2>2. m2[f] # NULL => m2[f] \in F \ {b} /\ bk[m2[f]] = bk[f] /\ m2[m2[f] + 4] = f
    <3>1. CASE f = prev
      BY <3>1, <1>2, <1>3, <1>8
    <3>2. CASE f # prev
      <4>1. m2[f] = m[f] /\ m[f] # b
        BY <3>2, <2>1, <1>8, <1>2
      <4>2. m[f] # NULL => m[f] # next
        BY <2>1, <1>3
      <4> QED
        BY <4>1, <4>2, <2>1, <1>8
    <3> QED
      BY <3>1, <3>2
  <2>3. m2[f + 4] # NULL => /\ m2[f + 4] \in F \ {b} /\ bk[m2[f + 4]] = bk[f]
                            /\ m2[m2[f + 4]] = f
    <3>1. CASE f = next
      BY <3>1, <1>2, <1>3, <1>8
    <3>2. CASE f # next
      <4>1. m2[f + 4] = m[f + 4] /\ m[f + 4] # b
        BY <3>2, <2>1, <1>8, <1>2
      <4>2. m[f + 4] # NULL => m[f + 4] # prev
        BY <2>1, <1>3
      <4> QED
        BY <4>1, <4>2, <2>1, <1>8
    <3> QED
      BY <3>1, <3>2
  <2>4. m2[f + 4] = NULL => m2[bk[f]] = f
    <3>1. CASE f = next
      BY <3>1, <1>2, <1>3, <1>8
    <3>2. CASE f # next
      <4>1. m2[f + 4] = m[f + 4]
        BY <3>2, <1>8
      <4>2. m[f + 4] = NULL => ~(bk[f] = h /\ prev = NULL)
        BY <2>1, <1>3
      <4> QED
        BY <4>1, <4>2, <2>1, <1>8
    <3> QED
      BY <3>1, <3>2
  <2> QED
    BY <2>2, <2>3, <2>4
<1>11. \A a \in Arena \ ListWords(F) : m2[a] = m[a]
  BY <1>1, <1>3, <1>7 DEF ListWords
<1>12. ASSUME NEW S \in SUBSET (F \ {b}), S # {}
       PROVE  \E f \in S : m2[f + 4] \notin S
  <2>1. CASE next \in S
    <3>0. S \union {b} \in SUBSET F /\ S \union {b} # {}
      OBVIOUS
    <3>1. PICK f \in S \union {b} : m[f + 4] \notin S \union {b}
      BY <3>0 DEF LinkedBy, Anchored, GET
    <3>a. next \in F /\ next # NULL
      BY <2>1, <1>2
    <3>2. CASE f = b
      <4>1. prev \notin S /\ m2[next + 4] = prev
        BY <3>1, <3>2, <3>a, <1>8
      <4> QED
        BY <4>1, <2>1
    <3>3. CASE f # b
      BY <3>1, <3>3, <3>a, <2>1, <1>3, <1>8
    <3> QED
      BY <3>2, <3>3
  <2>2. CASE next \notin S
    <3>1. PICK f \in S : m[f + 4] \notin S
      BY <1>12 DEF LinkedBy, Anchored, GET
    <3> QED
      BY <3>1, <2>2, <1>8
  <2> QED
    BY <2>1, <2>2
<1>13. Anchored(m2, F \ {b})
  BY <1>12 DEF Anchored, GET
<1> QED
  BY <1>7, <1>9, <1>10, <1>11, <1>13 DEF LinkedBy
-----------------------------------------------------------------------------
\* How blocks tile the heap, apart from what the words of memory hold: merging
\* neighbours, splitting a block, adding one at the end.

\* Blocks at the addresses B, of the sizes sz, tile FirstBlk .. brk.
Shape(B, sz, brk) ==
  /\ B \subseteq Nat
  /\ brk \in Nat /\ brk % 8 = 0 /\ FirstBlk <= brk /\ brk <= mem_max_addr
  /\ FirstBlk \in B \union {brk}
  /\ \A b \in B : /\ b % 8 = 0 /\ FirstBlk <= b
                  /\ sz[b] \in Nat /\ sz[b] % 8 = 0 /\ sz[b] >= 32
                  /\ b + sz[b] <= brk /\ b + sz[b] \in B \union {brk}
  /\ \A b, c \in B : b < c => b + sz[b] <= c
  /\ \A b \in B \union {brk} : b # FirstBlk => \E c \in B : c + sz[c] = b

\* The words of a block from its header to its footer.
Words(b, size) == {a \in Arena : b - 4 <= a /\ a <= b + size - 8}

\* Blocks do not overlap and end at or before the break.
LEMMA ShapeSpots ==
  ASSUME NEW B, NEW sz, NEW brk, Shape(B, sz, brk)
  PROVE  Spots(B) /\ brk \notin B /\ \A b \in B : b < brk
<1>1. \A b \in B : b \in Nat /\ sz[b] \in Nat /\ sz[b] >= 32 /\ b + sz[b] <= brk
                   /\ b % 8 = 0 /\ FirstBlk <= b
  BY DEF Shape
<1>2. brk \in Nat /\ brk <= mem_max_addr /\ mem_max_addr \in Nat /\ FirstBlk \in Nat
  BY Layout DEF Shape
<1>3. \A b, c \in B : b < c => b + sz[b] <= c
  BY DEF Shape
<1>4. \A b \in B : Spot(b) /\ b < brk
  BY <1>1, <1>2 DEF Spot
<1>5. \A b, c \in B : b < c => b + 32 <= c
  BY <1>1, <1>3
<1> QED
  BY <1>2, <1>4, <1>5 DEF Spots

\* The tags of a block, its links and the words around the heap are words of
\* the arena.
LEMMA ShapeWords ==
  ASSUME NEW B, NEW sz, NEW brk, Shape(B, sz, brk)
  PROVE  /\ \A b \in B : /\ b - 4 \in Arena /\ b \in Arena /\ b + 4 \in Arena
                         /\ b + sz[b] - 8 \in Arena
         /\ brk - 4 \in Arena /\ FirstBlk - 12 \in Arena /\ FirstBlk - 8 \in Arena
<1>1. ASSUME NEW b \in B PROVE b + sz[b] - 8 \in Arena
  <2>1. /\ b \in Nat /\ sz[b] \in Nat /\ sz[b] >= 32 /\ b % 8 = 0 /\ sz[b] % 8 = 0
        /\ FirstBlk <= b /\ b + sz[b] <= brk /\ brk \in Nat /\ brk <= mem_max_addr
    BY DEF Shape
  <2>2. (b + sz[b]) % 8 = 0
    BY <2>1, Aligned8
  <2>3. (b + sz[b] - 8) % 4 = 0
    BY <2>1, <2>2, Words8
  <2> QED
    BY <2>1, <2>3, Layout, InArena
<1>2. \A b \in B : b - 4 \in Arena /\ b \in Arena /\ b + 4 \in Arena
  BY ShapeSpots, SpotWords DEF Spots
<1>3. brk - 4 \in Arena /\ FirstBlk - 12 \in Arena /\ FirstBlk - 8 \in Arena
  <2>1. brk \in Nat /\ brk % 8 = 0 /\ FirstBlk <= brk /\ brk <= mem_max_addr
    BY DEF Shape
  <2> QED
    BY <2>1, Layout, Words8, InArena
<1> QED
  BY <1>1, <1>2, <1>3

\* The tags of a block are no words of another block, of the lists or of the
\* ends of the heap.
LEMMA TagsApart ==
  ASSUME NEW B, NEW sz, NEW brk, Shape(B, sz, brk), NEW x \in B,
         NEW a \in {x - 4, x + sz[x] - 8}
  PROVE  /\ \A b \in B : b # x => a \notin Words(b, sz[b])
         /\ \A b \in B : b # x => a # b - 4 /\ a # b + sz[b] - 8
         /\ \A b \in B : b # x => a # b /\ a # b + 4
         /\ a # x /\ a # x + 4
         /\ a \notin Heads
         /\ a # brk - 4 /\ a # FirstBlk - 12 /\ a # FirstBlk - 8
<1>1. /\ x \in Nat /\ sz[x] \in Nat /\ sz[x] >= 32 /\ FirstBlk <= x
      /\ x % 8 = 0 /\ sz[x] % 8 = 0 /\ x + sz[x] <= brk
      /\ brk \in Nat /\ brk % 8 = 0 /\ FirstBlk \in Nat
  BY Layout DEF Shape
<1>2. ASSUME NEW b \in B, b # x
      PROVE  /\ a \notin Words(b, sz[b]) /\ a # b - 4 /\ a # b + sz[b] - 8
             /\ a # b /\ a # b + 4
  <2>1. b \in Nat /\ sz[b] \in Nat /\ sz[b] >= 32 /\ FirstBlk <= b
    BY DEF Shape
  <2>2. b + sz[b] <= x \/ x + sz[x] <= b
    <3>1. (b < x => b + sz[b] <= x) /\ (x < b => x + sz[x] <= b)
      BY DEF Shape
    <3> QED
      BY <3>1, <1>1, <1>2, <2>1
  <2> QED
    BY <1>1, <2>1, <2>2 DEF Words
<1>3. a \notin Heads
  BY <1>1, HeadsInArena
<1>4. a # brk - 4
  <2>1. \A s \in Nat : s % 8 = 0 => x + s - 8 # brk - 4
    BY <1>1
  <2>2. x + sz[x] - 8 # brk - 4
    BY <1>1, <2>1
  <2>3. x - 4 # brk - 4
    BY <1>1
  <2> QED
    BY <2>2, <2>3
<1> QED
  BY <1>1, <1>2, <1>3, <1>4

\* The words that lists use are no words of a block outside the lists.
LEMMA ListsApart ==
  ASSUME NEW B, NEW sz, NEW brk, Shape(B, sz, brk), NEW F, F \subseteq B,
         NEW a \in ListWords(F)
  PROVE  /\ \A c \in B : c \notin F => a \notin Words(c, sz[c])
         /\ \A c \in B : a # c - 4 /\ a # c + sz[c] - 8
         /\ a # brk - 4 /\ a # FirstBlk - 12 /\ a # FirstBlk - 8
<1>0. brk \in Nat /\ FirstBlk \in Nat /\ FirstBlk <= brk
      /\ \A c \in B : c \in Nat /\ sz[c] \in Nat /\ sz[c] >= 32 /\ FirstBlk <= c
                      /\ c + sz[c] <= brk
  BY Layout DEF Shape
<1>1. CASE a \in Heads
  <2>1. a \in Nat /\ a < FirstBlk - 16
    BY <1>1, HeadsInArena
  <2> QED
    BY <1>0, <2>1 DEF Words
<1>2. CASE a \notin Heads
  <2>1. PICK f \in F : a = f \/ a = f + 4
    BY <1>2 DEF ListWords
  <2>2. \A c \in B : c # f => f + sz[f] <= c \/ c + sz[c] <= f
    BY <1>0, SMTT(30) DEF Shape
  <2> QED
    BY <2>1, <2>2, <1>0 DEF Words
<1> QED
  BY <1>1, <1>2

\* The sizes once block y has been joined to block x before it.
Merge(B, sz, x, y) ==
  [b \in B \ {y} |-> IF b = x THEN sz[x] + sz[y] ELSE sz[b]]

\* A block and its successor taken as one: coalesce.
LEMMA ShapeMerge ==
  ASSUME NEW B, NEW sz, NEW brk, Shape(B, sz, brk),
         NEW x \in B, NEW y \in B, x + sz[x] = y
  PROVE  Shape(B \ {y}, Merge(B, sz, x, y), brk)
<1> DEFINE B2 == B \ {y}
           s2 == Merge(B, sz, x, y)
<1>0. /\ B \subseteq Nat
      /\ brk \in Nat /\ brk % 8 = 0 /\ FirstBlk <= brk /\ brk <= mem_max_addr
      /\ FirstBlk \in B \union {brk} /\ FirstBlk \in Nat
  BY Layout DEF Shape
<1>1. \A b \in B : /\ b % 8 = 0 /\ FirstBlk <= b
                   /\ sz[b] \in Nat /\ sz[b] % 8 = 0 /\ sz[b] >= 32
                   /\ b + sz[b] <= brk /\ b + sz[b] \in B \union {brk}
  BY DEF Shape
<1>2. \A b, c \in B : b < c => b + sz[b] <= c
  BY DEF Shape
<1>3. \A b \in B \union {brk} : b # FirstBlk => \E c \in B : c + sz[c] = b
  BY DEF Shape
<1>4. x \in B2 /\ x < y /\ y # FirstBlk /\ y # brk
  BY <1>0, <1>1
<1>5. s2[x] = sz[x] + sz[y] /\ \A b \in B2 : b # x => s2[b] = sz[b]
  BY <1>4 DEF Merge
<1> HIDE DEF s2
<1>6. x + s2[x] = y + sz[y] /\ s2[x] \in Nat /\ s2[x] >= 32
  BY <1>0, <1>1, <1>5
<1>7. s2[x] % 8 = 0
  BY <1>1, <1>5, Aligned8
<1>8. \A b \in B : b + sz[b] = y => b = x
  <2> SUFFICES ASSUME NEW b \in B, b + sz[b] = y, b # x PROVE FALSE
    OBVIOUS
  <2>1. (b < x => b + sz[b] <= x) /\ (x < b => x + sz[x] <= b)
    BY <1>2
  <2> QED
    BY <2>1, <1>0, <1>1, <1>4
<1>9. ASSUME NEW b \in B2
      PROVE  /\ b % 8 = 0 /\ FirstBlk <= b
             /\ s2[b] \in Nat /\ s2[b] % 8 = 0 /\ s2[b] >= 32
             /\ b + s2[b] <= brk /\ b + s2[b] \in B2 \union {brk}
  <2>1. CASE b = x
    <3>1. y + sz[y] # y
      BY <1>0, <1>1
    <3> QED
      BY <2>1, <3>1, <1>1, <1>6, <1>7
  <2>2. CASE b # x
    BY <2>2, <1>1, <1>5, <1>8
  <2> QED
    BY <2>1, <2>2
<1>10. ASSUME NEW b \in B2, NEW c \in B2, b < c PROVE b + s2[b] <= c
  <2>1. CASE b = x
    <3>1. c # y /\ c \in Nat /\ y \in Nat
      BY <1>0
    <3>2. x + sz[x] <= c
      BY <1>2, <1>10, <2>1
    <3>3. y < c
      BY <3>1, <3>2
    <3> QED
      BY <3>3, <2>1, <1>2, <1>6
  <2>2. CASE b # x
    BY <2>2, <1>2, <1>5, <1>10
  <2> QED
    BY <2>1, <2>2
<1>11. ASSUME NEW b \in B2 \union {brk}, b # FirstBlk
       PROVE  \E c \in B2 : c + s2[c] = b
  <2>1. PICK c \in B : c + sz[c] = b
    BY <1>3, <1>11
  <2>2. CASE c = y
    BY <2>1, <2>2, <1>4, <1>6
  <2>3. CASE c # y
    <3>1. c # x
      BY <2>1, <1>4
    <3> QED
      BY <3>1, <2>1, <2>3, <1>5
  <2> QED
    BY <2>2, <2>3
<1>12. FirstBlk \in B2 \union {brk} /\ B2 \subseteq Nat
  BY <1>0, <1>4
<1>13. \A b, c \in B2 : b < c => b + s2[b] <= c
  BY <1>10
<1>14. \A b \in B2 \union {brk} : b # FirstBlk => \E c \in B2 : c + s2[c] = b
  BY <1>11
<1> QED
  BY <1>0, <1>9, <1>12, <1>13, <1>14 DEF Shape, s2

\* The sizes once the first n bytes of block x have become a block.
Split(B, sz, x, n) ==
  [b \in B \union {x + n} |->
     IF b = x THEN n ELSE IF b = x + n THEN sz[x] - n ELSE sz[b]]

\* A block cut in two: place.
LEMMA ShapeSplit ==
  ASSUME NEW B, NEW sz, NEW brk, Shape(B, sz, brk), NEW x \in B,
         NEW n \in Nat, n % 8 = 0, n >= 32, sz[x] - n >= 32
  PROVE  Shape(B \union {x + n}, Split(B, sz, x, n), brk) /\ x + n \notin B
<1> DEFINE B2 == B \union {x + n}
           s2 == Split(B, sz, x, n)
<1>0. /\ B \subseteq Nat
      /\ brk \in Nat /\ brk % 8 = 0 /\ FirstBlk <= brk /\ brk <= mem_max_addr
      /\ FirstBlk \in B \union {brk} /\ FirstBlk \in Nat
  BY Layout DEF Shape
<1>1. \A b \in B : /\ b % 8 = 0 /\ FirstBlk <= b
                   /\ sz[b] \in Nat /\ sz[b] % 8 = 0 /\ sz[b] >= 32
                   /\ b + sz[b] <= brk /\ b + sz[b] \in B \union {brk}
  BY DEF Shape
<1>2. \A b, c \in B : b < c => b + sz[b] <= c
  BY DEF Shape
<1>3. \A b \in B \union {brk} : b # FirstBlk => \E c \in B : c + sz[c] = b
  BY DEF Shape
<1>4. x \in Nat /\ sz[x] \in Nat /\ x + n \in Nat /\ x < x + n /\ x + n < x + sz[x]
  BY <1>0, <1>1
<1>5. x + n \notin B
  BY <1>0, <1>2, <1>4
<1>6. s2[x] = n /\ s2[x + n] = sz[x] - n /\ \A b \in B : b # x => s2[b] = sz[b]
  BY <1>4, <1>5 DEF Split
<1> HIDE DEF s2
<1>7. (x + n) % 8 = 0 /\ (sz[x] - n) % 8 = 0
  <2>1. x % 8 = 0 /\ sz[x] % 8 = 0
    BY <1>1
  <2>2. \A s \in Nat : s % 8 = 0 => (s + n) % 8 = 0 /\ (s - n) % 8 = 0
    OBVIOUS
  <2> QED
    BY <2>1, <2>2, <1>4
<1>8. ASSUME NEW b \in B2
      PROVE  /\ b % 8 = 0 /\ FirstBlk <= b
             /\ s2[b] \in Nat /\ s2[b] % 8 = 0 /\ s2[b] >= 32
             /\ b + s2[b] <= brk /\ b + s2[b] \in B2 \union {brk}
  <2>1. CASE b = x
    BY <2>1, <1>0, <1>1, <1>4, <1>6
  <2>2. CASE b = x + n
    <3>1. b + s2[b] = x + sz[x] /\ s2[b] = sz[x] - n
      BY <2>2, <1>4, <1>6
    <3>2. x + sz[x] <= brk /\ x + sz[x] \in B \union {brk} /\ FirstBlk <= x
      BY <1>1
    <3>3. FirstBlk <= b /\ s2[b] \in Nat /\ s2[b] >= 32
      BY <3>1, <3>2, <2>2, <1>0, <1>4
    <3> QED
      BY <3>1, <3>2, <3>3, <2>2, <1>7
  <2>3. CASE b \in B /\ b # x
    BY <2>3, <1>1, <1>6
  <2> QED
    BY <2>1, <2>2, <2>3
<1>9. ASSUME NEW b \in B2, NEW c \in B2, b < c PROVE b + s2[b] <= c
  <2>0. \A d \in B : d \in Nat /\ sz[d] \in Nat
    BY <1>0, <1>1
  <2>1. CASE b = x + n /\ c \in B
    <3>1. x < c
      BY <2>0, <2>1, <1>4, <1>9
    <3>2. x + sz[x] <= c
      BY <3>1, <2>1, <1>2
    <3> QED
      BY <3>2, <2>1, <1>4, <1>6
  <2>2. CASE b = x /\ c \in B
    <3>1. x + sz[x] <= c
      BY <2>2, <1>2, <1>9
    <3> QED
      BY <3>1, <2>0, <2>2, <1>4, <1>6
  <2>3. CASE b \in B /\ b # x /\ c \in B
    BY <2>3, <1>2, <1>6, <1>9
  <2>4. CASE b \in B /\ b # x /\ c = x + n
    <3>1. (b < x => b + sz[b] <= x) /\ (x < b => x + sz[x] <= b)
      BY <1>2, <2>4
    <3>2. b < x
      BY <3>1, <2>0, <2>4, <1>4, <1>9
    <3> QED
      BY <3>1, <3>2, <2>0, <2>4, <1>4, <1>6
  <2>5. CASE b = x /\ c = x + n
    BY <2>5, <1>6
  <2>6. ~(b = x + n /\ c = x + n)
    BY <1>9, <1>4
  <2> QED
    BY <2>1, <2>2, <2>3, <2>4, <2>5, <2>6
<1>10. ASSUME NEW b \in B2 \union {brk}, b # FirstBlk
       PROVE  \E c \in B2 : c + s2[c] = b
  <2>1. CASE b = x + n
    BY <2>1, <1>6
  <2>2. CASE b # x + n
    <3>1. PICK c \in B : c + sz[c] = b
      BY <2>2, <1>3, <1>10
    <3>2. CASE c = x
      <4>1. x + n + s2[x + n] = b
        BY <3>1, <3>2, <1>4, <1>6
      <4> QED
        BY <4>1
    <3>3. CASE c # x
      BY <3>1, <3>3, <1>6
    <3> QED
      BY <3>2, <3>3
  <2> QED
    BY <2>1, <2>2
<1>11. FirstBlk \in B2 \union {brk} /\ B2 \subseteq Nat
  BY <1>0, <1>4
<1>12. \A b, c \in B2 : b < c => b + s2[b] <= c
  BY <1>9
<1>13. \A b \in B2 \union {brk} : b # FirstBlk => \E c \in B2 : c + s2[c] = b
  BY <1>10
<1> QED
  BY <1>0, <1>5, <1>8, <1>11, <1>12, <1>13 DEF Shape, s2

\* The sizes once a block of n bytes has been added at the break.
Grown(B, sz, brk, n) == [b \in B \union {brk} |-> IF b = brk THEN n ELSE sz[b]]

\* A block added at the break: extend_heap.
LEMMA ShapeAppend ==
  ASSUME NEW B, NEW sz, NEW brk, Shape(B, sz, brk),
         NEW n \in Nat, n % 8 = 0, n >= 32, brk + n <= mem_max_addr
  PROVE  Shape(B \union {brk}, Grown(B, sz, brk, n), brk + n)
<1> DEFINE B2 == B \union {brk}
           s2 == Grown(B, sz, brk, n)
<1>0. /\ B \subseteq Nat
      /\ brk \in Nat /\ brk % 8 = 0 /\ FirstBlk <= brk /\ brk <= mem_max_addr
      /\ FirstBlk \in B \union {brk} /\ FirstBlk \in Nat
  BY Layout DEF Shape
<1>1. \A b \in B : /\ b % 8 = 0 /\ FirstBlk <= b
                   /\ sz[b] \in Nat /\ sz[b] % 8 = 0 /\ sz[b] >= 32
                   /\ b + sz[b] <= brk /\ b + sz[b] \in B \union {brk}
  BY DEF Shape
<1>2. \A b, c \in B : b < c => b + sz[b] <= c
  BY DEF Shape
<1>3. \A b \in B \union {brk} : b # FirstBlk => \E c \in B : c + sz[c] = b
  BY DEF Shape
<1>4. brk \notin B /\ \A b \in B : b < brk
  BY ShapeSpots
<1>5. s2[brk] = n /\ \A b \in B : s2[b] = sz[b]
  BY <1>4 DEF Grown
<1> HIDE DEF s2
<1>6. (brk + n) % 8 = 0 /\ brk + n \in Nat /\ brk < brk + n
  BY <1>0, Aligned8
<1>7. ASSUME NEW b \in B2
      PROVE  /\ b % 8 = 0 /\ FirstBlk <= b
             /\ s2[b] \in Nat /\ s2[b] % 8 = 0 /\ s2[b] >= 32
             /\ b + s2[b] <= brk + n /\ b + s2[b] \in B2 \union {brk + n}
  <2>1. CASE b = brk
    BY <2>1, <1>0, <1>5, <1>6
  <2>2. CASE b \in B
    <3>1. b + s2[b] <= brk /\ b + s2[b] \in Nat
      BY <2>2, <1>0, <1>1, <1>5
    <3> QED
      BY <2>2, <3>1, <1>0, <1>1, <1>5, <1>6
  <2> QED
    BY <2>1, <2>2
<1>8. \A b, c \in B2 : b < c => b + s2[b] <= c
  <2> SUFFICES ASSUME NEW b \in B2, NEW c \in B2, b < c PROVE b + s2[b] <= c
    OBVIOUS
  <2>1. b \in B
    BY <1>0, <1>4
  <2> QED
    BY <2>1, <1>1, <1>2, <1>5
<1>9. ASSUME NEW b \in B2 \union {brk + n}, b # FirstBlk
      PROVE  \E c \in B2 : c + s2[c] = b
  <2>1. CASE b = brk + n
    BY <2>1, <1>5
  <2>2. CASE b # brk + n
    BY <2>2, <1>3, <1>5, <1>9
  <2> QED
    BY <2>1, <2>2
<1>10. \A b \in B2 \union {brk + n} : b # FirstBlk => \E c \in B2 : c + s2[c] = b
  BY <1>9
<1>11. FirstBlk \in B2 \union {brk + n} /\ B2 \subseteq Nat /\ FirstBlk <= brk + n
  BY <1>0, <1>6
<1> QED
  BY <1>6, <1>7, <1>8, <1>10, <1>11 DEF Shape, s2
-----------------------------------------------------------------------------
\* Heaps in the middle of a call: the blocks tile the heap, the blocks T carry
\* their tags and the blocks F, which are free, are on the lists.

\* The list head that each block belongs to.
Bk(B, sz) == [b \in B |-> find_bucket(sz[b] \div 4)]

\* Both tags of the block b of the given size are w.
Bears(m, b, size, w) == m[b - 4] = w /\ m[b + size - 8] = w

Marked(m, T, sz) ==
  \A b \in T : /\ m[b - 4] = sz[b] \/ m[b - 4] = sz[b] + 1
               /\ m[b + sz[b] - 8] = m[b - 4]

Ends(m, brk) == m[brk - 4] = 1 /\ m[FirstBlk - 12] = 9 /\ m[FirstBlk - 8] = 9

\* The memories m and m2 differ at most at the addresses S.
Agree(m, m2, S) == \A a \in Arena \ S : m2[a] = m[a]

Heap(m, B, sz, brk, T, F) ==
  /\ Typed(m) /\ Shape(B, sz, brk)
  /\ T \subseteq B /\ F \subseteq T
  /\ Marked(m, T, sz) /\ Ends(m, brk)
  /\ \A b \in F : m[b - 4] = sz[b]
  /\ LinkedBy(m, F, Bk(B, sz))

\* What a tag of size s says.
LEMMA TagWord ==
  ASSUME NEW s \in Nat, s % 8 = 0, NEW w, w = s \/ w = s + 1
  PROVE  /\ w \in Nat /\ GET_SIZE(w) = s
         /\ GET_ALLOC(w) = 0 <=> w = s
         /\ GET_ALLOC(w) = 1 <=> w = s + 1
<1>1. CASE w = s
  BY <1>1 DEF GET_SIZE, GET_ALLOC
<1>2. CASE w = s + 1
  BY <1>2 DEF GET_SIZE, GET_ALLOC
<1> QED
  BY <1>1, <1>2

\* Every block size has a list.
LEMMA FindBucket ==
  ASSUME NEW s \in Nat, s % 8 = 0, 0 < s, s <= MAX_HEAP
  PROVE  find_bucket(s \div 4) \in Heads
<1>1. (s \div 4) * 4 = s
  BY Words8
<1>2. s \in 1 .. MAX_HEAP
  BY ArenaAssumption
<1>3. PICK k \in Buckets : IsBucketFor(k, s)
  BY <1>2, LayoutAssumption
<1>4. \E k1 \in Buckets : IsBucketFor(k1, (s \div 4) * 4)
  BY <1>1, <1>3
<1> DEFINE c == CHOOSE k2 \in Buckets : IsBucketFor(k2, (s \div 4) * 4)
<1>5. c \in Buckets
  BY <1>4
<1>6. find_bucket(s \div 4) = BucketAddr(c)
  BY <1>4 DEF find_bucket
<1> QED
  BY <1>5, <1>6 DEF Heads

\* Every block has a list.
LEMMA BkHeads ==
  ASSUME NEW B, NEW sz, NEW brk, Shape(B, sz, brk), NEW b \in B
  PROVE  Bk(B, sz)[b] \in Heads /\ Bk(B, sz)[b] = find_bucket(sz[b] \div 4)
<1>1. /\ b \in Nat /\ sz[b] \in Nat /\ sz[b] % 8 = 0 /\ sz[b] >= 32
      /\ FirstBlk <= b /\ b + sz[b] <= brk /\ brk <= mem_max_addr /\ brk \in Nat
  BY DEF Shape
<1>2. 0 < sz[b] /\ sz[b] <= MAX_HEAP
  BY <1>1, Layout, ArenaAssumption
<1> QED
  BY <1>1, <1>2, FindBucket DEF Bk

\* The size field of a tagged block.
LEMMA HeapSize ==
  ASSUME NEW m, NEW B, NEW sz, NEW brk, NEW T, NEW F,
         Heap(m, B, sz, brk, T, F), NEW b \in T
  PROVE  /\ GET_SIZE(m[b - 4]) = sz[b] /\ SizeAt(m, b) = sz[b]
         /\ NEXT_BLKP(m, b) = b + sz[b] /\ FTRP(m, b) = b + sz[b] - 8
         /\ IsFree(m, b) <=> m[b - 4] = sz[b]
         /\ GET_ALLOC(m[b - 4]) = 0 <=> m[b - 4] = sz[b]
         /\ GET_ALLOC(m[b - 4]) = 1 <=> m[b - 4] = sz[b] + 1
<1>1. sz[b] \in Nat /\ sz[b] % 8 = 0 /\ (m[b - 4] = sz[b] \/ m[b - 4] = sz[b] + 1)
  BY DEF Heap, Shape, Marked
<1> DEFINE w == m[b - 4]
           s == sz[b]
<1>2. w = s \/ w = s + 1
  BY <1>1
<1>3. s \in Nat /\ s % 8 = 0
  BY <1>1
<1> HIDE DEF w, s
<1>4. GET_SIZE(w) = s /\ (GET_ALLOC(w) = 0 <=> w = s) /\ (GET_ALLOC(w) = 1 <=> w = s + 1)
  BY <1>2, <1>3, TagWord
<1> QED
  BY <1>4 DEF w, s, SizeAt, NEXT_BLKP, FTRP, IsFree, GET, HDRP

\* Writes that miss tags and lists.
LEMMA HeapFrame ==
  ASSUME NEW m, NEW B, NEW sz, NEW brk, NEW T, NEW F,
         Heap(m, B, sz, brk, T, F), NEW m2, Typed(m2),
         \A b \in T : m2[b - 4] = m[b - 4] /\ m2[b + sz[b] - 8] = m[b + sz[b] - 8],
         Ends(m2, brk),
         \A a \in ListWords(F) : m2[a] = m[a]
  PROVE  Heap(m2, B, sz, brk, T, F)
<1>1. \A b \in F : Bk(B, sz)[b] \in Heads
  BY BkHeads DEF Heap
<1>2. LinkedBy(m2, F, Bk(B, sz))
  BY <1>1, LinkedFrame DEF Heap
<1> QED
  BY <1>2 DEF Heap, Marked

\* remove_from_seglist unlinks a listed block.
LEMMA HeapRemove ==
  ASSUME NEW m, NEW B, NEW sz, NEW brk, NEW T, NEW F,
         Heap(m, B, sz, brk, T, F), NEW x \in F,
         NEW m2, m2 = remove_from_seglist(m, x)
  PROVE  Heap(m2, B, sz, brk, T, F \ {x}) /\ Agree(m, m2, ListWords(F))
<1> DEFINE bk == Bk(B, sz)
<1>0. /\ Typed(m) /\ Shape(B, sz, brk) /\ T \subseteq B /\ F \subseteq T
      /\ F \subseteq B /\ Marked(m, T, sz) /\ Ends(m, brk) /\ LinkedBy(m, F, bk)
  BY DEF Heap
<1>1. \A b \in F : bk[b] \in Heads
  BY <1>0, BkHeads
<1>2. Spots(F)
  BY <1>0, ShapeSpots DEF Spots
<1>3. m2 = remove_from_bucket(m, x, bk[x])
  <2>1. GET_SIZE(m[x - 4]) = sz[x]
    BY <1>0, HeapSize
  <2>2. bk[x] = find_bucket(sz[x] \div 4)
    BY <1>0, BkHeads
  <2> QED
    BY <2>1, <2>2 DEF remove_from_seglist, GET, HDRP
<1> HIDE DEF bk
<1>4. /\ Typed(m2) /\ LinkedBy(m2, F \ {x}, bk)
      /\ \A a \in Arena \ ListWords(F) : m2[a] = m[a]
  BY <1>0, <1>1, <1>2, <1>3, RemoveLinked
<1>5. \A b \in B : /\ b - 4 \in Arena /\ b + sz[b] - 8 \in Arena
                   /\ b - 4 \notin ListWords(F) /\ b + sz[b] - 8 \notin ListWords(F)
  BY <1>0, ShapeWords, ListsApart
<1>6. brk - 4 \in Arena \ ListWords(F) /\ FirstBlk - 12 \in Arena \ ListWords(F)
      /\ FirstBlk - 8 \in Arena \ ListWords(F)
  BY <1>0, ShapeWords, ListsApart
<1>7. Ends(m2, brk)
  BY <1>0, <1>4, <1>6 DEF Ends
<1>8. \A b \in T : m2[b - 4] = m[b - 4] /\ m2[b + sz[b] - 8] = m[b + sz[b] - 8]
  BY <1>0, <1>4, <1>5
<1>9. Marked(m2, T, sz)
  BY <1>0, <1>8 DEF Marked
<1>10. \A b \in F \ {x} : m2[b - 4] = sz[b]
  BY <1>0, <1>8 DEF Heap
<1>11. Heap(m2, B, sz, brk, T, F \ {x})
  BY <1>0, <1>4, <1>7, <1>9, <1>10 DEF Heap, bk
<1> QED
  BY <1>4, <1>11 DEF Agree

\* add_to_seglist links a free block.
LEMMA HeapAdd ==
  ASSUME NEW m, NEW B, NEW sz, NEW brk, NEW T, NEW F,
         Heap(m, B, sz, brk, T, F), NEW x \in T, x \notin F, m[x - 4] = sz[x],
         NEW m2, m2 = add_to_seglist(m, x)
  PROVE  /\ Heap(m2, B, sz, brk, T, F \union {x})
         /\ Agree(m, m2, ListWords(F \union {x}))
<1> DEFINE bk == Bk(B, sz)
           F2 == F \union {x}
<1>0. /\ Typed(m) /\ Shape(B, sz, brk) /\ T \subseteq B /\ F2 \subseteq T
      /\ F2 \subseteq B /\ Marked(m, T, sz) /\ Ends(m, brk) /\ LinkedBy(m, F, bk)
  BY DEF Heap
<1>1. \A b \in F2 : bk[b] \in Heads
  BY <1>0, BkHeads
<1>2. Spots(F2)
  BY <1>0, ShapeSpots DEF Spots
<1>3. m2 = add_to_bucket(m, x, bk[x])
  <2>1. GET_SIZE(m[x - 4]) = sz[x]
    BY <1>0, HeapSize
  <2>2. bk[x] = find_bucket(sz[x] \div 4)
    BY <1>0, BkHeads
  <2> QED
    BY <2>1, <2>2 DEF add_to_seglist, GET, HDRP
<1> HIDE DEF bk
<1>4. /\ Typed(m2) /\ LinkedBy(m2, F2, bk)
      /\ \A a \in Arena \ ListWords(F2) : m2[a] = m[a]
  <2>1. Typed(m) /\ LinkedBy(m, F, bk)
    BY <1>0
  <2> HIDE DEF F2
  <2>2. F2 = F \union {x}
    BY DEF F2
  <2>3. Typed(m2) /\ LinkedBy(m2, F2, bk)
    BY <2>1, <2>2, <1>1, <1>2, <1>3, AddLinked
  <2>4. \A a \in Arena \ ListWords(F2) : m2[a] = m[a]
    BY <2>1, <2>2, <1>1, <1>2, <1>3, AddLinked
  <2> QED
    BY <2>3, <2>4
<1>5. \A b \in B : /\ b - 4 \in Arena /\ b + sz[b] - 8 \in Arena
                   /\ b - 4 \notin ListWords(F2) /\ b + sz[b] - 8 \notin ListWords(F2)
  BY <1>0, ShapeWords, ListsApart
<1>6. brk - 4 \in Arena \ ListWords(F2) /\ FirstBlk - 12 \in Arena \ ListWords(F2)
      /\ FirstBlk - 8 \in Arena \ ListWords(F2)
  BY <1>0, ShapeWords, ListsApart
<1>7. Ends(m2, brk)
  BY <1>0, <1>4, <1>6 DEF Ends
<1>8. \A b \in T : m2[b - 4] = m[b - 4] /\ m2[b + sz[b] - 8] = m[b + sz[b] - 8]
  BY <1>0, <1>4, <1>5
<1>9. Marked(m2, T, sz)
  BY <1>0, <1>8 DEF Marked
<1>10. \A b \in F2 : m2[b - 4] = sz[b]
  BY <1>0, <1>8 DEF Heap
<1>11. Heap(m2, B, sz, brk, T, F2)
  BY <1>0, <1>4, <1>7, <1>9, <1>10 DEF Heap, bk
<1> QED
  BY <1>4, <1>11 DEF Agree

\* Both tags of an unlisted block are written.
LEMMA HeapTag ==
  ASSUME NEW m, NEW B, NEW sz, NEW brk, NEW T, NEW F,
         Heap(m, B, sz, brk, T, F), NEW x \in B, x \notin F,
         NEW w, w = sz[x] \/ w = sz[x] + 1,
         NEW m2, Typed(m2), Bears(m2, x, sz[x], w),
         Agree(m, m2, {x - 4, x + sz[x] - 8})
  PROVE  Heap(m2, B, sz, brk, T \union {x}, F)
<1>0. /\ Typed(m) /\ Shape(B, sz, brk) /\ T \subseteq B /\ F \subseteq T
      /\ Marked(m, T, sz) /\ Ends(m, brk) /\ LinkedBy(m, F, Bk(B, sz))
      /\ \A b \in F : m[b - 4] = sz[b]
  BY DEF Heap
<1>a. \A a \in Arena : a # x - 4 /\ a # x + sz[x] - 8 => m2[a] = m[a]
  BY DEF Agree
<1>1. \A b \in B : /\ b - 4 \in Arena /\ b \in Arena /\ b + 4 \in Arena
                   /\ b + sz[b] - 8 \in Arena
  BY <1>0, ShapeWords
<1>2. \A b \in B : b # x => /\ m2[b - 4] = m[b - 4]
                            /\ m2[b + sz[b] - 8] = m[b + sz[b] - 8]
                            /\ m2[b] = m[b] /\ m2[b + 4] = m[b + 4]
  BY <1>0, <1>1, <1>a, TagsApart
<1>3. \A h \in Heads : m2[h] = m[h]
  BY <1>0, <1>a, TagsApart, HeadsInArena
<1>4. Ends(m2, brk)
  BY <1>0, <1>a, ShapeWords, TagsApart DEF Ends
<1>5. \A a \in ListWords(F) : m2[a] = m[a]
  BY <1>0, <1>2, <1>3 DEF ListWords
<1>6. \A b \in F : Bk(B, sz)[b] \in Heads
  BY <1>0, BkHeads
<1>7. LinkedBy(m2, F, Bk(B, sz))
  BY <1>0, <1>5, <1>6, LinkedFrame
<1>8. Marked(m2, T \union {x}, sz)
  BY <1>0, <1>2 DEF Marked, Bears
<1>9. \A b \in F : m2[b - 4] = sz[b]
  BY <1>0, <1>2
<1> QED
  BY <1>0, <1>4, <1>7, <1>8, <1>9 DEF Heap

\* Lists depend on the buckets of their own blocks only.
LEMMA LinkedBk ==
  ASSUME NEW m, NEW F, NEW bk, NEW bk2, LinkedBy(m, F, bk),
         \A f \in F : bk2[f] = bk[f]
  PROVE  LinkedBy(m, F, bk2)
BY DEF LinkedBy

\* Two neighbours that are not listed are taken for one block; its tags are
\* still to be written.
LEMMA HeapMerge ==
  ASSUME NEW m, NEW B, NEW sz, NEW brk, NEW T, NEW F,
         Heap(m, B, sz, brk, T, F), NEW x \in B, NEW y \in B,
         x \notin F, y \notin F, x + sz[x] = y
  PROVE  Heap(m, B \ {y}, Merge(B, sz, x, y), brk, T \ {x, y}, F)
<1> DEFINE s2 == Merge(B, sz, x, y)
<1>0. /\ Typed(m) /\ Shape(B, sz, brk) /\ T \subseteq B /\ F \subseteq T
      /\ Marked(m, T, sz) /\ Ends(m, brk) /\ LinkedBy(m, F, Bk(B, sz))
      /\ \A b \in F : m[b - 4] = sz[b]
  BY DEF Heap
<1>1. Shape(B \ {y}, s2, brk)
  BY <1>0, ShapeMerge
<1>2. \A b \in B \ {x, y} : s2[b] = sz[b]
  BY DEF Merge
<1>3. \A f \in F : Bk(B \ {y}, s2)[f] = Bk(B, sz)[f]
  BY <1>0, <1>2 DEF Bk
<1> HIDE DEF s2
<1>4. LinkedBy(m, F, Bk(B \ {y}, s2))
  BY <1>0, <1>3, LinkedBk
<1>5. Marked(m, T \ {x, y}, s2)
  BY <1>0, <1>2 DEF Marked
<1>6. \A f \in F : m[f - 4] = s2[f]
  BY <1>0, <1>2
<1> QED
  BY <1>0, <1>1, <1>4, <1>5, <1>6 DEF Heap, s2

\* An unlisted block is taken for two; their tags are still to be written.
LEMMA HeapSplit ==
  ASSUME NEW m, NEW B, NEW sz, NEW brk, NEW T, NEW F,
         Heap(m, B, sz, brk, T, F), NEW x \in B, x \notin F,
         NEW n \in Nat, n % 8 = 0, n >= 32, sz[x] - n >= 32
  PROVE  Heap(m, B \union {x + n}, Split(B, sz, x, n), brk, T \ {x}, F)
<1> DEFINE s2 == Split(B, sz, x, n)
<1>0. /\ Typed(m) /\ Shape(B, sz, brk) /\ T \subseteq B /\ F \subseteq T
      /\ Marked(m, T, sz) /\ Ends(m, brk) /\ LinkedBy(m, F, Bk(B, sz))
      /\ \A b \in F : m[b - 4] = sz[b]
  BY DEF Heap
<1>1. Shape(B \union {x + n}, s2, brk) /\ x + n \notin B
  BY <1>0, ShapeSplit
<1>2. \A b \in B \ {x} : s2[b] = sz[b]
  BY <1>1 DEF Split
<1>3. \A f \in F : Bk(B \union {x + n}, s2)[f] = Bk(B, sz)[f]
  BY <1>0, <1>2 DEF Bk
<1> HIDE DEF s2
<1>4. LinkedBy(m, F, Bk(B \union {x + n}, s2))
  BY <1>0, <1>3, LinkedBk
<1>5. Marked(m, T \ {x}, s2)
  BY <1>0, <1>2 DEF Marked
<1>6. \A f \in F : m[f - 4] = s2[f]
  BY <1>0, <1>2
<1>7. T \ {x} \subseteq B \union {x + n} /\ F \subseteq T \ {x}
  BY <1>0
<1> QED
  BY <1>0, <1>1, <1>4, <1>5, <1>6, <1>7 DEF Heap, s2
=============================================================================
