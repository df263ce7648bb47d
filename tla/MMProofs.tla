------------------------------ MODULE MMProofs ------------------------------
(***************************************************************************)
(* The safety of mm.c for every arena, every list count, every chunk size  *)
(* and every set of ordinary request sizes: MM's invariants are invariants *)
(* of its specification, and mm.c implements Allocator.                    *)
(***************************************************************************)
EXTENDS CallLemmas, FiniteSetTheorems

USE DEF WSIZE, DSIZE, ALIGNMENT, NULL

\* The size of the block that serves an ordinary request.
LEMMA NeedSize ==
  ASSUME NEW size \in Sizes, NEW need, need = ALIGN(size + OVERHEAD)
  PROVE  /\ need = ALIGN((size + OVERHEAD) % SIZE_MOD)
         /\ size \in Nat /\ need \in Nat /\ need % 8 = 0
         /\ size + 32 <= need
         /\ mem_max_addr + need < SIZE_MOD
<1>0. /\ SIZE_MOD \in Nat /\ mem_max_addr \in Nat /\ size \in Nat
      /\ mem_max_addr + size + 40 < SIZE_MOD
  BY ArenaAssumption, Layout, OrdinarySizes, CallerAssumption DEF OVERHEAD
<1>1. (size + 32) % SIZE_MOD = size + 32 /\ (size + 39) % SIZE_MOD = size + 39
  BY <1>0
<1>2. need = (size + 39) - ((size + 39) % 8)
  BY <1>0, <1>1 DEF ALIGN, OVERHEAD
<1>3. need = ALIGN((size + OVERHEAD) % SIZE_MOD)
  BY <1>1 DEF OVERHEAD
<1> QED
  BY <1>0, <1>2, <1>3

\* Exactly which requests mm_malloc turns into a block that is too short: those
\* for which size + OVERHEAD, or its rounding in ALIGN, wraps around a word
\* (mm.c:194).  Every other word is a size that is served with room to spare,
\* so OrdinarySizes excludes no more than what wraps and what is beyond the
\* arena anyway.
THEOREM ShortOnlyIfWraps ==
  ASSUME SIZE_MOD > 64, NEW size \in 0 .. (SIZE_MOD - 1),
         NEW need, need = ALIGN((size + OVERHEAD) % SIZE_MOD)
  PROVE  size + 4 * WSIZE <= need <=> size + OVERHEAD + (ALIGNMENT - 1) < SIZE_MOD
<1>0. SIZE_MOD \in Nat /\ size \in Nat /\ size < SIZE_MOD
  BY ArenaAssumption
<1> DEFINE sum == (size + 32) % SIZE_MOD
           up == (sum + 7) % SIZE_MOD
<1>1. need = up - (up % 8)
  BY DEF ALIGN, OVERHEAD
<1>2. CASE size + 39 < SIZE_MOD
  <2>1. sum = size + 32 /\ up = size + 39
    BY <1>0, <1>2
  <2> QED
    BY <1>0, <1>1, <1>2, <2>1 DEF OVERHEAD
<1>3. CASE size + 32 < SIZE_MOD /\ size + 39 >= SIZE_MOD
  <2>1. sum = size + 32
    BY <1>0, <1>3
  <2>2. up = size + 39 - SIZE_MOD
    BY <1>0, <1>3, <2>1
  <2> QED
    BY <1>0, <1>1, <1>3, <2>2 DEF OVERHEAD
<1>4. CASE size + 32 >= SIZE_MOD
  <2>1. sum = size + 32 - SIZE_MOD
    BY <1>0, <1>4
  <2>2. up = size + 39 - SIZE_MOD
    BY <1>0, <1>4, <2>1
  <2> QED
    BY <1>0, <1>1, <1>4, <2>2 DEF OVERHEAD
<1> QED
  BY <1>0, <1>2, <1>3, <1>4

\* mm_malloc from the free block on: the caller gets a payload of its own.
LEMMA DeliverMalloc ==
  ASSUME NEW m, NEW B, NEW sz, NEW brk, NEW F, NEW lv,
         Good(m, B, sz, brk, F, lv), NEW bp \in F,
         NEW size \in Sizes, NEW n, n = ALIGN(size + OVERHEAD), n <= sz[bp],
         NEW tag \in Nat,
         NEW m2, m2 = Fill(place(m, bp, n), bp + 8, size, tag),
         NEW h, h = [size |-> size, kept |-> size, tag |-> tag]
  PROVE  \E s2, F2 : Good(m2, PlaceTile(B, m, bp, n), s2, brk, F2, Hold(lv, bp + 8, h))
<1> DEFINE m1 == place(m, bp, n)
<1>0. size \in Nat /\ n \in Nat /\ n % 8 = 0 /\ size + 32 <= n
  BY NeedSize
<1>1. Whole(m, B, sz, brk, F) /\ bp \in Nat
  BY WholeFacts DEF Good
<1>2. PICK B1, s1, F1 : Placement(m, B, sz, brk, F, bp, n, m1, B1, s1, F1)
  BY <1>0, <1>1, PlaceWhole
<1>3. B1 = PlaceTile(B, m, bp, n) /\ Typed(m1)
  BY <1>2, WholeFacts DEF Placement
<1>4. h.size = size /\ h.kept = size /\ h.tag = tag
  OBVIOUS
<1> HIDE DEF m1
<1>5. /\ Typed(m2)
      /\ \A a \in Arena : m2[a] = IF bp + 8 <= a /\ a < bp + 8 + size THEN tag ELSE m1[a]
  BY <1>3 DEF Typed, Fill, m1
<1>6. Good(m2, B1, s1, brk, F1, Hold(lv, bp + 8, h))
  <2>1. h.size \in Nat /\ h.kept \in Nat /\ h.kept <= h.size /\ h.size + 16 <= n
    BY <1>0, <1>4
  <2>2. \A a \in Arena : ~(bp + 8 <= a /\ a < bp + 8 + h.size) => m2[a] = m1[a]
    BY <1>4, <1>5
  <2>3. \A a \in Arena : bp + 8 <= a /\ a < bp + 8 + h.kept => m2[a] = h.tag
    BY <1>4, <1>5
  <2> QED
    BY <2>1, <2>2, <2>3, <1>0, <1>2, <1>5, HoldGood
<1> QED
  BY <1>3, <1>6

\* Giving up one payload and getting another commute.
LEMMA DropHold ==
  ASSUME NEW lv, NEW p, NEW q, p # q, NEW h
  PROVE  Drop(Hold(lv, p, h), q) = Hold(Drop(lv, q), p, h)
<1>1. DOMAIN Drop(Hold(lv, p, h), q) = (DOMAIN lv \ {q}) \union {p}
      /\ DOMAIN Hold(Drop(lv, q), p, h) = (DOMAIN lv \ {q}) \union {p}
  BY DEF Drop, Hold
<1>2. \A r \in (DOMAIN lv \ {q}) \union {p} :
        Drop(Hold(lv, p, h), q)[r] = Hold(Drop(lv, q), p, h)[r]
  BY DEF Drop, Hold
<1> QED
  BY <1>1, <1>2 DEF Drop, Hold

\* The distance between two words is a whole number of words.
LEMMA WordShift ==
  ASSUME NEW q \in Nat, NEW a \in Nat, NEW p \in Nat, NEW s,
         q % 4 = 0, a % 4 = 0, p % 4 = 0, s = q + (a - p)
  PROVE  s % 4 = 0
OBVIOUS

\* mm_realloc from the free block on: the new payload has the old contents,
\* up to the shorter of the two sizes, and the old one is free.
LEMMA DeliverRealloc ==
  ASSUME NEW m, NEW B, NEW sz, NEW brk, NEW F, NEW lv,
         Good(m, B, sz, brk, F, lv), NEW bp \in F,
         NEW size \in Sizes, NEW n, n = ALIGN(size + OVERHEAD), n <= sz[bp],
         NEW q \in DOMAIN lv,
         NEW m1, m1 = place(m, bp, n),
         NEW m2, m2 = memcpy(m1, bp + 8, q, CopyLen(m1, q, size)),
         NEW fr, fr = free_block(m2, q),
         NEW h, h = [size |-> size,
                     kept |-> IF size < lv[q].kept THEN size ELSE lv[q].kept,
                     tag |-> lv[q].tag],
         NEW B1, B1 = PlaceTile(B, m, bp, n)
  PROVE  \E s2, F2 : Good(fr.mem, Retile(B1, fr.mem, fr.bp), s2, brk, F2,
                          Hold(Drop(lv, q), bp + 8, h))
<1> DEFINE p == bp + 8
           x == q - 8
           len == CopyLen(m1, q, size)
           kept == h.kept
<1>0. size \in Nat /\ n \in Nat /\ n % 8 = 0 /\ size + 32 <= n
  BY NeedSize
<1>1. Whole(m, B, sz, brk, F) /\ bp \in Nat /\ bp % 8 = 0 /\ F \subseteq B
  BY WholeFacts DEF Good
<1>2. /\ q \in Nat /\ x \in B \ F /\ lv[q].size \in Nat /\ lv[q].kept \in Nat
      /\ lv[q].kept <= lv[q].size /\ lv[q].size + 16 <= sz[x]
      /\ \A a \in Arena : q <= a /\ a < q + lv[q].kept => m[a] = lv[q].tag
  BY DEF Good, Owns
<1>3. x \in Nat /\ sz[x] \in Nat /\ x % 8 = 0 /\ Shape(B, sz, brk)
  BY <1>1, <1>2, WholeFacts
<1>4. PICK B3, s1, F1 : Placement(m, B, sz, brk, F, bp, n, m1, B3, s1, F1)
  BY <1>0, <1>1, PlaceWhole
<1>5. /\ B3 = B1 /\ Whole(m1, B1, s1, brk, F1) /\ Kept(B \ F, sz, m, s1, m1)
      /\ B1 \ F1 = (B \ F) \union {bp}
  BY <1>4 DEF Placement
<1>6. Typed(m1) /\ Heap(m1, B1, s1, brk, B1, F1) /\ x \in B1 /\ s1[x] = sz[x]
  BY <1>2, <1>5, WholeFacts DEF Kept
<1>7. len = IF size < sz[x] THEN size ELSE sz[x]
  <2>1. GET_SIZE(m1[x - 4]) = sz[x]
    BY <1>6, HeapSize
  <2> QED
    BY <2>1 DEF CopyLen, GET, HDRP
<1>8. /\ h.size = size /\ h.tag = lv[q].tag
      /\ kept = IF size < lv[q].kept THEN size ELSE lv[q].kept
  OBVIOUS
<1>9. /\ len \in Nat /\ len <= size /\ kept \in Nat /\ kept <= size /\ kept <= len
      /\ kept <= lv[q].kept
  BY <1>0, <1>2, <1>3, <1>7, <1>8
<1>10. m2 = [a \in Arena |->
               IF p <= a /\ a < p + len
               THEN IF q + (a - p) \in Arena THEN m1[q + (a - p)] ELSE 0
               ELSE m1[a]]
  BY <1>6 DEF memcpy, Typed
<1> HIDE DEF len, kept
<1>11. Typed(m2)
  <2>1. \A a \in Arena : (IF p <= a /\ a < p + len
                          THEN IF q + (a - p) \in Arena THEN m1[q + (a - p)] ELSE 0
                          ELSE m1[a]) \in Nat
    BY <1>6 DEF Typed
  <2> QED
    BY <2>1, <1>10 DEF Typed
<1>12. \A a \in Arena : ~(bp + 8 <= a /\ a < bp + 8 + h.size) => m2[a] = m1[a]
  <2> SUFFICES ASSUME NEW a \in Arena, ~(bp + 8 <= a /\ a < bp + 8 + h.size)
               PROVE  m2[a] = m1[a]
    OBVIOUS
  <2>1. a \in Nat
    BY ArenaInt
  <2>2. ~(p <= a /\ a < p + len)
    BY <2>1, <1>0, <1>1, <1>8, <1>9
  <2> QED
    BY <2>2, <1>10
<1>13. \A a \in Arena : bp + 8 <= a /\ a < bp + 8 + h.kept => m2[a] = h.tag
  <2> SUFFICES ASSUME NEW a \in Arena, bp + 8 <= a, a < bp + 8 + kept
               PROVE  m2[a] = lv[q].tag
    BY <1>8 DEF kept
  <2> DEFINE s == q + (a - p)
  <2>1. a \in Nat /\ a % 4 = 0 /\ mem_max_addr \in Nat /\ FirstBlk \in Nat
        /\ mem_start_brk + 16 <= FirstBlk /\ mem_start_brk \in Nat
    BY ArenaInt, Layout
  <2>2. FirstBlk <= x /\ x + sz[x] <= brk /\ brk <= mem_max_addr /\ brk \in Nat
    BY <1>2, <1>3 DEF Shape
  <2>3. s \in Int /\ q <= s /\ s < q + lv[q].kept
    BY <2>1, <1>1, <1>2, <1>9
  <2>4. s % 4 = 0
    <3>1. q % 4 = 0 /\ p % 4 = 0 /\ p \in Nat
      BY <1>1, <1>2, <1>3
    <3>2. s = q + (a - p)
      OBVIOUS
    <3> HIDE DEF p, s
    <3> QED
      BY <3>1, <3>2, <2>1, <1>2, WordShift
  <2>5. mem_start_brk <= s /\ s < mem_max_addr
    BY <2>1, <2>2, <2>3, <1>2, <1>3
  <2>6. s \in Arena
    BY <2>3, <2>4, <2>5, InArena
  <2>7. s \in Words(x, sz[x])
    BY <2>3, <2>6, <1>2, <1>3 DEF Words
  <2>8. m1[s] = m[s]
    BY <2>7, <1>2, <1>5 DEF Kept
  <2>9. m[s] = lv[q].tag
    BY <2>3, <2>6, <1>2
  <2>10. p <= a /\ a < p + len
    BY <2>1, <1>1, <1>9
  <2> QED
    BY <2>6, <2>8, <2>9, <2>10, <1>10
<1>14. Good(m2, B1, s1, brk, F1, Hold(lv, p, h)) /\ p \notin DOMAIN lv
  <2>1. h.size \in Nat /\ h.kept \in Nat /\ h.kept <= h.size /\ h.size + 16 <= n
    BY <1>0, <1>8, <1>9 DEF kept
  <2>2. Placement(m, B, sz, brk, F, bp, n, m1, B1, s1, F1)
    BY <1>4, <1>5
  <2> QED
    BY <2>1, <2>2, <1>0, <1>11, <1>12, <1>13, HoldGood
<1> DEFINE l2 == Hold(lv, p, h)
<1>15. q \in DOMAIN l2 /\ p # q
  BY <1>14 DEF Hold
<1>16. Drop(l2, q) = Hold(Drop(lv, q), p, h)
  BY <1>15, DropHold
<1> HIDE DEF l2
<1>17. \E s2, F2 : Good(fr.mem, Retile(B1, fr.mem, fr.bp), s2, brk, F2, Drop(l2, q))
  <2>1. Good(m2, B1, s1, brk, F1, l2)
    BY <1>14 DEF l2
  <2> QED
    BY <2>1, <1>15, FreeGood
<1> QED
  BY <1>16, <1>17
-----------------------------------------------------------------------------
\* What a good heap says of MM's own predicates.

\* The blocks whose headers say free are the listed ones.
LEMMA WholeFree ==
  ASSUME NEW m, NEW B, NEW sz, NEW brk, NEW F, Whole(m, B, sz, brk, F)
  PROVE  FreeBlocks(m, B) = F
<1>1. Heap(m, B, sz, brk, B, F) /\ F \subseteq B /\ \A b \in B : sz[b] \in Nat
  BY WholeFacts
<1>2. \A b \in F : m[b - 4] = sz[b]
  BY WholeFacts
<1>3. \A b \in B \ F : m[b - 4] = sz[b] + 1
  BY WholeFacts
<1>4. \A b \in B : IsFree(m, b) <=> m[b - 4] = sz[b]
  BY <1>1, HeapSize
<1>5. \A b \in B : IsFree(m, b) <=> b \in F
  BY <1>1, <1>2, <1>3, <1>4
<1> QED
  BY <1>1, <1>5 DEF FreeBlocks

\* The footer before a block leads to the block before it.
LEMMA PrevOf ==
  ASSUME NEW m, NEW b, NEW c \in Nat, NEW s \in Nat, c + s = b,
         m[c + s - 8] = m[c - 4], GET_SIZE(m[c - 4]) = s
  PROVE  PREV_BLKP(m, b) = c
<1>1. PREV_BLKP(m, b) = b - GET_SIZE(m[b - 8])
  BY DEF PREV_BLKP, GET
<1>2. m[b - 8] = m[c - 4]
  OBVIOUS
<1> QED
  BY <1>1, <1>2

\* The tags tile the heap.
LEMMA WholeTiled ==
  ASSUME NEW m, NEW B, NEW sz, NEW brk, NEW F, Whole(m, B, sz, brk, F)
  PROVE  Tiled(m, B, brk)
<1>1. Heap(m, B, sz, brk, B, F) /\ Shape(B, sz, brk) /\ Marked(m, B, sz) /\ Ends(m, brk)
  BY WholeFacts DEF Heap
<1>2. /\ brk \in Nat /\ FirstBlk \in B \union {brk}
      /\ \A b \in B : /\ b \in Nat /\ b % 8 = 0 /\ FirstBlk <= b /\ b < brk
                      /\ sz[b] \in Nat /\ sz[b] % 8 = 0 /\ sz[b] >= 32
                      /\ b + sz[b] <= brk /\ b + sz[b] \in B \union {brk}
      /\ \A b, c \in B : b < c => b + sz[b] <= c
  BY <1>1, ShapeSpots, SMTT(30) DEF Shape
<1>3. \A b \in B : /\ SizeAt(m, b) = sz[b] /\ NEXT_BLKP(m, b) = b + sz[b]
                   /\ FTRP(m, b) = b + sz[b] - 8
  BY <1>1, HeapSize
<1>4. \A b \in B : /\ m[b - 4] = sz[b] \/ m[b - 4] = sz[b] + 1
                   /\ m[b + sz[b] - 8] = m[b - 4]
  BY <1>1 DEF Marked
<1>5. ASSUME NEW b \in B
      PROVE  /\ FirstBlk <= b /\ b < brk
             /\ b % DSIZE = 0
             /\ SizeAt(m, b) >= 4 * DSIZE
             /\ GET(m, HDRP(b)) \in {PACK(SizeAt(m, b), 0), PACK(SizeAt(m, b), 1)}
             /\ GET(m, FTRP(m, b)) = GET(m, HDRP(b))
             /\ NEXT_BLKP(m, b) \in B \union {brk}
             /\ NEXT_BLKP(m, b) <= brk
  <2>1. m[b - 4] = sz[b] + 0 \/ m[b - 4] = sz[b] + 1
    BY <1>2, <1>4
  <2>2. GET(m, HDRP(b)) \in {PACK(SizeAt(m, b), 0), PACK(SizeAt(m, b), 1)}
    BY <2>1, <1>3 DEF GET, HDRP, PACK
  <2>3. GET(m, FTRP(m, b)) = GET(m, HDRP(b))
    BY <1>3, <1>4 DEF GET, HDRP
  <2> QED
    BY <2>2, <2>3, <1>2, <1>3
<1>6. ASSUME NEW b \in B \union {brk}, b # FirstBlk
      PROVE  PREV_BLKP(m, b) \in B /\ NEXT_BLKP(m, PREV_BLKP(m, b)) = b
  <2>1. PICK c \in B : c + sz[c] = b
    BY <1>1, <1>6 DEF Shape
  <2>2. c \in Nat /\ sz[c] \in Nat /\ b \in Nat
    BY <2>1, <1>2
  <2>3. m[c + sz[c] - 8] = m[c - 4]
    BY <1>4
  <2>4. GET_SIZE(m[c - 4]) = sz[c]
    BY <1>1, HeapSize
  <2>5. PREV_BLKP(m, b) = c
    BY <2>1, <2>2, <2>3, <2>4, PrevOf
  <2>6. NEXT_BLKP(m, c) = b
    BY <2>1, <1>3
  <2> QED
    BY <2>5, <2>6
<1>7. GET(m, brk - WSIZE) = PACK(0, 1)
      /\ GET(m, FirstBlk - 3 * WSIZE) = PACK(DSIZE, 1)
      /\ GET(m, FirstBlk - 2 * WSIZE) = PACK(DSIZE, 1)
  BY <1>1 DEF Ends, GET, PACK
<1>8. \A b, c \in B : b < c => NEXT_BLKP(m, b) <= c
  BY <1>2, <1>3
<1> QED
  BY <1>2, <1>5, <1>6, <1>7, <1>8 DEF Tiled

\* find_bucket of a block's size is the head of its list.
LEMMA WholeBuckets ==
  ASSUME NEW m, NEW B, NEW sz, NEW brk, NEW F, Whole(m, B, sz, brk, F)
  PROVE  \A b \in B : BucketOf(m, b) = Bk(B, sz)[b] /\ BucketOf(m, b) \in Heads
<1>1. Heap(m, B, sz, brk, B, F) /\ Shape(B, sz, brk)
  BY WholeFacts
<1>2. \A b \in B : SizeAt(m, b) = sz[b]
  BY <1>1, HeapSize
<1> QED
  BY <1>1, <1>2, BkHeads DEF BucketOf

\* The lists hold exactly the free blocks, linked both ways.
LEMMA WholeLinked ==
  ASSUME NEW m, NEW B, NEW sz, NEW brk, NEW F, Whole(m, B, sz, brk, F)
  PROVE  Linked(m, F)
<1> DEFINE bk == Bk(B, sz)
<1>1. LinkedBy(m, F, bk) /\ F \subseteq B
  BY WholeFacts DEF Heap
<1>2. \A b \in F : BucketOf(m, b) = bk[b]
  BY <1>1, WholeBuckets
<1> HIDE DEF bk
<1>3. \A k \in Buckets : BucketAddr(k) \in Heads
  BY DEF Heads
<1>4. ASSUME NEW k \in Buckets, m[BucketAddr(k)] # NULL
      PROVE  /\ m[BucketAddr(k)] \in F
             /\ BucketOf(m, m[BucketAddr(k)]) = BucketAddr(k)
             /\ m[m[BucketAddr(k)] + 4] = NULL
  BY <1>1, <1>2, <1>3, <1>4 DEF LinkedBy
<1>5. ASSUME NEW b \in F
      PROVE  /\ m[b] # NULL => /\ m[b] \in F
                               /\ BucketOf(m, m[b]) = BucketOf(m, b)
                               /\ m[m[b] + 4] = b
             /\ m[b + 4] # NULL => /\ m[b + 4] \in F
                                   /\ BucketOf(m, m[b + 4]) = BucketOf(m, b)
                                   /\ m[m[b + 4]] = b
             /\ m[b + 4] = NULL => m[BucketOf(m, b)] = b
  BY <1>1, <1>2 DEF LinkedBy
<1> QED
  BY <1>4, <1>5 DEF Linked, GET

\* Break, blocks and payloads lie in the arena; none is at address 0.
LEMMA GoodTypes ==
  ASSUME NEW m, NEW B, NEW sz, NEW brk, NEW F, NEW lv, Good(m, B, sz, brk, F, lv)
  PROVE  /\ Typed(m) /\ B \subseteq Arena /\ brk \in mem_start_brk .. mem_max_addr
         /\ F \subseteq B /\ DOMAIN lv \subseteq Arena /\ NULL \notin F
         /\ NULL \notin DOMAIN lv
<1>1. Whole(m, B, sz, brk, F) /\ Owns(m, B \ F, sz, lv)
  BY DEF Good
<1>2. Shape(B, sz, brk) /\ Typed(m) /\ F \subseteq B
  BY <1>1, WholeFacts
<1>3. /\ brk \in Nat /\ FirstBlk <= brk /\ brk <= mem_max_addr
      /\ FirstBlk \in Nat /\ mem_max_addr \in Nat /\ mem_start_brk \in Nat
      /\ mem_start_brk + 16 <= FirstBlk
  BY <1>2, Layout DEF Shape
<1>4. B \subseteq Arena
  BY <1>2, ShapeWords
<1>5. ASSUME NEW p \in DOMAIN lv
      PROVE  p \in Arena /\ p # NULL
  <2> DEFINE b == p - 8
  <2>1. p \in Nat /\ b \in B
    BY <1>1 DEF Owns
  <2>2. /\ b \in Nat /\ b % 8 = 0 /\ FirstBlk <= b /\ sz[b] \in Nat /\ sz[b] >= 32
        /\ b + sz[b] <= brk
    BY <1>2, <2>1 DEF Shape
  <2>3. mem_start_brk <= p /\ p < mem_max_addr /\ p % 4 = 0 /\ p # 0
    BY <2>1, <2>2, <1>3
  <2> QED
    BY <2>1, <2>3, InArena
<1>6. NULL \notin F
  BY <1>2, <1>3 DEF Shape
<1> QED
  BY <1>2, <1>3, <1>4, <1>5, <1>6

\* The blocks of the payloads are the allocated blocks.
LEMMA GoodHeld ==
  ASSUME NEW m, NEW B, NEW sz, NEW brk, NEW F, NEW lv, Good(m, B, sz, brk, F, lv)
  PROVE  /\ {p - DSIZE : p \in DOMAIN lv} = B \ FreeBlocks(m, B)
         /\ \A p \in DOMAIN lv : lv[p].size + 4 * WSIZE <= SizeAt(m, p - DSIZE)
<1>1. Whole(m, B, sz, brk, F) /\ Owns(m, B \ F, sz, lv)
  BY DEF Good
<1>2. Heap(m, B, sz, brk, B, F) /\ FreeBlocks(m, B) = F
  BY <1>1, WholeFacts, WholeFree
<1>3. \A p \in DOMAIN lv : p - 8 \in B \ F
  BY <1>1 DEF Owns
<1>4. \A b \in B \ F : b + 8 \in DOMAIN lv /\ (b + 8) - 8 = b
  BY <1>1, WholeFacts DEF Owns
<1>5. {p - 8 : p \in DOMAIN lv} = B \ F
  BY <1>3, <1>4
<1>6. \A b \in B : SizeAt(m, b) = sz[b]
  BY <1>2, HeapSize
<1>7. \A p \in DOMAIN lv : lv[p].size + 16 <= sz[p - 8]
  BY <1>1 DEF Owns
<1>8. \A p \in DOMAIN lv : lv[p].size + 16 <= SizeAt(m, p - 8)
  BY <1>3, <1>6, <1>7
<1> QED
  BY <1>2, <1>5, <1>8

\* Payloads are aligned, in the heap, and apart.
LEMMA GoodPayloads ==
  ASSUME NEW m, NEW B, NEW sz, NEW brk, NEW F, NEW lv, Good(m, B, sz, brk, F, lv)
  PROVE  /\ \A p \in DOMAIN lv :
              /\ p % 8 = 0 /\ mem_start_brk <= p /\ p + lv[p].size - 1 <= brk - 1
         /\ \A p, q \in DOMAIN lv : p < q => p + lv[p].size <= q
<1>1. Whole(m, B, sz, brk, F) /\ Owns(m, B \ F, sz, lv)
  BY DEF Good
<1>2. Shape(B, sz, brk)
  BY <1>1, WholeFacts
<1>3. /\ brk \in Nat /\ FirstBlk \in Nat /\ mem_start_brk \in Nat
      /\ mem_start_brk + 16 <= FirstBlk
  BY <1>2, Layout DEF Shape
<1>4. ASSUME NEW p \in DOMAIN lv
      PROVE  /\ p \in Nat /\ p - 8 \in B /\ lv[p].size \in Nat
             /\ (p - 8) % 8 = 0 /\ FirstBlk <= p - 8 /\ sz[p - 8] \in Nat
             /\ p - 8 + sz[p - 8] <= brk
             /\ lv[p].size + 16 <= sz[p - 8]
  BY <1>1, <1>2 DEF Owns, Shape
<1>5. ASSUME NEW p \in DOMAIN lv
      PROVE  p % 8 = 0 /\ mem_start_brk <= p /\ p + lv[p].size - 1 <= brk - 1
  BY <1>3, <1>4
<1>6. ASSUME NEW p \in DOMAIN lv, NEW q \in DOMAIN lv, p < q
      PROVE  p + lv[p].size <= q
  <2> DEFINE b == p - 8
             c == q - 8
  <2>1. /\ p \in Nat /\ q \in Nat /\ b \in B /\ c \in B /\ lv[p].size \in Nat
        /\ sz[b] \in Nat /\ lv[p].size + 16 <= sz[b]
    BY <1>4
  <2>2. b < c
    BY <1>6, <2>1
  <2>3. b + sz[b] <= c
    BY <1>2, <2>1, <2>2 DEF Shape
  <2> QED
    BY <2>1, <2>3
<1> QED
  BY <1>5, <1>6

\* The heads of the lists and the links lead to free blocks.
LEMMA HeadNode ==
  ASSUME NEW m, NEW B, NEW sz, NEW brk, NEW F, Whole(m, B, sz, brk, F),
         NEW h \in Heads, m[h] # NULL
  PROVE  m[h] \in FreeBlocks(m, B) /\ BucketOf(m, m[h]) = h
<1>1. LinkedBy(m, F, Bk(B, sz)) /\ F \subseteq B
  BY WholeFacts DEF Heap
<1>2. m[h] \in F /\ Bk(B, sz)[m[h]] = h
  BY <1>1 DEF LinkedBy
<1> QED
  BY <1>1, <1>2, WholeBuckets, WholeFree

\* The link of a listed block leads to a block of the same list.
LEMMA NextNode ==
  ASSUME NEW m, NEW B, NEW sz, NEW brk, NEW F, Whole(m, B, sz, brk, F),
         NEW b \in FreeBlocks(m, B), m[b] # NULL
  PROVE  m[b] \in FreeBlocks(m, B) /\ BucketOf(m, m[b]) = BucketOf(m, b)
<1>1. LinkedBy(m, F, Bk(B, sz)) /\ F \subseteq B /\ b \in F
  BY WholeFacts, WholeFree DEF Heap
<1>2. m[b] \in F /\ Bk(B, sz)[m[b]] = Bk(B, sz)[b]
  BY <1>1 DEF LinkedBy
<1> QED
  BY <1>1, <1>2, WholeBuckets, WholeFree
-----------------------------------------------------------------------------
\* The invariant.

\* What the holders of payloads are told.
LiveTyped(lv) == lv \in [DOMAIN lv -> [size : Sizes, kept : Nat, tag : Tags]]

\* The heap is good once mm_init has run.
Sound ==
  heap_listp # NULL => \E sz, F : Good(mem, blocks, sz, mem_brk, F, live)

\* The form of IInv in which a step is shown to preserve it: sizes and free
\* blocks are objects of their own, not read off the words of the heap.
PInv == TypeOK /\ Untouched /\ Sound /\ Searching

\* heap_listp is not NULL once mm_init has set it.
LEMMA ListpValue == FirstBlk - 2 * WSIZE # NULL /\ FirstBlk - 2 * WSIZE \in Nat
BY Layout

\* The request variable is well typed when no call is being served.
LEMMA NoReqTyped == NoReq \in [ptr : Nat, size : Sizes \union {0}, tag : Tags \union {0}]
BY DEF NoReq

\* A call has returned, or has ended the program, with the heap good.
LEMMA Returned ==
  ASSUME NEW to \in {"idle", "crashed"}, EndCall(to),
         heap_listp' = FirstBlk - 2 * WSIZE,
         \E sz, F : Good(mem', blocks', sz, mem_brk', F, live'),
         LiveTyped(live'), runs' \in 0 .. MaxRuns
  PROVE  PInv'
<1>1. PICK sz, F : Good(mem', blocks', sz, mem_brk', F, live')
  OBVIOUS
<1>2. /\ Typed(mem') /\ blocks' \subseteq Arena /\ mem_brk' \in mem_start_brk .. mem_max_addr
      /\ DOMAIN live' \subseteq Arena
  BY <1>1, GoodTypes
<1>3. pc' = to /\ pc' # "find_fit" /\ pc' \in {"idle", "find_fit", "crashed"}
  BY DEF EndCall
<1>4. req' = NoReq /\ newsize' = 0 /\ bucket' = NULL /\ node' = NULL
  BY DEF EndCall
<1>5. TypeOK'
  BY <1>2, <1>3, <1>4, NoReqTyped DEF TypeOK, Typed, LiveTyped
<1>6. Untouched'
  BY ListpValue DEF Untouched
<1>7. Sound'
  BY <1>1 DEF Sound
<1>8. Searching'
  BY <1>3 DEF Searching
<1> QED
  BY <1>5, <1>6, <1>7, <1>8 DEF PInv

\* A caller that holds nothing.
LEMMA EmptyTyped == LiveTyped([p \in {} |-> 0]) /\ DOMAIN [p \in {} |-> 0] = {}
BY DEF LiveTyped

\* Before the first call nothing is in use.
LEMMA InitPInv == Init => PInv
<1> SUFFICES ASSUME Init PROVE PInv
  OBVIOUS
<1>1. mem \in [Arena -> Nat]
  BY CallerAssumption DEF Init
<1>2. mem_brk \in mem_start_brk .. mem_max_addr
  BY Layout DEF Init
<1>3. live = [p \in {} |-> 0] /\ LiveTyped(live) /\ DOMAIN live = {}
  BY EmptyTyped DEF Init
<1>4. runs \in 0 .. MaxRuns
  BY CallerAssumption DEF Init
<1>5. TypeOK
  BY <1>1, <1>2, <1>3, <1>4, NoReqTyped DEF Init, TypeOK, LiveTyped
<1> QED
  BY <1>3, <1>5 DEF Init, PInv, Untouched, Sound, Searching

\* Between calls the variables of a call are at rest.
LEMMA AtRest ==
  ASSUME PInv, pc = "idle", UNCHANGED <<pc, req, newsize, bucket, node>>
  PROVE  EndCall("idle")
BY DEF PInv, TypeOK, EndCall

\* mem_reset_brk and mm_init make a good heap of any arena.
LEMMA ResetPInv ==
  ASSUME PInv, reset
  PROVE  PInv'
<1> DEFINE h == mm_init(mem)
<1>1. Typed(mem)
  BY DEF PInv, TypeOK, Typed
<1>2. EndCall("idle")
  BY AtRest DEF reset
<1>3. mem' = h.mem /\ mem_brk' = h.brk /\ blocks' = h.blocks
  BY DEF reset
<1>4. live' = [p \in {} |-> 0] /\ LiveTyped(live') /\ DOMAIN live' = {}
  BY EmptyTyped DEF reset
<1>5. h = mm_init(mem)
  OBVIOUS
<1> HIDE DEF h
<1>6. \E sz, F : Good(h.mem, h.blocks, sz, h.brk, F, live')
  BY <1>1, <1>4, <1>5, InitGood
<1>7. runs' \in 0 .. MaxRuns
  BY CallerAssumption DEF PInv, TypeOK, reset
<1>8. heap_listp' = FirstBlk - 2 * WSIZE
  BY DEF reset
<1> QED
  BY <1>2, <1>3, <1>4, <1>6, <1>7, <1>8, Returned

\* mm_free keeps the heap good.
LEMMA FreePInv ==
  ASSUME PInv, NEW ptr \in DOMAIN live, mm_free(ptr)
  PROVE  PInv'
<1> DEFINE fr == free_block(mem, ptr)
<1>1. EndCall("idle")
  BY AtRest DEF mm_free
<1>2. heap_listp = FirstBlk - 2 * WSIZE /\ heap_listp # NULL
  BY ListpValue DEF PInv, TypeOK, Untouched
<1>3. PICK sz, F : Good(mem, blocks, sz, mem_brk, F, live)
  BY <1>2 DEF PInv, Sound
<1>4. fr = free_block(mem, ptr)
  OBVIOUS
<1>5. /\ mem' = fr.mem /\ blocks' = Retile(blocks, fr.mem, fr.bp)
      /\ live' = Drop(live, ptr) /\ mem_brk' = mem_brk /\ heap_listp' = heap_listp
      /\ runs' = runs
  BY DEF mm_free
<1> HIDE DEF fr
<1>6. \E s2, F2 : Good(fr.mem, Retile(blocks, fr.mem, fr.bp), s2, mem_brk, F2, Drop(live, ptr))
  BY <1>3, <1>4, FreeGood
<1>7. LiveTyped(Drop(live, ptr))
  BY DEF PInv, TypeOK, Drop, LiveTyped
<1> QED
  BY <1>1, <1>2, <1>5, <1>6, <1>7, Returned DEF PInv, TypeOK

\* A new payload keeps the types.
LEMMA HoldTyped ==
  ASSUME NEW lv, LiveTyped(lv), NEW p,
         NEW h \in [size : Sizes, kept : Nat, tag : Tags]
  PROVE  LiveTyped(Hold(lv, p, h))
BY DEF LiveTyped, Hold

\* A payload given up keeps the types.
LEMMA DropTyped ==
  ASSUME NEW lv, LiveTyped(lv), NEW p
  PROVE  LiveTyped(Drop(lv, p))
BY DEF LiveTyped, Drop

\* deliver, called with a free block that is large enough.
LEMMA Delivered ==
  ASSUME PInv, pc = "find_fit",
         NEW m, NEW B, NEW sz, NEW brk, NEW F, Good(m, B, sz, brk, F, live),
         NEW bp \in F, newsize <= sz[bp], deliver(m, B, bp)
  PROVE  /\ \E s2, F2 : Good(mem', blocks', s2, brk, F2, live')
         /\ LiveTyped(live')
<1>1. /\ req.size \in Sizes /\ newsize = ALIGN(req.size + OVERHEAD)
      /\ req.ptr \in DOMAIN live \union {NULL}
      /\ req.ptr = NULL => req.tag \in Tags
  BY DEF PInv, Searching
<1>2. LiveTyped(live)
  BY DEF PInv, TypeOK, LiveTyped
<1>3. Sizes \subseteq Nat /\ Tags \subseteq Nat
  BY CallerAssumption, ArenaAssumption
<1>4. CASE req.ptr = NULL
  <2> DEFINE h == [size |-> req.size, kept |-> req.size, tag |-> req.tag]
             m1 == place(m, bp, newsize)
             m2 == Fill(m1, bp + 8, req.size, req.tag)
  <2>1. /\ mem' = m2 /\ blocks' = PlaceTile(B, m, bp, newsize)
        /\ live' = Hold(live, bp + 8, h)
    BY <1>4 DEF deliver
  <2>2. h \in [size : Sizes, kept : Nat, tag : Tags]
    BY <1>1, <1>3, <1>4
  <2>3. \E s2, F2 : Good(m2, PlaceTile(B, m, bp, newsize), s2, brk, F2, Hold(live, bp + 8, h))
    BY <1>1, <1>3, <1>4, DeliverMalloc
  <2> HIDE DEF h, m2
  <2> QED
    BY <2>1, <2>2, <2>3, <1>2, HoldTyped
<1>5. CASE req.ptr # NULL
  <2> DEFINE q == req.ptr
             h == [size |-> req.size,
                   kept |-> IF req.size < live[q].kept THEN req.size ELSE live[q].kept,
                   tag  |-> live[q].tag]
             m1 == place(m, bp, newsize)
             m2 == memcpy(m1, bp + 8, q, CopyLen(m1, q, req.size))
             fr == free_block(m2, q)
             B1 == PlaceTile(B, m, bp, newsize)
             l2 == Hold(Drop(live, q), bp + 8, h)
  <2>1. mem' = fr.mem /\ blocks' = Retile(B1, fr.mem, fr.bp) /\ live' = l2
    BY <1>5 DEF deliver
  <2>2. q \in DOMAIN live
    BY <1>1, <1>5
  <2>3. live[q].kept \in Nat /\ live[q].tag \in Tags
    BY <2>2, <1>2 DEF LiveTyped
  <2>4. h \in [size : Sizes, kept : Nat, tag : Tags]
    BY <2>3, <1>1, <1>3
  <2>5. \E s2, F2 : Good(fr.mem, Retile(B1, fr.mem, fr.bp), s2, brk, F2, l2)
    <3>1. /\ m1 = place(m, bp, newsize)
          /\ m2 = memcpy(m1, bp + 8, q, CopyLen(m1, q, req.size))
          /\ fr = free_block(m2, q) /\ B1 = PlaceTile(B, m, bp, newsize)
          /\ h = [size |-> req.size,
                  kept |-> IF req.size < live[q].kept THEN req.size ELSE live[q].kept,
                  tag  |-> live[q].tag]
      OBVIOUS
    <3> HIDE DEF m1, m2, fr, B1, h, q
    <3> QED
      BY <3>1, <2>2, <1>1, DeliverRealloc DEF q
  <2>6. LiveTyped(l2)
    <3> HIDE DEF h, q
    <3> QED
      BY <2>4, <1>2, HoldTyped, DropTyped
  <2> HIDE DEF fr, B1, l2
  <2> QED
    BY <2>1, <2>5, <2>6
<1> QED
  BY <1>4, <1>5

\* During a search the heap is good, and the block it stands on is free.
LEMMA SearchGood ==
  ASSUME PInv, pc = "find_fit"
  PROVE  /\ heap_listp = FirstBlk - 2 * WSIZE /\ heap_listp # NULL
         /\ \E sz, F : Good(mem, blocks, sz, mem_brk, F, live)
BY DEF PInv, TypeOK, Searching, Sound

\* A call hands over a free block that is large enough, of the heap as it is
\* or of the heap that extend_heap has made.
Handover ==
  \E m, B, sz, F, bp :
    /\ Good(m, B, sz, mem_brk', F, live)
    /\ bp \in F /\ newsize <= sz[bp]
    /\ deliver(m, B, bp)

\* A block that fits is handed over.
LEMMA FitHandover ==
  ASSUME PInv, fit
  PROVE  Handover
<1>1. pc = "find_fit" /\ node # NULL /\ newsize <= GET_SIZE(GET(mem, HDRP(node)))
      /\ deliver(mem, blocks, node) /\ mem_brk' = mem_brk
  BY DEF fit
<1>2. PICK sz, F : Good(mem, blocks, sz, mem_brk, F, live)
  BY <1>1, SearchGood
<1>3. Whole(mem, blocks, sz, mem_brk, F)
  BY <1>2 DEF Good
<1>4. node \in F
  BY <1>1, <1>3, WholeFree DEF PInv, Searching
<1>5. newsize <= sz[node]
  <2>1. Heap(mem, blocks, sz, mem_brk, blocks, F) /\ F \subseteq blocks
    BY <1>3, WholeFacts
  <2>2. GET_SIZE(mem[node - 4]) = sz[node]
    BY <2>1, <1>4, HeapSize
  <2> QED
    BY <2>2, <1>1 DEF GET, HDRP
<1> QED
  BY <1>1, <1>2, <1>4, <1>5 DEF Handover

\* When no block fits, mem_sbrk fails or the new block, merged with the one
\* before it, is handed over.
LEMMA NoFitHandover ==
  ASSUME PInv, no_fit
  PROVE  \/ Handover /\ EndCall("idle")
         \/ /\ EndCall("idle") \/ EndCall("crashed")
            /\ UNCHANGED <<mem_brk, mem, live, blocks>>
<1> DEFINE n == IF newsize > CHUNKSIZE THEN newsize ELSE CHUNKSIZE
           words == n \div WSIZE
           ext == extend_heap(mem, mem_brk, words)
           B1 == Retile(blocks \union {mem_brk}, ext.mem, ext.bp)
<1>1. pc = "find_fit"
  BY DEF no_fit
<1>2. mem_brk \in Nat /\ mem_brk <= mem_max_addr
  BY Layout DEF PInv, TypeOK
<1>3. PICK sz, F : Good(mem, blocks, sz, mem_brk, F, live)
  BY <1>1, SearchGood
<1>4. CASE ~sbrk_ok(mem_brk, extend_bytes(words))
  BY <1>4 DEF no_fit
<1>5. CASE sbrk_ok(mem_brk, extend_bytes(words))
  <2>1. /\ mem_brk' = sbrk(mem_brk, extend_bytes(words))
        /\ deliver(ext.mem, B1, ext.bp) /\ EndCall("idle")
    BY <1>5 DEF no_fit
  <2>2. req.size \in Sizes /\ newsize = ALIGN(req.size + OVERHEAD)
    BY <1>1 DEF PInv, Searching
  <2>3. /\ newsize \in Nat /\ newsize % 8 = 0 /\ mem_max_addr + newsize < SIZE_MOD
    BY <2>2, NeedSize
  <2>4. /\ CHUNKSIZE \in Nat /\ CHUNKSIZE % 8 = 0 /\ CHUNKSIZE >= 32
        /\ mem_max_addr + CHUNKSIZE < SIZE_MOD
    BY LayoutAssumption, OrdinarySizes
  <2>5. /\ n \in Nat /\ n % 8 = 0 /\ n >= 32 /\ newsize <= n
        /\ mem_max_addr + n < SIZE_MOD
    BY <2>3, <2>4
  <2> HIDE DEF n
  <2>6. extend_bytes(words) = n
    BY <2>5, ExtendBytes
  <2>7. mem_brk' = mem_brk + n /\ mem_brk + n <= mem_max_addr
    BY <2>1, <2>5, <2>6, <1>2, <1>5, SbrkGrows
  <2>8. ext = extend_heap(mem, mem_brk, words)
    OBVIOUS
  <2> HIDE DEF words, ext
  <2>9. PICK s2, F2 : /\ Good(ext.mem, B1, s2, mem_brk + n, F2, live)
                      /\ ext.bp \in F2 /\ n <= s2[ext.bp]
    BY <2>5, <2>6, <2>7, <2>8, <1>3, ExtendGood
  <2>10. newsize <= s2[ext.bp]
    <3>1. ext.bp \in B1 /\ Whole(ext.mem, B1, s2, mem_brk + n, F2)
      BY <2>9, WholeFacts DEF Good
    <3>2. s2[ext.bp] \in Nat
      BY <3>1, WholeFacts
    <3> QED
      BY <3>2, <2>3, <2>5, <2>9
  <2> HIDE DEF B1
  <2>11. Handover
    BY <2>1, <2>7, <2>9, <2>10 DEF Handover
  <2> QED
    BY <2>1, <2>11
<1> QED
  BY <1>4, <1>5

\* mm_malloc and mm_realloc keep the heap good, from the end of the search on.
LEMMA ServePInv ==
  ASSUME PInv, fit \/ no_fit
  PROVE  PInv'
<1>1. /\ pc = "find_fit" /\ heap_listp' = FirstBlk - 2 * WSIZE
      /\ runs' \in 0 .. MaxRuns
  BY SearchGood DEF fit, no_fit, PInv, TypeOK
<1>2. CASE Handover /\ EndCall("idle")
  <2>1. PICK m, B, sz, F, bp :
          /\ Good(m, B, sz, mem_brk', F, live)
          /\ bp \in F /\ newsize <= sz[bp]
          /\ deliver(m, B, bp)
    BY <1>2 DEF Handover
  <2>2. /\ \E s2, F2 : Good(mem', blocks', s2, mem_brk', F2, live')
        /\ LiveTyped(live')
    BY <2>1, <1>1, Delivered
  <2> QED
    BY <2>2, <1>1, <1>2, Returned
<1>3. CASE /\ EndCall("idle") \/ EndCall("crashed")
           /\ UNCHANGED <<mem_brk, mem, live, blocks>>
  <2>1. PICK sz, F : Good(mem, blocks, sz, mem_brk, F, live)
    BY <1>1, SearchGood
  <2>2. Good(mem', blocks', sz, mem_brk', F, live') /\ LiveTyped(live')
    BY <2>1, <1>3 DEF PInv, TypeOK, LiveTyped
  <2> QED
    BY <2>2, <1>1, <1>3, Returned
<1>4. fit => Handover /\ EndCall("idle")
  BY FitHandover DEF fit
<1> QED
  BY <1>2, <1>3, <1>4, NoFitHandover

\* The request that find_fit serves is one a caller may make.
Asked(r, need, lv) ==
  /\ r \in [ptr : Nat, size : Sizes, tag : Tags \union {0}]
  /\ need = ALIGN(r.size + OVERHEAD)
  /\ r.ptr \in DOMAIN lv \union {NULL}
  /\ r.ptr = NULL => r.tag \in Tags

\* find_fit stands on a list, at a free block of that list or at its end.
Standing(m, B, at, nd) ==
  /\ at \in {BucketAddr(k) : k \in 0 .. BUCKETS_COUNT}
  /\ nd = NULL \/ (nd \in FreeBlocks(m, B) /\ at = BucketOf(m, nd))

\* find_fit goes on.
LEMMA Onward ==
  ASSUME pc' = "find_fit", heap_listp' = FirstBlk - 2 * WSIZE,
         NEW sz, NEW F, Good(mem', blocks', sz, mem_brk', F, live'),
         LiveTyped(live'), runs' \in 0 .. MaxRuns,
         Asked(req', newsize', live'), Standing(mem', blocks', bucket', node')
  PROVE  PInv'
<1>1. /\ Typed(mem') /\ blocks' \subseteq Arena /\ mem_brk' \in mem_start_brk .. mem_max_addr
      /\ DOMAIN live' \subseteq Arena
  BY GoodTypes
<1>2. /\ req' \in [ptr : Nat, size : Sizes, tag : Tags \union {0}]
      /\ req'.size \in Sizes /\ newsize' = ALIGN(req'.size + OVERHEAD)
      /\ req'.ptr \in DOMAIN live' \union {NULL} /\ (req'.ptr = NULL => req'.tag \in Tags)
  BY DEF Asked
<1>3. req' \in [ptr : Nat, size : Sizes \union {0}, tag : Tags \union {0}]
  BY <1>2
<1>4. newsize' \in Nat
  BY <1>2, NeedSize
<1>5. bucket' \in Nat
  <2>1. PICK k \in 0 .. BUCKETS_COUNT : bucket' = mem_start_brk + k * 4
    BY DEF Standing, BucketAddr, mem_heap_lo
  <2> QED
    BY <2>1, Layout
<1>6. node' \in Nat
  BY <1>1, ArenaInt DEF Standing, FreeBlocks
<1>7. heap_listp' # NULL
  BY ListpValue
<1>8. TypeOK'
  BY <1>1, <1>3, <1>4, <1>5, <1>6 DEF TypeOK, Typed, LiveTyped
<1>9. Untouched' /\ Sound'
  BY <1>7 DEF Untouched, Sound
<1>10. Searching'
  BY <1>2, <1>7 DEF Searching, Standing
<1> QED
  BY <1>8, <1>9, <1>10 DEF PInv

\* find_bucket returns NULL or a list head.
LEMMA BucketFound ==
  ASSUME NEW words, find_bucket(words) # NULL
  PROVE  find_bucket(words) \in Heads
BY DEF find_bucket, Heads

\* A search comes to the list at the head h.
LEMMA AtHead ==
  ASSUME NEW m, NEW B, NEW sz, NEW brk, NEW F, Whole(m, B, sz, brk, F),
         NEW h \in Heads
  PROVE  Standing(m, B, h, m[h])
<1>1. h \in {BucketAddr(k) : k \in 0 .. BUCKETS_COUNT}
  BY Layout DEF Heads, Buckets
<1>2. m[h] # NULL => m[h] \in FreeBlocks(m, B) /\ BucketOf(m, m[h]) = h
  BY HeadNode
<1> QED
  BY <1>1, <1>2 DEF Standing

\* The part of mm_malloc before find_fit, with mm_init if it has not run.
LEMMA MallocPInv ==
  ASSUME PInv, pc = "idle", NEW size \in Sizes, NEW tag \in Tags \union {0},
         NEW ptr \in DOMAIN live \union {NULL}, ptr = NULL => tag \in Tags,
         malloc_entry(ptr, size, tag)
  PROVE  PInv'
<1> DEFINE h == IF heap_listp = NULL
                THEN mm_init(mem)
                ELSE [mem |-> mem, brk |-> mem_brk, blocks |-> blocks]
           need == ALIGN((size + OVERHEAD) % SIZE_MOD)
           start == find_bucket(need \div WSIZE)
<1>1. /\ mem' = h.mem /\ mem_brk' = h.brk /\ blocks' = h.blocks
      /\ live' = live /\ runs' = runs
  BY DEF malloc_entry
<1>2. heap_listp' = FirstBlk - 2 * WSIZE
  BY DEF malloc_entry, PInv, TypeOK
<1>3. LiveTyped(live') /\ runs' \in 0 .. MaxRuns /\ DOMAIN live' \subseteq Arena
  BY <1>1 DEF PInv, TypeOK, LiveTyped
<1>4. \E sz, F : Good(mem', blocks', sz, mem_brk', F, live')
  <2>1. CASE heap_listp = NULL
    <3>1. h = mm_init(mem) /\ Typed(mem) /\ DOMAIN live = {}
      BY <2>1 DEF PInv, TypeOK, Typed, Untouched
    <3> HIDE DEF h
    <3>2. \E sz, F : Good(h.mem, h.blocks, sz, h.brk, F, live)
      BY <3>1, InitGood
    <3> QED
      BY <3>2, <1>1
  <2>2. CASE heap_listp # NULL
    <3>1. h.mem = mem /\ h.brk = mem_brk /\ h.blocks = blocks
      BY <2>2
    <3>2. \E sz, F : Good(mem, blocks, sz, mem_brk, F, live)
      BY <2>2 DEF PInv, Sound
    <3> HIDE DEF h
    <3> QED
      BY <3>1, <3>2, <1>1
  <2> QED
    BY <2>1, <2>2
<1>5. CASE EndCall("idle")
  BY <1>2, <1>3, <1>4, <1>5, Returned
<1>6. CASE EndCall("crashed")
  BY <1>2, <1>3, <1>4, <1>6, Returned
<1>7. CASE /\ start # NULL
           /\ pc' = "find_fit"
           /\ req' = [ptr |-> ptr, size |-> size, tag |-> tag]
           /\ newsize' = need
           /\ bucket' = start
           /\ node' = GET(h.mem, start)
  <2>1. need = ALIGN(size + OVERHEAD)
    BY NeedSize
  <2>2. start \in Heads
    BY <1>7, BucketFound
  <2>3. ptr \in Nat
    BY <1>1, <1>3, ArenaInt
  <2>4. req'.ptr = ptr /\ req'.size = size /\ req'.tag = tag
    BY <1>7
  <2>5. Asked(req', newsize', live')
    <3>1. req' \in [ptr : Nat, size : Sizes, tag : Tags \union {0}]
      BY <2>3, <1>7
    <3> QED
      BY <3>1, <2>1, <2>4, <1>1, <1>7 DEF Asked
  <2>6. PICK sz, F : Good(mem', blocks', sz, mem_brk', F, live')
    BY <1>4
  <2>7. node' = mem'[start] /\ bucket' = start
    BY <1>1, <1>7 DEF GET
  <2> HIDE DEF start
  <2>8. Standing(mem', blocks', bucket', node')
    BY <2>2, <2>6, <2>7, AtHead DEF Good
  <2> QED
    BY <2>5, <2>6, <2>8, <1>2, <1>3, <1>7, Onward
<1>8. \/ EndCall("idle")
      \/ EndCall("crashed")
      \/ /\ start # NULL
         /\ pc' = "find_fit"
         /\ req' = [ptr |-> ptr, size |-> size, tag |-> tag]
         /\ newsize' = need
         /\ bucket' = start
         /\ node' = GET(h.mem, start)
  BY DEF malloc_entry
<1> QED
  BY <1>5, <1>6, <1>7, <1>8

\* The request and the heap of a search.
LEMMA SearchAsked ==
  ASSUME PInv, pc = "find_fit"
  PROVE  /\ Asked(req, newsize, live) /\ Standing(mem, blocks, bucket, node)
         /\ LiveTyped(live) /\ runs \in 0 .. MaxRuns
<1>1. /\ req \in [ptr : Nat, size : Sizes \union {0}, tag : Tags \union {0}]
      /\ req.size \in Sizes
  BY DEF PInv, TypeOK, Searching
<1>2. req \in [ptr : Nat, size : Sizes, tag : Tags \union {0}]
  BY <1>1
<1> QED
  BY <1>2 DEF PInv, TypeOK, LiveTyped, Searching, Asked, Standing

\* The inner loop of find_fit stays on its list.
LEMMA NextNodePInv ==
  ASSUME PInv, next_node
  PROVE  PInv'
<1>1. /\ pc = "find_fit" /\ node # NULL /\ node' = mem[node]
      /\ UNCHANGED <<mem_brk, mem, heap_listp, pc, req, newsize, bucket, live, blocks, runs>>
  BY DEF next_node, GET
<1>2. PICK sz, F : Good(mem, blocks, sz, mem_brk, F, live)
  BY <1>1, SearchGood
<1>3. /\ Asked(req, newsize, live) /\ Standing(mem, blocks, bucket, node)
      /\ LiveTyped(live) /\ runs \in 0 .. MaxRuns
  BY <1>1, SearchAsked
<1>4. node \in FreeBlocks(mem, blocks) /\ bucket = BucketOf(mem, node)
  BY <1>1, <1>3 DEF Standing
<1>5. mem[node] # NULL => /\ mem[node] \in FreeBlocks(mem, blocks)
                          /\ BucketOf(mem, mem[node]) = BucketOf(mem, node)
  BY <1>2, <1>4, NextNode DEF Good
<1>6. Standing(mem', blocks', bucket', node')
  BY <1>1, <1>3, <1>4, <1>5 DEF Standing
<1>7. heap_listp' = FirstBlk - 2 * WSIZE
  BY <1>1, SearchGood
<1>8. Good(mem', blocks', sz, mem_brk', F, live') /\ Asked(req', newsize', live')
      /\ LiveTyped(live') /\ runs' \in 0 .. MaxRuns /\ pc' = "find_fit"
  BY <1>1, <1>2, <1>3
<1> QED
  BY <1>6, <1>7, <1>8, Onward

\* The outer loop of find_fit comes to the next list.
LEMMA NextBucketPInv ==
  ASSUME PInv, next_bucket
  PROVE  PInv'
<1>1. /\ pc = "find_fit" /\ bucket < BucketAddr(BUCKETS_COUNT) /\ bucket' = bucket + 4
      /\ node' = IF bucket' < BucketAddr(BUCKETS_COUNT) THEN mem[bucket'] ELSE NULL
      /\ UNCHANGED <<mem_brk, mem, heap_listp, pc, req, newsize, live, blocks, runs>>
  BY DEF next_bucket, GET
<1>2. PICK sz, F : Good(mem, blocks, sz, mem_brk, F, live)
  BY <1>1, SearchGood
<1>3. /\ Asked(req, newsize, live) /\ Standing(mem, blocks, bucket, node)
      /\ LiveTyped(live) /\ runs \in 0 .. MaxRuns
  BY <1>1, SearchAsked
<1>4. PICK k \in 0 .. BUCKETS_COUNT : bucket = BucketAddr(k)
  BY <1>3 DEF Standing
<1>5. k \in Nat /\ k < BUCKETS_COUNT /\ bucket' = BucketAddr(k + 1)
  BY <1>1, <1>4, Layout DEF BucketAddr, mem_heap_lo
<1>6. bucket' \in {BucketAddr(j) : j \in 0 .. BUCKETS_COUNT}
  BY <1>5, Layout
<1>7. bucket' < BucketAddr(BUCKETS_COUNT) => bucket' \in Heads
  <2>1. bucket' < BucketAddr(BUCKETS_COUNT) => k + 1 \in Buckets
    BY <1>5, Layout DEF BucketAddr, mem_heap_lo, Buckets
  <2> QED
    BY <2>1, <1>5 DEF Heads
<1>8. Standing(mem, blocks, bucket', node')
  <2>1. CASE bucket' < BucketAddr(BUCKETS_COUNT)
    BY <2>1, <1>1, <1>2, <1>7, AtHead DEF Good
  <2>2. CASE ~(bucket' < BucketAddr(BUCKETS_COUNT))
    BY <2>2, <1>1, <1>6 DEF Standing
  <2> QED
    BY <2>1, <2>2
<1>9. heap_listp' = FirstBlk - 2 * WSIZE
  BY <1>1, SearchGood
<1>10. Good(mem', blocks', sz, mem_brk', F, live') /\ Asked(req', newsize', live')
       /\ LiveTyped(live') /\ runs' \in 0 .. MaxRuns /\ pc' = "find_fit"
       /\ Standing(mem', blocks', bucket', node')
  BY <1>1, <1>2, <1>3, <1>8
<1> QED
  BY <1>9, <1>10, Onward

\* Every step of mm.c and of its caller keeps the heap good.
THEOREM StepPInv == PInv /\ [Next]_vars => PInv'
<1> SUFFICES ASSUME PInv, [Next]_vars PROVE PInv'
  OBVIOUS
<1>1. CASE reset
  BY <1>1, ResetPInv
<1>2. ASSUME NEW size \in Sizes, NEW tag \in Tags, mm_malloc(size, tag)
      PROVE  PInv'
  BY <1>2, MallocPInv DEF mm_malloc
<1>3. CASE find_fit
  BY <1>3, NextNodePInv, NextBucketPInv, ServePInv DEF find_fit, search_step
<1>4. ASSUME NEW ptr \in DOMAIN live, mm_free(ptr)
      PROVE  PInv'
  BY <1>4, FreePInv
<1>5. ASSUME NEW ptr \in DOMAIN live \union {NULL}, NEW size \in Sizes, NEW tag \in Tags,
             mm_realloc(ptr, size, tag)
      PROVE  PInv'
  <2>1. CASE ptr = NULL /\ mm_malloc(size, tag)
    BY <2>1, <1>2
  <2>2. CASE ptr # NULL /\ mm_free(ptr)
    BY <2>2, <1>4
  <2>3. CASE ptr # NULL /\ pc = "idle" /\ malloc_entry(ptr, size, 0)
    <3>1. 0 \in Tags \union {0}
      OBVIOUS
    <3> QED
      BY <2>3, <3>1, MallocPInv
  <2> QED
    BY <1>5, <2>1, <2>2, <2>3 DEF mm_realloc
<1>6. CASE UNCHANGED vars
  BY <1>6 DEF vars, PInv, TypeOK, Untouched, Sound, Searching, Good, NoReq,
              FreeBlocks, IsFree, BucketOf, SizeAt
<1> QED
  BY <1>1, <1>2, <1>3, <1>4, <1>5, <1>6 DEF Next

-----------------------------------------------------------------------------
\* The search of find_fit misses no block.

\* The provers know 2^k only as the number of subsets of a set of k elements.
LEMMA PowerOfTwo ==
  ASSUME NEW k \in Nat
  PROVE  2^k \in Nat
<1>1. IsFiniteSet(1 .. k) /\ Cardinality(1 .. k) = k
  BY FS_Interval
<1> QED
  BY <1>1, FS_SUBSET, FS_CardinalityType

\* A block in an earlier list than the one where the search starts is smaller
\* than the request.
LEMMA EarlierSmaller ==
  ASSUME NEW s \in Nat, NEW n \in Nat, s % 8 = 0, n % 8 = 0,
         find_bucket(s \div 4) \in Heads, find_bucket(n \div 4) \in Heads,
         find_bucket(s \div 4) < find_bucket(n \div 4)
  PROVE  s < n
<1>1. (s \div 4) * 4 = s /\ (n \div 4) * 4 = n
  OBVIOUS
<1>2. find_bucket(s \div 4) # NULL /\ find_bucket(n \div 4) # NULL
  BY HeadsInArena
<1>3. PICK j \in Buckets : find_bucket(s \div 4) = BucketAddr(j) /\ IsBucketFor(j, s)
  BY <1>1, <1>2 DEF find_bucket
<1>4. PICK k \in Buckets : find_bucket(n \div 4) = BucketAddr(k) /\ IsBucketFor(k, n)
  BY <1>1, <1>2 DEF find_bucket
<1>5. j \in Nat /\ k \in Nat
  BY Layout DEF Buckets
<1>6. j \in 0 .. (k - 1)
  BY <1>3, <1>4, <1>5, Layout DEF BucketAddr, mem_heap_lo
<1>7. 2^j \in Nat
  BY <1>5, PowerOfTwo
<1>8. s <= 2^j /\ 2^j < n
  BY <1>3, <1>4, <1>6 DEF IsBucketFor
<1> QED
  BY <1>7, <1>8

\* At the end of a list that find_fit has followed from its head, all blocks of
\* that list have been passed: the links back from any other would lead to one.
LEMMA WholeListPassed ==
  ASSUME NEW m, NEW B, NEW sz, NEW brk, NEW F, Whole(m, B, sz, brk, F),
         NEW h \in Heads, NEW P, m[h] \in P \union {NULL},
         \A b \in P : b \in F /\ BucketOf(m, b) = h => m[b] \in P \union {NULL}
  PROVE  \A b \in F : BucketOf(m, b) = h => b \in P
<1> DEFINE S == {b \in F : BucketOf(m, b) = h /\ b \notin P}
<1>1. Linked(m, F) /\ Anchored(m, F)
  BY WholeLinked, WholeFacts DEF Heap, LinkedBy
<1>2. \A b \in F : b # NULL
  BY WholeFacts, ShapeSpots, SpotWords DEF Heap, Spots
<1>3. CASE S # {}
  <2>1. PICK b \in S : m[b + 4] \notin S
    BY <1>1, <1>3 DEF Anchored, GET
  <2>2. b \in F /\ BucketOf(m, b) = h /\ b \notin P /\ b # NULL
    BY <2>1, <1>2
  <2>3. /\ m[b + 4] # NULL => /\ m[b + 4] \in F
                              /\ BucketOf(m, m[b + 4]) = h
                              /\ m[m[b + 4]] = b
        /\ m[b + 4] = NULL => m[h] = b
    BY <2>2, <1>1 DEF Linked, GET
  <2>4. m[b + 4] # NULL => m[b + 4] \in P
    BY <2>1, <2>3
  <2> QED
    BY <2>2, <2>3, <2>4
<1> QED
  BY <1>3

\* When a search starts it has passed the blocks of the earlier lists.
LEMMA SearchStarts ==
  PInv /\ pc = "find_fit" /\ bucket = find_bucket(newsize \div WSIZE)
    /\ bucket # NULL /\ node = GET(mem, bucket)
    => Passed
<1> SUFFICES ASSUME PInv, pc = "find_fit", bucket = find_bucket(newsize \div 4),
                    bucket # NULL, node = mem[bucket]
             PROVE  Passed
  BY DEF GET
<1> DEFINE Free == FreeBlocks(mem, blocks)
           P == {b \in Free : BucketOf(mem, b) < bucket}
<1>1. PICK sz, F : Good(mem, blocks, sz, mem_brk, F, live)
  BY SearchGood
<1>2. Whole(mem, blocks, sz, mem_brk, F)
  BY <1>1 DEF Good
<1>3. F = Free /\ F \subseteq blocks
  BY <1>2, WholeFree, WholeFacts
<1>4. bucket \in Heads /\ bucket \in Nat
  BY BucketFound, HeadsInArena
<1>5. newsize \in Nat /\ newsize % 8 = 0
  BY NeedSize DEF PInv, Searching
<1>6. ASSUME NEW b \in Free
      PROVE  /\ BucketOf(mem, b) \in Nat
             /\ BucketOf(mem, b) < bucket => SizeAt(mem, b) < newsize
  <2>1. b \in blocks
    BY <1>3
  <2>2. BucketOf(mem, b) \in Heads
    BY <2>1, <1>2, WholeBuckets
  <2>3. SizeAt(mem, b) \in Nat /\ SizeAt(mem, b) % 8 = 0
    BY <2>1, <1>2, WholeFacts, HeapSize
  <2> QED
    BY <2>2, <2>3, <1>4, <1>5, EarlierSmaller, HeadsInArena DEF BucketOf
<1>7. P \in SUBSET {b \in Free : BucketOf(mem, b) <= bucket}
  BY <1>4, <1>6
<1>8. /\ \A b \in P : SizeAt(mem, b) < newsize
      /\ \A b \in Free : BucketOf(mem, b) < bucket => b \in P
      /\ GET(mem, bucket) \in P \union {node}
      /\ \A b \in P : BucketOf(mem, b) = bucket => GET(mem, b) \in P \union {node}
  BY <1>4, <1>6 DEF GET
<1> QED
  BY <1>7, <1>8 DEF Passed

\* One more block has been passed.
LEMMA NextNodePassed == PInv /\ Passed /\ next_node => Passed'
<1> SUFFICES ASSUME PInv, Passed, next_node PROVE Passed'
  OBVIOUS
<1> DEFINE Free == FreeBlocks(mem, blocks)
<1>1. /\ pc = "find_fit" /\ node # NULL /\ newsize > SizeAt(mem, node)
      /\ node' = GET(mem, node)
      /\ UNCHANGED <<mem, pc, newsize, bucket, blocks>>
  BY DEF next_node, SizeAt
<1>2. PICK P \in SUBSET {b \in Free : BucketOf(mem, b) <= bucket} :
        /\ \A b \in P : SizeAt(mem, b) < newsize
        /\ \A b \in Free : BucketOf(mem, b) < bucket => b \in P
        /\ bucket < BucketAddr(BUCKETS_COUNT) => GET(mem, bucket) \in P \union {node}
        /\ \A b \in P : BucketOf(mem, b) = bucket => GET(mem, b) \in P \union {node}
  BY <1>1 DEF Passed
<1>3. node \in Free /\ bucket = BucketOf(mem, node) /\ bucket \in Nat
  BY <1>1 DEF PInv, Searching, TypeOK
<1>4. SizeAt(mem, node) < newsize
  <2>1. PICK sz, F : Good(mem, blocks, sz, mem_brk, F, live)
    BY <1>1, SearchGood
  <2>2. SizeAt(mem, node) \in Nat
    BY <2>1, <1>3, WholeFacts, HeapSize DEF Good, FreeBlocks
  <2> QED
    BY <2>2, <1>1 DEF PInv, TypeOK
<1> DEFINE Q == P \union {node}
<1>5. Q \in SUBSET {b \in Free : BucketOf(mem, b) <= bucket}
  BY <1>3
<1>6. /\ \A b \in Q : SizeAt(mem, b) < newsize
      /\ \A b \in Free : BucketOf(mem, b) < bucket => b \in Q
      /\ bucket < BucketAddr(BUCKETS_COUNT) => GET(mem, bucket) \in Q \union {node'}
      /\ \A b \in Q : BucketOf(mem, b) = bucket => GET(mem, b) \in Q \union {node'}
  BY <1>1, <1>2, <1>4
<1> HIDE DEF Q
<1> QED
  BY <1>1, <1>5, <1>6 DEF Passed, FreeBlocks, IsFree, BucketOf, SizeAt

\* All of a list has been passed.
LEMMA NextBucketPassed == PInv /\ Passed /\ next_bucket => Passed'
<1> SUFFICES ASSUME PInv, Passed, next_bucket PROVE Passed'
  OBVIOUS
<1> DEFINE Free == FreeBlocks(mem, blocks)
<1>1. /\ pc = "find_fit" /\ node = NULL /\ bucket < BucketAddr(BUCKETS_COUNT)
      /\ bucket' = bucket + 4
      /\ bucket' < BucketAddr(BUCKETS_COUNT) => node' = GET(mem, bucket')
      /\ UNCHANGED <<mem, pc, newsize, blocks>>
  BY DEF next_bucket
<1>2. PICK P \in SUBSET {b \in Free : BucketOf(mem, b) <= bucket} :
        /\ \A b \in P : SizeAt(mem, b) < newsize
        /\ \A b \in Free : BucketOf(mem, b) < bucket => b \in P
        /\ GET(mem, bucket) \in P \union {NULL}
        /\ \A b \in P : BucketOf(mem, b) = bucket => GET(mem, b) \in P \union {NULL}
  BY <1>1 DEF Passed
<1>3. PICK sz, F : Good(mem, blocks, sz, mem_brk, F, live)
  BY <1>1, SearchGood
<1>4. Whole(mem, blocks, sz, mem_brk, F) /\ F = Free /\ F \subseteq blocks
  BY <1>3, WholeFree, WholeFacts DEF Good
<1>5. PICK k \in 0 .. BUCKETS_COUNT : bucket = BucketAddr(k)
  BY <1>1 DEF PInv, Searching
<1>6. k \in Buckets /\ k \in Nat /\ bucket \in Heads
  BY <1>1, <1>5, Layout DEF BucketAddr, mem_heap_lo, Buckets, Heads
<1>7. \A b \in Free : BucketOf(mem, b) = bucket => b \in P
  BY <1>2, <1>4, <1>6, WholeListPassed DEF GET
<1>8. ASSUME NEW b \in Free
      PROVE  BucketOf(mem, b) < bucket' => BucketOf(mem, b) <= bucket
  <2>1. BucketOf(mem, b) \in Heads
    BY <1>4, WholeBuckets
  <2>2. PICK j \in Buckets : BucketOf(mem, b) = BucketAddr(j)
    BY <2>1 DEF Heads
  <2>3. j \in Nat
    BY Layout DEF Buckets
  <2> QED
    BY <2>2, <2>3, <1>1, <1>5, <1>6, Layout DEF BucketAddr, mem_heap_lo
<1>9. ASSUME NEW b \in Free
      PROVE  BucketOf(mem, b) \in Nat
  BY <1>4, WholeBuckets, HeadsInArena
<1>10. bucket \in Nat
  BY <1>6, HeadsInArena
<1>11. P \in SUBSET {b \in Free : BucketOf(mem, b) <= bucket'}
  BY <1>1, <1>2, <1>9, <1>10
<1>12. \A b \in Free : BucketOf(mem, b) < bucket' => b \in P
  BY <1>2, <1>7, <1>8, <1>9, <1>10
<1>13. \A b \in P : BucketOf(mem, b) # bucket'
  BY <1>1, <1>2, <1>9, <1>10
<1> QED
  BY <1>1, <1>2, <1>11, <1>12, <1>13 DEF Passed, FreeBlocks, IsFree, BucketOf, SizeAt

\* What find_fit has been past stays known.
LEMMA PassedStep == PInv /\ Passed /\ [Next]_vars => Passed'
<1> SUFFICES ASSUME PInv, Passed, [Next]_vars, pc' = "find_fit" PROVE Passed'
  BY DEF Passed
<1>0. PInv'
  BY StepPInv
<1>1. ASSUME NEW ptr, NEW size, NEW tag, malloc_entry(ptr, size, tag)
      PROVE  Passed'
  <2>1. /\ newsize' = ALIGN((size + OVERHEAD) % SIZE_MOD)
        /\ bucket' = find_bucket(newsize' \div WSIZE) /\ bucket' # NULL
        /\ node' = GET(mem', bucket')
    BY <1>1 DEF malloc_entry, EndCall
  <2>2. (PInv /\ pc = "find_fit" /\ bucket = find_bucket(newsize \div WSIZE)
           /\ bucket # NULL /\ node = GET(mem, bucket) => Passed)'
    BY SearchStarts, PTL
  <2> QED
    BY <2>1, <2>2, <1>0
<1>2. CASE next_node
  BY <1>2, NextNodePassed
<1>3. CASE next_bucket
  BY <1>3, NextBucketPassed
<1>4. CASE UNCHANGED vars
  BY <1>4 DEF vars, Passed, FreeBlocks, IsFree, BucketOf, SizeAt
<1>5. ~reset /\ ~fit /\ ~no_fit /\ \A ptr : ~mm_free(ptr)
  BY DEF reset, fit, no_fit, mm_free, EndCall
<1> QED
  BY <1>1, <1>2, <1>3, <1>4, <1>5
  DEF Next, find_fit, search_step, mm_malloc, mm_realloc

\* A good heap satisfies the invariants of MM.
LEMMA PInvHeap ==
  PInv => /\ HeapTiled /\ SeglistLinked /\ NoRings /\ Coalesced /\ HeldBlocks
          /\ \A p \in DOMAIN live : live[p].kept <= live[p].size
          /\ PayloadIntact /\ PayloadsSafe
<1> SUFFICES ASSUME PInv
             PROVE  /\ HeapTiled /\ SeglistLinked /\ NoRings /\ Coalesced /\ HeldBlocks
                    /\ \A p \in DOMAIN live : live[p].kept <= live[p].size
                    /\ PayloadIntact /\ PayloadsSafe
  OBVIOUS
<1>1. CASE heap_listp = NULL
  <2>1. blocks = {} /\ DOMAIN live = {}
    BY <1>1 DEF PInv, Untouched
  <2>2. HeapTiled /\ SeglistLinked /\ NoRings /\ Coalesced /\ HeldBlocks
        /\ PayloadIntact /\ PayloadsSafe
    BY <1>1, <2>1 DEF HeapTiled, SeglistLinked, NoRings, Coalesced, HeldBlocks, PayloadIntact,
                      PayloadsSafe, FreeBlocks
  <2> QED
    BY <2>1, <2>2
<1>2. CASE heap_listp # NULL
  <2>1. PICK sz, F : Good(mem, blocks, sz, mem_brk, F, live)
    BY <1>2 DEF PInv, Sound
  <2>2. Whole(mem, blocks, sz, mem_brk, F) /\ Owns(mem, blocks \ F, sz, live)
    BY <2>1 DEF Good
  <2>3. HeapTiled
    BY <2>2, WholeTiled DEF HeapTiled
  <2>4. SeglistLinked /\ NoRings
    <3>1. Linked(mem, F) /\ Anchored(mem, F)
      BY <2>2, WholeLinked, WholeFacts DEF Heap, LinkedBy
    <3> QED
      BY <3>1, <2>2, WholeFree DEF SeglistLinked, NoRings
  <2>5. Coalesced
    <3>1. FreeBlocks(mem, blocks) = F /\ F \subseteq blocks
      BY <2>2, WholeFree, WholeFacts
    <3>2. \A b \in blocks : NEXT_BLKP(mem, b) = b + sz[b]
      BY <2>2, WholeFacts, HeapSize
    <3>3. \A f \in F : f + sz[f] \notin F
      BY <2>2, WholeFacts
    <3>4. \A b \in blocks : IsFree(mem, b) => b \in F
      BY <3>1 DEF FreeBlocks
    <3> QED
      BY <3>1, <3>2, <3>3, <3>4 DEF Coalesced
  <2>6. HeldBlocks
    BY <2>1, GoodHeld DEF HeldBlocks
  <2>7. PayloadIntact /\ \A p \in DOMAIN live : live[p].kept <= live[p].size
    BY <2>2 DEF Owns, PayloadIntact
  <2>8. PayloadsSafe
    BY <2>1, GoodPayloads DEF PayloadsSafe, mem_heap_lo, mem_heap_hi
  <2> QED
    BY <2>3, <2>4, <2>5, <2>6, <2>7, <2>8
<1> QED
  BY <1>1, <1>2

LEMMA PInvIInv == PInv /\ Passed => IInv
BY PInvHeap DEF PInv, IInv

\* Whatever ordinary requests a caller makes, in whatever order, after every
\* call of mm.c and at every iteration of find_fit the boundary tags tile the
\* heap, the free lists hold exactly the free blocks, no two neighbours are
\* free, every other block is held by the caller and holds what it wrote.
THEOREM Safety == Spec => []IInv
<1>1. Init => PInv /\ Passed
  BY InitPInv DEF Init, Passed
<1>2. PInv /\ Passed /\ [Next]_vars => PInv' /\ Passed'
  BY StepPInv, PassedStep
<1>3. PInv /\ Passed => IInv
  BY PInvIInv
<1> QED
  BY <1>1, <1>2, <1>3, PTL DEF Spec

\* The type invariant of MM.
THEOREM TypeCorrect == Spec => []TypeOK
<1>1. IInv => TypeOK
  BY DEF IInv
<1> QED
  BY <1>1, Safety, PTL

\* The contents of a payload survive every other call, and mm_realloc moves
\* them.
THEOREM PayloadIntegrity == Spec => []PayloadIntact
<1>1. IInv => PayloadIntact
  BY DEF IInv
<1> QED
  BY <1>1, Safety, PTL

\* Walking the heap by its headers, or backwards by its footers, visits every
\* byte between the prologue and the break once: NEXT_BLKP and PREV_BLKP never
\* lead anywhere but to a block.
THEOREM HeapAlwaysTiled == Spec => []HeapTiled
<1>1. IInv => HeapTiled
  BY DEF IInv
<1> QED
  BY <1>1, Safety, PTL

\* Every free list is doubly linked and the lists hold exactly the free blocks,
\* each in the list of its size: remove_from_bucket may trust a block's links.
THEOREM ListsAlwaysLinked == Spec => []SeglistLinked
<1>1. IInv => SeglistLinked
  BY DEF IInv
<1> QED
  BY <1>1, Safety, PTL

\* No two neighbours are ever both free: coalesce merges all there is.
THEOREM AlwaysCoalesced == Spec => []Coalesced
<1>1. IInv => Coalesced
  BY DEF IInv
<1> QED
  BY <1>1, Safety, PTL

\* Every block is free or belongs to one payload of the caller and is large
\* enough for it: no call leaks a block or gives one away twice.
THEOREM BlocksAlwaysHeld == Spec => []HeldBlocks
<1>1. IInv => HeldBlocks
  BY DEF IInv
<1> QED
  BY <1>1, Safety, PTL
-----------------------------------------------------------------------------
\* IInv says as much as PInv, so it is inductive itself.

\* The sizes and the free blocks that the words of the heap give.
SizesOf(m, B) == [b \in B |-> SizeAt(m, b)]

\* Tags that tile a heap give it a shape.
LEMMA TiledShape ==
  ASSUME NEW m, Typed(m), NEW B, B \subseteq Arena, NEW brk \in Nat,
         brk <= mem_max_addr, Tiled(m, B, brk)
  PROVE  Shape(B, SizesOf(m, B), brk) /\ Marked(m, B, SizesOf(m, B)) /\ Ends(m, brk)
<1> DEFINE sz == SizesOf(m, B)
<1>0. /\ FirstBlk \in B \union {brk}
      /\ \A b \in B :
           /\ FirstBlk <= b /\ b < brk /\ b % 8 = 0 /\ SizeAt(m, b) >= 32
           /\ m[b - 4] = SizeAt(m, b) + 0 \/ m[b - 4] = SizeAt(m, b) + 1
           /\ m[FTRP(m, b)] = m[b - 4]
           /\ NEXT_BLKP(m, b) \in B \union {brk} /\ NEXT_BLKP(m, b) <= brk
      /\ \A b, c \in B : b < c => NEXT_BLKP(m, b) <= c
      /\ \A b \in B \union {brk} :
           b # FirstBlk => PREV_BLKP(m, b) \in B /\ NEXT_BLKP(m, PREV_BLKP(m, b)) = b
  BY DEF Tiled, GET, HDRP, PACK
<1>1. m[brk - 4] = 1 /\ m[FirstBlk - 12] = 9 /\ m[FirstBlk - 8] = 9
  BY DEF Tiled, GET, PACK
<1>2. \A b \in B : b \in Nat /\ m[b - 4] \in Nat
  <2> SUFFICES ASSUME NEW b \in B PROVE b \in Nat /\ m[b - 4] \in Nat
    OBVIOUS
  <2>1. b \in Nat /\ b % 8 = 0 /\ FirstBlk <= b /\ b < mem_max_addr
    BY <1>0, ArenaInt
  <2>2. b - 4 \in Int /\ mem_start_brk <= b - 4 /\ b - 4 < mem_max_addr /\ (b - 4) % 4 = 0
    BY <2>1, Layout
  <2>3. b - 4 \in Arena
    BY <2>2, InArena
  <2> QED
    BY <2>1, <2>3 DEF Typed
<1>3. \A b \in B : /\ sz[b] = SizeAt(m, b) /\ sz[b] \in Nat /\ sz[b] % 8 = 0
                   /\ NEXT_BLKP(m, b) = b + sz[b] /\ FTRP(m, b) = b + sz[b] - 8
  BY <1>2, SizeField DEF SizesOf, SizeAt, GET, HDRP, NEXT_BLKP, FTRP
<1> HIDE DEF sz
<1>4. ASSUME NEW b \in B \union {brk}, b # FirstBlk
      PROVE  \E c \in B : c + sz[c] = b
  BY <1>0, <1>3, <1>4
<1>5. brk % 8 = 0 /\ FirstBlk <= brk
  <2>1. CASE brk = FirstBlk
    BY <2>1, Layout
  <2>2. CASE brk # FirstBlk
    <3>1. PICK c \in B : c + sz[c] = brk
      BY <2>2, <1>4
    <3>2. c \in Nat /\ c % 8 = 0 /\ FirstBlk <= c /\ sz[c] \in Nat /\ sz[c] % 8 = 0
      BY <1>0, <1>2, <1>3
    <3> QED
      BY <3>1, <3>2, Layout
  <2> QED
    BY <2>1, <2>2
<1>6. Shape(B, sz, brk)
  <2>1. \A b \in B : /\ b % 8 = 0 /\ FirstBlk <= b
                     /\ sz[b] \in Nat /\ sz[b] % 8 = 0 /\ sz[b] >= 32
                     /\ b + sz[b] <= brk /\ b + sz[b] \in B \union {brk}
    BY <1>0, <1>3
  <2>2. \A b, c \in B : b < c => b + sz[b] <= c
    BY <1>0, <1>3
  <2>3. B \subseteq Nat
    BY <1>2
  <2> QED
    BY <2>1, <2>2, <2>3, <1>0, <1>4, <1>5 DEF Shape
<1>7. Marked(m, B, sz)
  <2>1. \A b \in B : m[b - 4] = sz[b] \/ m[b - 4] = sz[b] + 1
    BY <1>0, <1>3
  <2>2. \A b \in B : m[b + sz[b] - 8] = m[b - 4]
    BY <1>0, <1>3
  <2> QED
    BY <2>1, <2>2 DEF Marked
<1> QED
  BY <1>1, <1>6, <1>7 DEF Ends, sz

\* The invariants of MM, together, make the heap good.
LEMMA IInvPInv == IInv => PInv
<1> SUFFICES ASSUME IInv PROVE PInv
  OBVIOUS
<1>0. TypeOK /\ Untouched /\ Searching
  BY DEF IInv
<1> SUFFICES ASSUME heap_listp # NULL
             PROVE  \E sz, F : Good(mem, blocks, sz, mem_brk, F, live)
  BY <1>0 DEF PInv, Sound
<1> DEFINE sz == SizesOf(mem, blocks)
           F == FreeBlocks(mem, blocks)
           bk == Bk(blocks, sz)
<1>1. Tiled(mem, blocks, mem_brk) /\ Linked(mem, F) /\ Anchored(mem, F)
  BY DEF IInv, HeapTiled, SeglistLinked, NoRings
<1>2. /\ Typed(mem) /\ blocks \subseteq Arena /\ mem_brk \in Nat
      /\ mem_brk <= mem_max_addr /\ DOMAIN live \subseteq Arena
      /\ \A p \in DOMAIN live : live[p].size \in Sizes /\ live[p].kept \in Nat
  BY <1>0, Layout DEF TypeOK, Typed
<1>3. Shape(blocks, sz, mem_brk) /\ Marked(mem, blocks, sz) /\ Ends(mem, mem_brk)
  BY <1>1, <1>2, TiledShape
<1>4. \A b \in blocks : SizeAt(mem, b) = sz[b]
  BY DEF SizesOf
<1>f. F \subseteq blocks /\ F = {b \in blocks : IsFree(mem, b)}
  BY DEF FreeBlocks
<1>b. \A b \in blocks : BucketOf(mem, b) = bk[b]
  BY <1>4 DEF BucketOf, Bk
<1>s. sz = SizesOf(mem, blocks) /\ F = FreeBlocks(mem, blocks) /\ bk = Bk(blocks, sz)
  OBVIOUS
<1>c. Coalesced /\ HeldBlocks /\ PayloadIntact
      /\ \A p \in DOMAIN live : live[p].kept <= live[p].size
  BY DEF IInv
<1>n. \A b \in blocks : b \in Nat /\ sz[b] \in Nat /\ sz[b] % 8 = 0
  BY <1>3 DEF Shape
<1> HIDE DEF sz, F, bk
<1>5. ASSUME NEW b \in blocks
      PROVE  /\ b \in F => mem[b - 4] = sz[b]
             /\ b \notin F => mem[b - 4] = sz[b] + 1
             /\ NEXT_BLKP(mem, b) = b + sz[b]
  <2>1. mem[b - 4] = sz[b] \/ mem[b - 4] = sz[b] + 1
    BY <1>3 DEF Marked
  <2>2. GET_SIZE(mem[b - 4]) = sz[b] /\ (GET_ALLOC(mem[b - 4]) = 0 <=> mem[b - 4] = sz[b])
    BY <2>1, <1>n, TagWord
  <2>3. b \in F <=> GET_ALLOC(mem[b - 4]) = 0
    BY <1>f DEF IsFree, GET, HDRP
  <2> QED
    BY <2>1, <2>2, <2>3 DEF NEXT_BLKP, GET
<1>6. LinkedBy(mem, F, bk)
  <2>1. \A k \in Buckets : mem[BucketAddr(k)] # NULL =>
           /\ mem[BucketAddr(k)] \in F
           /\ BucketOf(mem, mem[BucketAddr(k)]) = BucketAddr(k)
           /\ mem[mem[BucketAddr(k)] + 4] = NULL
    BY <1>1 DEF Linked, GET
  <2>2. \A h \in Heads : mem[h] # NULL => /\ mem[h] \in F
                                          /\ BucketOf(mem, mem[h]) = h
                                          /\ mem[mem[h] + 4] = NULL
    BY <2>1 DEF Heads
  <2>3. \A h \in Heads : mem[h] # NULL => /\ mem[h] \in F
                                          /\ bk[mem[h]] = h
                                          /\ mem[mem[h] + 4] = NULL
    BY <2>2, <1>f, <1>b
  <2>4. ASSUME NEW b \in F
        PROVE  /\ mem[b] # NULL => /\ mem[b] \in F
                                   /\ BucketOf(mem, mem[b]) = BucketOf(mem, b)
                                   /\ mem[mem[b] + 4] = b
               /\ mem[b + 4] # NULL => /\ mem[b + 4] \in F
                                       /\ BucketOf(mem, mem[b + 4]) = BucketOf(mem, b)
                                       /\ mem[mem[b + 4]] = b
               /\ mem[b + 4] = NULL => mem[BucketOf(mem, b)] = b
    BY <1>1 DEF Linked, GET
  <2>5. ASSUME NEW b \in F
        PROVE  /\ mem[b] # NULL => /\ mem[b] \in F
                                   /\ bk[mem[b]] = bk[b]
                                   /\ mem[mem[b] + 4] = b
               /\ mem[b + 4] # NULL => /\ mem[b + 4] \in F
                                       /\ bk[mem[b + 4]] = bk[b]
                                       /\ mem[mem[b + 4]] = b
               /\ mem[b + 4] = NULL => mem[bk[b]] = b
    BY <2>4, <1>f, <1>b
  <2> QED
    BY <2>3, <2>5, <1>1 DEF LinkedBy
<1>7. Whole(mem, blocks, sz, mem_brk, F)
  <2>1. \A b \in F : b + sz[b] \notin F
    BY <1>5, <1>c, <1>f, <1>s DEF Coalesced
  <2>2. Heap(mem, blocks, sz, mem_brk, blocks, F)
    BY <1>2, <1>3, <1>5, <1>6, <1>f, <1>s DEF Heap
  <2> QED
    BY <2>1, <2>2, <1>5 DEF Whole
<1>8. Owns(mem, blocks \ F, sz, live)
  <2>1. {p - 8 : p \in DOMAIN live} = blocks \ F
    BY <1>c, <1>s DEF HeldBlocks
  <2>2. \A p \in DOMAIN live : p \in Nat /\ p - 8 \in blocks \ F
    BY <2>1, <1>2, ArenaInt
  <2>3. \A b \in blocks \ F : b + 8 \in DOMAIN live
    <3> SUFFICES ASSUME NEW b \in blocks \ F PROVE b + 8 \in DOMAIN live
      OBVIOUS
    <3>1. PICK p \in DOMAIN live : b = p - 8
      BY <2>1
    <3>2. p \in Nat
      BY <2>2
    <3>3. b + 8 = p
      BY <3>1, <3>2
    <3> QED
      BY <3>3
  <2>4. \A p \in DOMAIN live : /\ live[p].size \in Nat /\ live[p].kept \in Nat
                               /\ live[p].kept <= live[p].size
    BY <1>2, <1>c, NeedSize
  <2>5. \A p \in DOMAIN live : live[p].size + 16 <= sz[p - 8]
    BY <2>2, <1>4, <1>c DEF HeldBlocks
  <2>6. \A p \in DOMAIN live : \A a \in Arena :
          p <= a /\ a < p + live[p].kept => mem[a] = live[p].tag
    BY <1>c DEF PayloadIntact
  <2> QED
    BY <2>2, <2>3, <2>4, <2>5, <2>6 DEF Owns
<1> QED
  BY <1>7, <1>8 DEF Good

\* IInv is inductive: from any heap that satisfies it, reached or not, every
\* call and every iteration of find_fit leads to one that does.
THEOREM IInvInductive == IInv /\ [Next]_vars => IInv'
<1> SUFFICES ASSUME IInv, [Next]_vars PROVE IInv'
  OBVIOUS
<1>1. PInv
  BY IInvPInv
<1>2. PInv' /\ Passed'
  BY <1>1, StepPInv, PassedStep DEF IInv
<1>3. (PInv /\ Passed => IInv)'
  BY PInvIInv, PTL
<1> QED
  BY <1>2, <1>3

\* What mdriver.c's add_range tests of each payload never fails: payloads are
\* aligned, inside the heap, and do not overlap.
THEOREM PayloadSafety == Spec => []PayloadsSafe
<1>1. IInv => PInv
  BY IInvPInv
<1>2. PInv => PayloadsSafe
  BY PInvHeap
<1> QED
  BY <1>1, <1>2, Safety, PTL

\* The heap grows only when no free block would have served the request: the
\* search that starts at the list of find_bucket has passed every block of
\* every later list, and every block of an earlier one is too small.
THEOREM GrowthOnlyWhenFull == Spec => GrowsOnlyWhenFull
<1> DEFINE Grows == pc = "find_fit" /\ mem_brk' # mem_brk =>
                      \A b \in FreeBlocks(mem, blocks) : SizeAt(mem, b) < newsize
<1>1. IInv /\ [Next]_vars => [Grows]_vars
  <2> SUFFICES ASSUME IInv, [Next]_vars, pc = "find_fit", mem_brk' # mem_brk,
                      NEW b \in FreeBlocks(mem, blocks)
               PROVE  SizeAt(mem, b) < newsize
    OBVIOUS
  <2>1. no_fit
    BY DEF Next, vars, reset, mm_malloc, mm_realloc, mm_free, find_fit, search_step,
           next_node, next_bucket, fit
  <2>2. PInv /\ node = NULL /\ bucket >= BucketAddr(BUCKETS_COUNT)
    BY <2>1, IInvPInv DEF no_fit
  <2>3. PICK sz, F : Good(mem, blocks, sz, mem_brk, F, live)
    BY <2>2, SearchGood
  <2>4. BucketOf(mem, b) \in Heads
    BY <2>3, WholeBuckets DEF Good, FreeBlocks
  <2>5. PICK k \in Buckets : BucketOf(mem, b) = BucketAddr(k)
    BY <2>4 DEF Heads
  <2>6. BucketOf(mem, b) < bucket
    BY <2>2, <2>5, Layout DEF BucketAddr, mem_heap_lo, Buckets, PInv, TypeOK
  <2> QED
    BY <2>6 DEF IInv, Passed
<1> QED
  BY <1>1, Safety, PTL DEF Spec, GrowsOnlyWhenFull

-----------------------------------------------------------------------------
\* The refinement of Allocator.

\* No holder relies on an empty payload: mm_malloc ignores requests of size 0.
Positive ==
  /\ \A p \in DOMAIN live : live[p].kept > 0
  /\ pc = "find_fit" => req.size > 0

\* HeldView, as a function of what callers have been told alone.
LiveView(lv) ==
  [p \in DOMAIN lv |-> [size |-> lv[p].size, kept |-> lv[p].kept,
                        data |-> {lv[p].tag}]]

\* What deliver does to the payloads that are held.
LEMMA DeliverLive ==
  ASSUME PInv, pc = "find_fit", NEW m, NEW B, NEW bp, deliver(m, B, bp)
  PROVE  \/ /\ req.ptr = NULL /\ req.tag \in Tags
            /\ live' = Hold(live, bp + 8, [size |-> req.size, kept |-> req.size,
                                           tag |-> req.tag])
         \/ /\ req.ptr \in DOMAIN live
            /\ live' = Hold(Drop(live, req.ptr), bp + 8,
                            [size |-> req.size,
                             kept |-> IF req.size < live[req.ptr].kept
                                      THEN req.size ELSE live[req.ptr].kept,
                             tag  |-> live[req.ptr].tag])
<1>1. /\ req.ptr \in DOMAIN live \union {NULL}
      /\ req.ptr = NULL => req.tag \in Tags
  BY DEF PInv, Searching
<1>2. CASE req.ptr = NULL
  BY <1>1, <1>2 DEF deliver
<1>3. CASE req.ptr # NULL
  BY <1>1, <1>3 DEF deliver
<1> QED
  BY <1>2, <1>3

\* One more payload that is relied on.
LEMMA HoldKept ==
  ASSUME NEW lv, \A p \in DOMAIN lv : lv[p].kept > 0, NEW q, NEW h, h.kept > 0
  PROVE  \A p \in DOMAIN Hold(lv, q, h) : Hold(lv, q, h)[p].kept > 0
BY DEF Hold

\* The calls that change which payloads are held.
LEMMA HandoverPositive ==
  ASSUME PInv, Positive, pc = "find_fit", Handover
  PROVE  \A p \in DOMAIN live' : live'[p].kept > 0
<1>1. PICK m, B, bp : deliver(m, B, bp)
  BY DEF Handover
<1>2. req.size > 0 /\ \A p \in DOMAIN live : live[p].kept > 0
  BY DEF Positive
<1>3. \/ live' = Hold(live, bp + 8, [size |-> req.size, kept |-> req.size,
                                     tag |-> req.tag])
      \/ /\ req.ptr \in DOMAIN live
         /\ live' = Hold(Drop(live, req.ptr), bp + 8,
                         [size |-> req.size,
                          kept |-> IF req.size < live[req.ptr].kept
                                   THEN req.size ELSE live[req.ptr].kept,
                          tag  |-> live[req.ptr].tag])
  BY <1>1, DeliverLive
<1>4. CASE live' = Hold(live, bp + 8, [size |-> req.size, kept |-> req.size,
                                       tag |-> req.tag])
  BY <1>2, <1>4, HoldKept
<1>5. CASE /\ req.ptr \in DOMAIN live
           /\ live' = Hold(Drop(live, req.ptr), bp + 8,
                           [size |-> req.size,
                            kept |-> IF req.size < live[req.ptr].kept
                                     THEN req.size ELSE live[req.ptr].kept,
                            tag  |-> live[req.ptr].tag])
  <2> DEFINE h == [size |-> req.size,
                   kept |-> IF req.size < live[req.ptr].kept
                            THEN req.size ELSE live[req.ptr].kept,
                   tag  |-> live[req.ptr].tag]
             lv == Drop(live, req.ptr)
  <2>1. h.kept > 0
    BY <1>2, <1>5
  <2>2. \A p \in DOMAIN lv : lv[p].kept > 0
    BY <1>2 DEF Drop
  <2>3. live' = Hold(lv, bp + 8, h)
    BY <1>5
  <2> HIDE DEF h, lv
  <2> QED
    BY <2>1, <2>2, <2>3, HoldKept
<1> QED
  BY <1>3, <1>4, <1>5

\* No step makes a holder rely on an empty payload.
LEMMA PositiveStep == PInv /\ Positive /\ [Next]_vars => Positive'
<1> SUFFICES ASSUME PInv, Positive, [Next]_vars PROVE Positive'
  OBVIOUS
<1>1. ASSUME NEW ptr, NEW size \in Sizes, NEW tag, malloc_entry(ptr, size, tag)
      PROVE  Positive'
  <2>1. size \in Nat
    BY NeedSize
  <2>2. live' = live
    BY <1>1 DEF malloc_entry
  <2>3. pc' = "find_fit" => size # 0 /\ req' = [ptr |-> ptr, size |-> size, tag |-> tag]
    BY <1>1 DEF malloc_entry, EndCall
  <2> QED
    BY <2>1, <2>2, <2>3 DEF Positive
<1>2. ASSUME NEW ptr, mm_free(ptr) PROVE Positive'
  BY <1>2 DEF mm_free, Positive, Drop
<1>3. CASE reset
  BY <1>3 DEF reset, Positive
<1>4. CASE next_node \/ next_bucket
  BY <1>4 DEF next_node, next_bucket, Positive
<1>5. CASE fit
  BY <1>5, FitHandover, HandoverPositive DEF fit, EndCall, Positive
<1>6. CASE no_fit
  <2>1. pc = "find_fit"
    BY <1>6 DEF no_fit
  <2> QED
    BY <2>1, <1>6, NoFitHandover, HandoverPositive DEF EndCall, Positive
<1>7. CASE UNCHANGED vars
  BY <1>7 DEF vars, Positive
<1> QED
  BY <1>1, <1>2, <1>3, <1>4, <1>5, <1>6, <1>7
     DEF Next, mm_malloc, mm_realloc, find_fit, search_step

\* The words of a payload hold one value, the one its holder wrote.
LEMMA ViewIsLive == PInv /\ Positive => HeldView = LiveView(live)
<1> SUFFICES ASSUME PInv, Positive PROVE HeldView = LiveView(live)
  OBVIOUS
<1>1. PayloadIntact /\ DOMAIN live \subseteq Arena
  BY PInvHeap DEF PInv, TypeOK
<1>2. ASSUME NEW p \in DOMAIN live
      PROVE  DataAt(mem, p, live[p].kept) = {live[p].tag}
  <2>1. \A a \in Arena : p <= a /\ a < p + live[p].kept => mem[a] = live[p].tag
    BY <1>1 DEF PayloadIntact
  <2>2. p \in Arena /\ p \in Nat /\ live[p].kept \in Nat /\ live[p].kept > 0
    BY <1>1, ArenaInt DEF PInv, TypeOK, Positive
  <2>3. p <= p /\ p < p + live[p].kept
    BY <2>2
  <2> QED
    BY <2>1, <2>2, <2>3 DEF DataAt
<1> QED
  BY <1>2 DEF HeldView, LiveView

\* The view of the payloads after one more is held, or one less.
LEMMA ViewHold ==
  ASSUME NEW lv, NEW p, NEW h
  PROVE  LiveView(Hold(lv, p, h)) =
           Abstract!With(LiveView(lv), p,
                         [size |-> h.size, kept |-> h.kept, data |-> {h.tag}])
<1> DEFINE a == LiveView(Hold(lv, p, h))
           c == Abstract!With(LiveView(lv), p,
                              [size |-> h.size, kept |-> h.kept, data |-> {h.tag}])
           D == DOMAIN lv \union {p}
<1>1. /\ a = [q \in D |-> [size |-> Hold(lv, p, h)[q].size,
                           kept |-> Hold(lv, p, h)[q].kept,
                           data |-> {Hold(lv, p, h)[q].tag}]]
  BY DEF LiveView, Hold
<1>2. c = [q \in D |-> IF q = p
                       THEN [size |-> h.size, kept |-> h.kept, data |-> {h.tag}]
                       ELSE LiveView(lv)[q]]
  BY DEF LiveView, Abstract!With
<1>3. ASSUME NEW q \in D PROVE a[q] = c[q]
  <2>1. Hold(lv, p, h)[q] = IF q = p THEN h ELSE lv[q]
    BY DEF Hold
  <2>2. CASE q = p
    BY <2>1, <2>2, <1>1, <1>2
  <2>3. CASE q # p
    BY <2>1, <2>3, <1>1, <1>2 DEF LiveView
  <2> QED
    BY <2>2, <2>3
<1> HIDE DEF a, c
<1>4. a = c
  BY <1>1, <1>2, <1>3
<1> QED
  BY <1>4 DEF a, c

\* The view of the payloads that are left.
LEMMA ViewDrop ==
  ASSUME NEW lv, NEW p
  PROVE  LiveView(Drop(lv, p)) = Abstract!Without(LiveView(lv), p)
BY DEF LiveView, Drop, Abstract!Without

\* A payload that was not held fits besides the ones that were.
LEMMA FitsNew ==
  ASSUME PInv', NEW lv, NEW p, p \notin DOMAIN lv, NEW h, live' = Hold(lv, p, h)
  PROVE  /\ Abstract!Fits(LiveView(lv), p, h.size)
         /\ p \in mem_start_brk .. (mem_max_addr - 1)
<1> DEFINE l2 == Hold(lv, p, h)
<1>1. (PInv => PayloadsSafe)'
  BY PInvHeap, PTL
<1>2. /\ \A q \in DOMAIN l2 : /\ q % 8 = 0 /\ mem_start_brk <= q
                               /\ q + l2[q].size - 1 <= mem_brk' - 1
      /\ \A q, r \in DOMAIN l2 : q < r => q + l2[q].size <= r
  BY <1>1 DEF PayloadsSafe, mem_heap_lo, mem_heap_hi
<1>3. /\ \A q \in DOMAIN l2 : q \in Arena /\ l2[q].size \in Sizes
      /\ mem_brk' \in mem_start_brk .. mem_max_addr
  BY DEF PInv, TypeOK
<1>4. \A q \in DOMAIN l2 : q \in Nat /\ q < mem_max_addr /\ l2[q].size \in Nat
  BY <1>3, ArenaInt, NeedSize
<1>5. /\ p \in DOMAIN l2 /\ l2[p] = h
      /\ \A q \in DOMAIN lv : q \in DOMAIN l2 /\ l2[q] = lv[q] /\ q # p
  BY DEF Hold
<1> HIDE DEF l2
<1>6. mem_brk' \in Nat /\ mem_brk' <= mem_max_addr /\ mem_max_addr \in Nat
      /\ mem_start_brk \in Nat
  BY <1>3, Layout
<1>7. /\ p \in Nat /\ h.size \in Nat /\ p % 8 = 0 /\ mem_start_brk <= p
      /\ p < mem_max_addr /\ p + h.size <= mem_max_addr
  <2>1. p + h.size - 1 <= mem_brk' - 1
    BY <1>2, <1>5
  <2>2. p \in Nat /\ h.size \in Nat /\ p % 8 = 0 /\ mem_start_brk <= p /\ p < mem_max_addr
    BY <1>2, <1>4, <1>5
  <2> QED
    BY <2>1, <2>2, <1>6
<1>8. ASSUME NEW q \in DOMAIN lv
      PROVE  p + h.size <= q \/ q + LiveView(lv)[q].size <= p
  <2>1. q \in DOMAIN l2 /\ q \in Nat /\ q # p /\ l2[q] = lv[q]
    BY <1>4, <1>5
  <2>2. p < q \/ q < p
    BY <2>1, <1>7
  <2>3. LiveView(lv)[q].size = l2[q].size
    BY <2>1 DEF LiveView
  <2> QED
    BY <2>1, <2>2, <2>3, <1>2, <1>5
<1>9. DOMAIN LiveView(lv) = DOMAIN lv
  BY DEF LiveView
<1> QED
  BY <1>6, <1>7, <1>8, <1>9 DEF Abstract!Fits

\* A block of a good heap that is free holds no payload.
LEMMA FreeNotHeld ==
  ASSUME NEW m, NEW B, NEW sz, NEW brk, NEW F, NEW lv, Good(m, B, sz, brk, F, lv),
         NEW bp \in F
  PROVE  bp + 8 \notin DOMAIN lv
<1>1. bp \in Nat
  BY WholeFacts DEF Good
<1>2. \A p \in DOMAIN lv : p \in Nat /\ p - 8 \in B \ F
  BY DEF Good, Owns
<1> QED
  BY <1>1, <1>2

\* To its caller, the end of mm_malloc or mm_realloc is a step of Allocator.
LEMMA HandoverStep ==
  ASSUME PInv, Positive, PInv', pc = "find_fit", Handover,
         HeldView = LiveView(live), HeldView' = LiveView(live')
  PROVE  Abstract!Next
<1>1. PICK m, B, sz, F, bp :
        /\ Good(m, B, sz, mem_brk', F, live) /\ bp \in F /\ deliver(m, B, bp)
  BY DEF Handover
<1> DEFINE p == bp + 8
<1>2. p \notin DOMAIN live
  BY <1>1, FreeNotHeld
<1>3. req.size \in Sizes \ {0}
  BY DEF PInv, Searching, Positive
<1>4. CASE /\ req.ptr = NULL /\ req.tag \in Tags
           /\ live' = Hold(live, p, [size |-> req.size, kept |-> req.size,
                                     tag |-> req.tag])
  <2> DEFINE h == [size |-> req.size, kept |-> req.size, tag |-> req.tag]
  <2>1. live' = Hold(live, p, h) /\ h.size = req.size /\ h.kept = req.size /\ h.tag = req.tag
    BY <1>4
  <2> HIDE DEF h, p
  <2>2. Abstract!Fits(LiveView(live), p, h.size) /\ p \in mem_start_brk .. (mem_max_addr - 1)
    BY <2>1, <1>2, FitsNew
  <2>3. HeldView' = Abstract!With(HeldView, p, [size |-> h.size, kept |-> h.kept,
                                                data |-> {h.tag}])
    BY <2>1, ViewHold
  <2>4. Abstract!Malloc(p, req.size, req.tag)
    BY <2>1, <2>2, <2>3 DEF Abstract!Malloc
  <2> QED
    BY <2>2, <2>4, <1>3, <1>4 DEF Abstract!Next
<1>5. CASE /\ req.ptr \in DOMAIN live
           /\ live' = Hold(Drop(live, req.ptr), p,
                           [size |-> req.size,
                            kept |-> IF req.size < live[req.ptr].kept
                                     THEN req.size ELSE live[req.ptr].kept,
                            tag  |-> live[req.ptr].tag])
  <2> DEFINE q == req.ptr
             kept == IF req.size < live[q].kept THEN req.size ELSE live[q].kept
             h == [size |-> req.size, kept |-> kept, tag |-> live[q].tag]
             lv == Drop(live, q)
  <2>1. /\ live' = Hold(lv, p, h)
        /\ h.size = req.size /\ h.kept = kept /\ h.tag = live[q].tag
    BY <1>5
  <2>2. p \notin DOMAIN lv
    BY <1>2 DEF Drop
  <2>3. LiveView(lv) = Abstract!Without(HeldView, q)
    BY ViewDrop
  <2>4. /\ HeldView[q].kept = live[q].kept /\ HeldView[q].data = {live[q].tag}
        /\ DOMAIN HeldView = DOMAIN live
    BY <1>5 DEF LiveView
  <2> HIDE DEF h, p, lv
  <2>5. Abstract!Fits(LiveView(lv), p, h.size) /\ p \in mem_start_brk .. (mem_max_addr - 1)
    BY <2>1, <2>2, FitsNew
  <2>6. HeldView' = Abstract!With(Abstract!Without(HeldView, q), p,
                      [size |-> h.size, kept |-> h.kept, data |-> {h.tag}])
    BY <2>1, <2>3, ViewHold
  <2>7. kept = IF req.size < HeldView[q].kept THEN req.size ELSE HeldView[q].kept
    BY <2>4
  <2> HIDE DEF kept
  <2>8. Abstract!Realloc(q, p, req.size)
    BY <2>1, <2>3, <2>4, <2>5, <2>6, <2>7 DEF Abstract!Realloc
  <2>9. q \in DOMAIN HeldView
    BY <2>4, <1>5
  <2> HIDE DEF q
  <2> QED
    BY <2>5, <2>8, <2>9, <1>3 DEF Abstract!Next
<1> QED
  BY <1>1, <1>4, <1>5, DeliverLive

\* Every step of MM is a step of Allocator or changes nothing that a caller
\* can tell.
LEMMA RefineStep ==
  PInv /\ Positive /\ [Next]_vars => [Abstract!Next]_HeldView
<1> SUFFICES ASSUME PInv, Positive, [Next]_vars PROVE [Abstract!Next]_HeldView
  OBVIOUS
<1>1. PInv' /\ Positive'
  BY StepPInv, PositiveStep
<1>2. HeldView = LiveView(live)
  BY ViewIsLive
<1>3. HeldView' = LiveView(live')
  <2>1. (PInv /\ Positive => HeldView = LiveView(live))'
    BY ViewIsLive, PTL
  <2> QED
    BY <2>1, <1>1
<1>4. CASE live' = live
  BY <1>2, <1>3, <1>4
<1>5. ASSUME NEW ptr \in DOMAIN live, mm_free(ptr) PROVE Abstract!Next
  <2>1. live' = Drop(live, ptr)
    BY <1>5 DEF mm_free
  <2>2. Abstract!Free(ptr)
    BY <2>1, <1>2, <1>3, ViewDrop DEF Abstract!Free
  <2>3. ptr \in DOMAIN HeldView
    BY <1>2 DEF LiveView
  <2> QED
    BY <2>2, <2>3 DEF Abstract!Next
<1>6. CASE reset
  <2>1. live' = [p \in {} |-> 0]
    BY <1>6 DEF reset
  <2>2. LiveView([p \in {} |-> 0]) = [p \in {} |-> 0]
    BY DEF LiveView
  <2>3. Abstract!Reset
    BY <2>1, <2>2, <1>3 DEF Abstract!Reset
  <2> QED
    BY <2>3 DEF Abstract!Next
<1>7. CASE fit \/ no_fit
  <2>1. pc = "find_fit"
    BY <1>7 DEF fit, no_fit
  <2>2. Handover \/ live' = live
    BY <1>7, FitHandover, NoFitHandover
  <2> QED
    BY <2>1, <2>2, <1>1, <1>2, <1>3, <1>4, HandoverStep
<1>8. \A ptr, size, tag : malloc_entry(ptr, size, tag) => live' = live
  BY DEF malloc_entry
<1>9. next_node \/ next_bucket \/ UNCHANGED vars => live' = live
  BY DEF next_node, next_bucket, vars
<1> QED
  BY <1>4, <1>5, <1>6, <1>7, <1>8, <1>9
     DEF Next, mm_malloc, mm_realloc, find_fit, search_step

\* mm.c is a correct malloc package: whatever ordinary requests a program
\* makes, what it can see of the heap is a behaviour of Allocator.
THEOREM Refinement == Spec => ImplementsAllocator
<1>1. Init => PInv /\ Positive
  BY InitPInv DEF Init, Positive
<1>2. PInv /\ Positive /\ [Next]_vars => PInv' /\ Positive'
  BY StepPInv, PositiveStep
<1>3. Init => Abstract!Init
  BY DEF Init, Abstract!Init, HeldView
<1>4. PInv /\ Positive /\ [Next]_vars => [Abstract!Next]_HeldView
  BY RefineStep
<1> QED
  BY <1>1, <1>2, <1>3, <1>4, PTL DEF Spec, ImplementsAllocator, Abstract!Spec
=============================================================================
