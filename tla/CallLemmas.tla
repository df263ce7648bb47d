----------------------------- MODULE CallLemmas -----------------------------
(***************************************************************************)
(* What the functions of mm.c do to the heap.  First coalesce, case by     *)
(* case, on a heap that is complete but for one free block that is on no   *)
(* list; then what free_block, extend_heap, mm_init and place do to a      *)
(* whole heap and to the payloads held in it.                              *)
(***************************************************************************)
EXTENDS HeapLemmas

USE DEF WSIZE, DSIZE, ALIGNMENT, NULL

\* A heap as it is between calls: F are the free blocks, all listed, and no
\* two of them are neighbours.
Whole(m, B, sz, brk, F) ==
  /\ Heap(m, B, sz, brk, B, F)
  /\ \A b \in B \ F : m[b - 4] = sz[b] + 1
  /\ \A b \in F : b + sz[b] \notin F

\* The same, but for the free block x, which is on no list and may have free
\* neighbours.
Loose(m, B, sz, brk, F, x) ==
  /\ Heap(m, B, sz, brk, B, F)
  /\ x \in B /\ x \notin F /\ m[x - 4] = sz[x]
  /\ \A b \in B \ (F \union {x}) : m[b - 4] = sz[b] + 1
  /\ \A b \in F : b + sz[b] \notin F

\* The blocks of A are left as they are.
Kept(A, sz, m, s2, m2) ==
  \A c \in A : s2[c] = sz[c] /\ \A a \in Words(c, sz[c]) : m2[a] = m[a]

\* put_tags writes the two tags of a block and nothing else.
LEMMA PutTags ==
  ASSUME NEW m, Typed(m), NEW x, x - 4 \in Arena, NEW s \in Nat, s % 8 = 0,
         x + s - 8 \in Arena, NEW al \in {0, 1},
         NEW m2, m2 = put_tags(m, x, s, al)
  PROVE  /\ Typed(m2) /\ Bears(m2, x, s, s + al)
         /\ Agree(m, m2, {x - 4, x + s - 8})
<1> DEFINE h == PUT(m, x - 4, PACK(s, al))
           w == PACK(s, al)
<1>1. w = s + al /\ w \in Nat /\ GET_SIZE(w) = s
  BY PackParts DEF PACK
<1> HIDE DEF w
<1>2. Typed(h) /\ \A a \in Arena : h[a] = IF a = x - 4 THEN w ELSE m[a]
  BY <1>1 DEF Typed, PUT, w
<1>3. FTRP(h, x) = x + s - 8
  BY <1>1, <1>2 DEF FTRP, GET, HDRP
<1>4. m2 = PUT(h, x + s - 8, w)
  BY <1>3 DEF put_tags, HDRP, w
<1> HIDE DEF h
<1>5. Typed(m2) /\ \A a \in Arena : m2[a] = IF a = x + s - 8 THEN w ELSE h[a]
  BY <1>1, <1>2, <1>4 DEF Typed, PUT
<1> QED
  BY <1>1, <1>2, <1>5 DEF Agree, Bears

\* Where coalesce looks for the allocated bits of the neighbours.
LEMMA PrevBit ==
  ASSUME NEW m, NEW B, NEW sz, NEW brk, NEW F, Heap(m, B, sz, brk, B, F),
         NEW b \in B
  PROVE  /\ GET(m, FTRP(m, PREV_BLKP(m, b))) = m[b - 8]
         /\ b = FirstBlk => GET_ALLOC(m[b - 8]) = 1
         /\ b # FirstBlk => /\ PREV_BLKP(m, b) \in B
                            /\ PREV_BLKP(m, b) + sz[PREV_BLKP(m, b)] = b
                            /\ m[b - 8] = m[PREV_BLKP(m, b) - 4]
<1>0. b \in Nat /\ FirstBlk \in Nat /\ Ends(m, brk) /\ Shape(B, sz, brk) /\ Marked(m, B, sz)
  BY Layout DEF Heap, Shape
<1>1. CASE b = FirstBlk
  <2>1. m[b - 8] = 9 /\ m[b - 12] = 9
    BY <1>0, <1>1 DEF Ends
  <2>2. GET_SIZE(9) = 8 /\ GET_ALLOC(9) = 1
    BY DEF GET_SIZE, GET_ALLOC
  <2>3. PREV_BLKP(m, b) = b - 8
    BY <2>1, <2>2, <1>0 DEF PREV_BLKP, GET
  <2>4. b - 8 - 4 = b - 12 /\ b - 8 + 8 - 8 = b - 8
    BY <1>0
  <2>5. FTRP(m, b - 8) = b - 8
    BY <2>1, <2>2, <2>4 DEF FTRP, GET, HDRP
  <2> QED
    BY <2>1, <2>2, <2>3, <2>5, <1>1 DEF GET
<1>2. CASE b # FirstBlk
  <2>1. PICK c \in B : c + sz[c] = b
    BY <1>0, <1>2 DEF Shape
  <2>2. GET_SIZE(m[c - 4]) = sz[c] /\ FTRP(m, c) = c + sz[c] - 8
    BY HeapSize
  <2>3. c \in Nat /\ sz[c] \in Nat /\ m[c + sz[c] - 8] = m[c - 4]
    BY <1>0 DEF Shape, Marked
  <2>4. m[b - 8] = m[c - 4]
    BY <2>1, <2>3
  <2>5. PREV_BLKP(m, b) = c
    BY <2>1, <2>2, <2>3, <2>4 DEF PREV_BLKP, GET
  <2>6. FTRP(m, c) = b - 8
    BY <2>1, <2>2, <2>3, <1>0
  <2> QED
    BY <2>1, <2>4, <2>5, <2>6, <1>2 DEF GET
<1> QED
  BY <1>1, <1>2

\* The word after the footer of a block says whether the next is in use;
\* the epilogue counts as a block in use.
LEMMA NextBit ==
  ASSUME NEW m, NEW B, NEW sz, NEW brk, NEW F, Heap(m, B, sz, brk, B, F),
         NEW b \in B
  PROVE  /\ b + sz[b] \notin B => GET_ALLOC(m[b + sz[b] - 4]) = 1
         /\ NEXT_BLKP(m, b) = b + sz[b]
<1>1. b + sz[b] \in B \union {brk} /\ m[brk - 4] = 1
  BY DEF Heap, Shape, Ends
<1>2. GET_ALLOC(1) = 1
  BY DEF GET_ALLOC
<1>3. NEXT_BLKP(m, b) = b + sz[b]
  BY HeapSize
<1>4. ASSUME b + sz[b] \notin B PROVE GET_ALLOC(m[b + sz[b] - 4]) = 1
  <2>0. b \in Nat /\ sz[b] \in Nat /\ brk \in Nat
    BY DEF Heap, Shape
  <2>1. brk = b + sz[b]
    BY <1>1, <1>4
  <2>2. brk - 4 = b + sz[b] - 4
    BY <2>0, <2>1
  <2> QED
    BY <2>2, <1>1, <1>2
<1> QED
  BY <1>3, <1>4

\* The free neighbours of the block being merged.
LEMMA Neighbours ==
  ASSUME NEW m, NEW B, NEW sz, NEW brk, NEW F, NEW x, Loose(m, B, sz, brk, F, x)
  PROVE  /\ GET_ALLOC(GET(m, FTRP(m, PREV_BLKP(m, x)))) \in {0, 1}
         /\ GET_ALLOC(GET(m, HDRP(NEXT_BLKP(m, x)))) \in {0, 1}
         /\ GET_ALLOC(GET(m, FTRP(m, PREV_BLKP(m, x)))) = 0 =>
              /\ PREV_BLKP(m, x) \in F
              /\ PREV_BLKP(m, x) + sz[PREV_BLKP(m, x)] = x
         /\ GET_ALLOC(GET(m, FTRP(m, PREV_BLKP(m, x)))) = 1 =>
              \A f \in F : f + sz[f] # x
         /\ GET_ALLOC(GET(m, HDRP(NEXT_BLKP(m, x)))) = 0 => x + sz[x] \in F
         /\ GET_ALLOC(GET(m, HDRP(NEXT_BLKP(m, x)))) = 1 => x + sz[x] \notin F
         /\ NEXT_BLKP(m, x) = x + sz[x]
<1>0. /\ Heap(m, B, sz, brk, B, F) /\ x \in B /\ x \notin F /\ F \subseteq B
      /\ Shape(B, sz, brk)
      /\ \A b \in B \ (F \union {x}) : m[b - 4] = sz[b] + 1
      /\ \A b \in F : m[b - 4] = sz[b]
  BY DEF Loose, Heap
<1> DEFINE P == PREV_BLKP(m, x)
           N == x + sz[x]
<1>1. /\ GET(m, FTRP(m, P)) = m[x - 8]
      /\ x = FirstBlk => GET_ALLOC(m[x - 8]) = 1
      /\ x # FirstBlk => P \in B /\ P + sz[P] = x /\ m[x - 8] = m[P - 4]
  BY <1>0, PrevBit
<1>2. N \notin B => GET_ALLOC(m[N - 4]) = 1
  <2>1. x + sz[x] \notin B => GET_ALLOC(m[x + sz[x] - 4]) = 1
    BY <1>0, NextBit
  <2>2. x \in Nat /\ sz[x] \in Nat
    BY <1>0 DEF Shape
  <2> QED
    BY <2>1, <2>2
<1>n. NEXT_BLKP(m, x) = N
  BY <1>0, NextBit
<1>3. GET(m, HDRP(NEXT_BLKP(m, x))) = m[N - 4]
  BY <1>n DEF GET, HDRP
<1>4. ASSUME NEW b \in B, b # x
      PROVE  /\ GET_ALLOC(m[b - 4]) \in {0, 1}
             /\ GET_ALLOC(m[b - 4]) = 0 <=> b \in F
  <2>1. sz[b] \in Nat
    BY <1>0 DEF Shape
  <2>2. /\ GET_ALLOC(m[b - 4]) = 0 <=> m[b - 4] = sz[b]
        /\ GET_ALLOC(m[b - 4]) = 1 <=> m[b - 4] = sz[b] + 1
    BY <1>0, HeapSize
  <2> QED
    BY <2>1, <2>2, <1>0, <1>4
<1>5. \A b \in B : b \in Nat /\ sz[b] \in Nat /\ sz[b] >= 32
  BY <1>0 DEF Shape
<1>6. N # x
  BY <1>0, <1>5
<1>7. GET_ALLOC(m[N - 4]) \in {0, 1} /\ (GET_ALLOC(m[N - 4]) = 0 <=> N \in F)
  BY <1>0, <1>2, <1>4, <1>6
<1>8. CASE x = FirstBlk
  <2>1. \A f \in F : f + sz[f] # x
    BY <1>0, <1>5, <1>8 DEF Shape
  <2> QED
    BY <2>1, <1>1, <1>n, <1>3, <1>7, <1>8
<1>9. CASE x # FirstBlk
  <2>1. P \in B /\ P + sz[P] = x /\ m[x - 8] = m[P - 4]
    BY <1>1, <1>9
  <2>2. P # x
    BY <2>1, <1>5
  <2>3. GET_ALLOC(m[P - 4]) \in {0, 1} /\ (GET_ALLOC(m[P - 4]) = 0 <=> P \in F)
    BY <2>1, <2>2, <1>4
  <2>4. ASSUME NEW f \in F, f + sz[f] = x PROVE f = P
    <3>1. f \in B /\ f \in Nat /\ P \in Nat
      BY <2>1, <1>0, <1>5
    <3>2. (f < P => f + sz[f] <= P) /\ (P < f => P + sz[P] <= f)
      BY <3>1, <2>1, <1>0 DEF Shape
    <3> QED
      BY <3>1, <3>2, <2>1, <2>4, <1>5
  <2>5. GET_ALLOC(m[P - 4]) = 1 => \A f \in F : f + sz[f] # x
    BY <2>3, <2>4
  <2> QED
    BY <2>1, <2>3, <2>5, <1>1, <1>n, <1>3, <1>7
<1> QED
  BY <1>8, <1>9

\* What coalesce promises of the block bp that it is called for: the heap m2
\* is whole, b2 is a listed block around bp, and the allocated blocks and
\* their words are what they were.
Coalescence(m, B, sz, brk, F, bp, m2, b2, B2, s2, F2) ==
  /\ Whole(m2, B2, s2, brk, F2)
  /\ b2 \in F2 /\ B2 = Retile(B, m2, b2)
  /\ B2 \ F2 = B \ (F \union {bp})
  /\ Kept(B2 \ F2, sz, m, s2, m2)
  /\ b2 <= bp /\ bp + sz[bp] <= b2 + s2[b2]

\* The last step of each case: the merged block x is listed.
LEMMA Settle ==
  ASSUME NEW m, NEW B, NEW sz, NEW brk, NEW F, NEW bp,
         Loose(m, B, sz, brk, F, bp),
         NEW m3, NEW B3, NEW s3, NEW F3, NEW x,
         Heap(m3, B3, s3, brk, B3, F3),
         x \in B3, x \notin F3, m3[x - 4] = s3[x],
         B3 \subseteq B, F3 \subseteq F,
         B3 \ (F3 \union {x}) = B \ (F \union {bp}),
         \A b \in B3 \ {x} : s3[b] = sz[b],
         \A c \in B \ (F \union {bp}) : \A a \in Words(c, sz[c]) : m3[a] = m[a],
         \A b \in B \ B3 : x < b /\ b < x + s3[x],
         \A f \in F3 : f + sz[f] # x,
         x + s3[x] \notin F3,
         x <= bp, bp + sz[bp] <= x + s3[x],
         NEW m2, m2 = add_to_seglist(m3, x)
  PROVE  Coalescence(m, B, sz, brk, F, bp, m2, x, B3, s3, F3 \union {x})
<1> DEFINE F2 == F3 \union {x}
<1>0. Shape(B3, s3, brk) /\ F3 \subseteq B3 /\ Shape(B, sz, brk)
  BY DEF Heap, Loose
<1>1. Heap(m2, B3, s3, brk, B3, F2) /\ Agree(m3, m2, ListWords(F2))
  BY HeapAdd
<1>2. F2 \subseteq B3
  BY <1>0
<1>3. \A c \in B3 \ F2 : \A a \in Words(c, s3[c]) : a \in Arena \ ListWords(F2)
  BY <1>0, <1>2, ListsApart DEF Words
<1>4. \A c \in B3 \ F2 : s3[c] = sz[c] /\ c \in B \ (F \union {bp})
  OBVIOUS
<1>5. Kept(B3 \ F2, sz, m, s3, m2)
  BY <1>1, <1>3, <1>4 DEF Kept, Agree
<1>6. \A c \in B3 \ F2 : m2[c - 4] = s3[c] + 1
  <2> SUFFICES ASSUME NEW c \in B3 \ F2 PROVE m2[c - 4] = s3[c] + 1
    OBVIOUS
  <2>1. c \in Nat /\ s3[c] \in Nat /\ s3[c] >= 32 /\ c - 4 \in Arena
    BY <1>0, ShapeWords DEF Shape
  <2>2. c - 4 \in Words(c, s3[c])
    BY <2>1 DEF Words
  <2>3. m2[c - 4] = m3[c - 4] /\ m3[c - 4] = m[c - 4]
    BY <2>2, <1>1, <1>3, <1>4 DEF Agree
  <2>4. m[c - 4] = sz[c] + 1
    BY <1>4 DEF Loose
  <2> QED
    BY <2>3, <2>4, <1>4
<1>7. \A f \in F2 : f + s3[f] \notin F2
  <2> SUFFICES ASSUME NEW f \in F2 PROVE f + s3[f] \notin F2
    OBVIOUS
  <2>0. x \in Nat /\ s3[x] \in Nat /\ s3[x] >= 32
    BY <1>0 DEF Shape
  <2>1. CASE f = x
    BY <2>0, <2>1
  <2>2. CASE f # x
    <3>1. f \in F3 /\ f \in F /\ s3[f] = sz[f]
      BY <2>2, <1>0
    <3>2. f + sz[f] \notin F /\ f + sz[f] # x
      BY <3>1 DEF Loose
    <3>3. f + s3[f] = f + sz[f]
      BY <3>1
    <3> QED
      BY <3>2, <3>3
  <2> QED
    BY <2>1, <2>2
<1>8. Whole(m2, B3, s3, brk, F2)
  BY <1>1, <1>6, <1>7 DEF Whole
<1>9. B3 = Retile(B, m2, x)
  <2>1. NEXT_BLKP(m2, x) = x + s3[x]
    BY <1>1, HeapSize
  <2>2. ASSUME NEW b \in B3 PROVE b <= x \/ b >= x + s3[x]
    <3>1. b \in Nat /\ x \in Nat /\ s3[x] \in Nat /\ (x < b => x + s3[x] <= b)
      BY <1>0 DEF Shape
    <3> QED
      BY <3>1
  <2>3. ASSUME NEW b \in B, b <= x \/ b >= x + s3[x] PROVE b \in B3
    <3>1. b \in Nat /\ x \in Nat /\ s3[x] \in Nat
      BY <1>0 DEF Shape
    <3> QED
      BY <3>1, <2>3
  <2> QED
    BY <2>1, <2>2, <2>3 DEF Retile
<1>10. B3 \ F2 = B \ (F \union {bp})
  OBVIOUS
<1> HIDE DEF F2
<1>11. x \in F2
  BY DEF F2
<1>12. Coalescence(m, B, sz, brk, F, bp, m2, x, B3, s3, F2)
  BY <1>5, <1>8, <1>9, <1>10, <1>11 DEF Coalescence
<1> QED
  BY <1>12 DEF F2

\* put_tags with the bit clear.
LEMMA FreeTags ==
  ASSUME NEW m, Typed(m), NEW x, x - 4 \in Arena, NEW s \in Nat, s % 8 = 0,
         x + s - 8 \in Arena, NEW m2, m2 = put_tags(m, x, s, 0)
  PROVE  /\ Typed(m2) /\ Bears(m2, x, s, s)
         /\ Agree(m, m2, {x - 4, x + s - 8})
<1> DEFINE z == 0
<1>0. z \in {0, 1} /\ m2 = put_tags(m, x, s, z) /\ s + z = s
  OBVIOUS
<1> HIDE DEF z
<1>1. Typed(m2) /\ Bears(m2, x, s, s + z)
  BY <1>0, PutTags
<1>2. Agree(m, m2, {x - 4, x + s - 8})
  BY <1>0, PutTags
<1> QED
  BY <1>0, <1>1, <1>2

\* Nothing to merge.
LEMMA CoalesceAlone ==
  ASSUME NEW m, NEW B, NEW sz, NEW brk, NEW F, NEW bp,
         Loose(m, B, sz, brk, F, bp),
         bp + sz[bp] \notin F, \A f \in F : f + sz[f] # bp,
         NEW m2, m2 = add_to_seglist(m, bp)
  PROVE  Coalescence(m, B, sz, brk, F, bp, m2, bp, B, sz, F \union {bp})
<1>1. /\ Heap(m, B, sz, brk, B, F) /\ bp \in B /\ bp \notin F /\ m[bp - 4] = sz[bp]
      /\ bp \in Nat /\ sz[bp] \in Nat
  BY DEF Loose, Heap, Shape
<1>2. bp <= bp /\ bp + sz[bp] <= bp + sz[bp]
  BY <1>1
<1>3. \A b \in B \ B : bp < b /\ b < bp + sz[bp]
  OBVIOUS
<1> QED
  BY <1>1, <1>2, <1>3, Settle

\* The facts about a loose heap that the cases below start from.
LEMMA LooseFacts ==
  ASSUME NEW m, NEW B, NEW sz, NEW brk, NEW F, NEW bp,
         Loose(m, B, sz, brk, F, bp)
  PROVE  /\ Heap(m, B, sz, brk, B, F) /\ Shape(B, sz, brk) /\ Typed(m)
         /\ F \subseteq B /\ bp \in B /\ bp \notin F
         /\ \A b \in B : /\ b \in Nat /\ sz[b] \in Nat /\ sz[b] >= 32
                         /\ sz[b] % 8 = 0 /\ b % 8 = 0
         /\ \A b, c \in B : b < c => b + sz[b] <= c
         /\ \A f \in F : f + sz[f] \notin F
         /\ \A f \in F : m[f - 4] = sz[f]
BY DEF Loose, Heap, Shape

\* The next block is free.
LEMMA CoalesceNext ==
  ASSUME NEW m, NEW B, NEW sz, NEW brk, NEW F, NEW bp,
         Loose(m, B, sz, brk, F, bp), NEW N, bp + sz[bp] = N, N \in F,
         \A f \in F : f + sz[f] # bp,
         NEW m1, m1 = remove_from_seglist(m, N),
         NEW m3, m3 = put_tags(m1, bp, sz[bp] + sz[N], 0),
         NEW m2, m2 = add_to_seglist(m3, bp)
  PROVE  Coalescence(m, B, sz, brk, F, bp, m2, bp, B \ {N},
                     Merge(B, sz, bp, N), (F \ {N}) \union {bp})
<1> DEFINE B3 == B \ {N}
           s3 == Merge(B, sz, bp, N)
           F3 == F \ {N}
<1>0. /\ Heap(m, B, sz, brk, B, F) /\ Shape(B, sz, brk)
      /\ F \subseteq B /\ bp \in B /\ bp \notin F /\ N \in B
      /\ \A b \in B : b \in Nat /\ sz[b] \in Nat /\ sz[b] >= 32 /\ sz[b] % 8 = 0
      /\ \A f \in F : f + sz[f] \notin F
  BY LooseFacts
<1>h. Heap(m, B, sz, brk, B, F)
  BY <1>0
<1>1. Heap(m1, B, sz, brk, B, F3)
  BY <1>h, HeapRemove
<1>2. Agree(m, m1, ListWords(F))
  BY <1>h, HeapRemove
<1>3. Heap(m1, B3, s3, brk, B \ {bp, N}, F3)
  BY <1>0, <1>1, HeapMerge
<1>4. bp # N /\ bp < N
  BY <1>0
<1>5. s3[bp] = sz[bp] + sz[N] /\ \A b \in B3 \ {bp} : s3[b] = sz[b]
  BY <1>0, <1>4 DEF Merge
<1> HIDE DEF s3
<1>6. Shape(B3, s3, brk) /\ bp \in B3 /\ Typed(m1)
  BY <1>0, <1>3, <1>4 DEF Heap
<1>7. /\ s3[bp] \in Nat /\ s3[bp] % 8 = 0 /\ bp - 4 \in Arena
      /\ bp + s3[bp] - 8 \in Arena
  BY <1>6, ShapeWords DEF Shape
<1>8. m3 = put_tags(m1, bp, s3[bp], 0)
  BY <1>5
<1>9. Typed(m3) /\ Bears(m3, bp, s3[bp], s3[bp])
  BY <1>6, <1>7, <1>8, FreeTags
<1>10. Agree(m1, m3, {bp - 4, bp + s3[bp] - 8})
  BY <1>6, <1>7, <1>8, FreeTags
<1>11. bp \notin F3
  BY <1>0
<1>12. Heap(m3, B3, s3, brk, (B \ {bp, N}) \union {bp}, F3)
  BY <1>3, <1>6, <1>9, <1>10, <1>11, HeapTag
<1>13. (B \ {bp, N}) \union {bp} = B3
  BY <1>0, <1>4
<1>14. Heap(m3, B3, s3, brk, B3, F3)
  BY <1>12, <1>13
<1>15. ASSUME NEW c \in B \ (F \union {bp}), NEW a \in Words(c, sz[c])
       PROVE  m3[a] = m[a]
  <2>1. a \in Arena /\ c \in B3 /\ c # bp /\ s3[c] = sz[c]
    BY <1>5 DEF Words
  <2>2. a \in Words(c, s3[c])
    BY <2>1
  <2>3. a # bp - 4 /\ a # bp + s3[bp] - 8
    BY <2>1, <2>2, <1>6, TagsApart
  <2>4. a \notin ListWords(F)
    BY <1>0, ListsApart
  <2> QED
    BY <2>1, <2>3, <2>4, <1>2, <1>10 DEF Agree
<1>16. bp + s3[bp] = N + sz[N]
  BY <1>0, <1>5
<1>17. bp + s3[bp] \notin F3
  BY <1>0, <1>16
<1>18. bp <= bp /\ bp + sz[bp] <= bp + s3[bp]
  BY <1>0, <1>5
<1>19. \A b \in B \ B3 : bp < b /\ b < bp + s3[bp]
  BY <1>0, <1>4, <1>16
<1>20. B3 \ (F3 \union {bp}) = B \ (F \union {bp})
  OBVIOUS
<1>21. /\ \A f \in F3 : f + sz[f] # bp
       /\ \A c \in B \ (F \union {bp}) : \A a \in Words(c, sz[c]) : m3[a] = m[a]
       /\ B3 \subseteq B /\ F3 \subseteq F /\ bp \notin F3
  BY <1>0, <1>15
<1> HIDE DEF B3, F3
<1>22. Coalescence(m, B, sz, brk, F, bp, m2, bp, B3, s3, F3 \union {bp})
  BY <1>5, <1>6, <1>9, <1>14, <1>17, <1>18, <1>19, <1>20, <1>21, Settle DEF Bears
<1> QED
  BY <1>22 DEF B3, F3, s3

\* A block finds its predecessor as long as the predecessor's footer stands.
LEMMA PrevFound ==
  ASSUME NEW m, NEW B, NEW sz, NEW brk, NEW T, NEW F, Heap(m, B, sz, brk, T, F),
         NEW P \in T, NEW b \in B, P + sz[P] = b, NEW m2, m2[b - 8] = m[b - 8]
  PROVE  PREV_BLKP(m2, b) = P
<1>1. /\ P \in Nat /\ sz[P] \in Nat /\ b \in Nat /\ b = P + sz[P]
      /\ m[P + sz[P] - 8] = m[P - 4]
  BY DEF Heap, Shape, Marked
<1>2. m2[b - 8] = m[P - 4]
  BY <1>1
<1>3. GET_SIZE(m[P - 4]) = sz[P]
  BY HeapSize
<1>4. PREV_BLKP(m2, b) = b - sz[P]
  BY <1>2, <1>3 DEF PREV_BLKP, GET
<1> QED
  BY <1>1, <1>4

\* The memory in the third and fourth case of coalesce, before the block is
\* listed.
merge_prev(m, sz, bp, prev) ==
  LET sum == sz[bp] + sz[prev]
      m1 == remove_from_seglist(m, prev)
      m2 == PUT(m1, FTRP(m1, bp), PACK(sum, 0))
  IN  PUT(m2, HDRP(PREV_BLKP(m2, bp)), PACK(sum, 0))

merge_both(m, sz, bp, prev, next) ==
  LET sum == sz[bp] + sz[prev] + sz[next]
      m1 == remove_from_seglist(remove_from_seglist(m, next), prev)
      m2 == PUT(m1, HDRP(PREV_BLKP(m1, bp)), PACK(sum, 0))
  IN  PUT(m2, FTRP(m2, NEXT_BLKP(m2, bp)), PACK(sum, 0))

\* The tags of m lead from block b back to block p.
LeadsBack(m, b, p) == PREV_BLKP(m, b) = p

\* Block y is the next block of x.
Before(sz, x, y) == x + sz[x] = y

\* The previous block is free.
LEMMA CoalescePrev ==
  ASSUME NEW m, NEW B, NEW sz, NEW brk, NEW F, NEW bp,
         Loose(m, B, sz, brk, F, bp), NEW P, Before(sz, P, bp), P \in F,
         bp + sz[bp] \notin F,
         NEW m3, m3 = merge_prev(m, sz, bp, P),
         NEW m2, m2 = add_to_seglist(m3, P)
  PROVE  /\ LeadsBack(m3, bp, P)
         /\ Coalescence(m, B, sz, brk, F, bp, m2, P, B \ {bp},
                        Merge(B, sz, P, bp), (F \ {P}) \union {P})
<1> DEFINE B3 == B \ {bp}
           s3 == Merge(B, sz, P, bp)
           F3 == F \ {P}
           m1 == remove_from_seglist(m, P)
           sum == sz[bp] + sz[P]
           ma == PUT(m1, FTRP(m1, bp), PACK(sum, 0))
<1>d. m3 = PUT(ma, HDRP(PREV_BLKP(ma, bp)), PACK(sum, 0))
  BY DEF merge_prev
<1>e. /\ m1 = remove_from_seglist(m, P) /\ sum = sz[bp] + sz[P]
      /\ ma = PUT(m1, FTRP(m1, bp), PACK(sum, 0))
  OBVIOUS
<1> HIDE DEF m1, sum, ma
<1>0. /\ Shape(B, sz, brk)
      /\ F \subseteq B /\ bp \in B /\ bp \notin F /\ P \in B
      /\ \A b \in B : b \in Nat /\ sz[b] \in Nat /\ sz[b] >= 32 /\ sz[b] % 8 = 0
      /\ \A f \in F : f + sz[f] \notin F
  BY LooseFacts
<1>h. Heap(m, B, sz, brk, B, F)
  BY LooseFacts
<1> USE DEF Before
<1>1. Heap(m1, B, sz, brk, B, F3)
  BY <1>e, <1>h, HeapRemove
<1>2. Agree(m, m1, ListWords(F))
  BY <1>e, <1>h, HeapRemove
<1>3. Heap(m1, B3, s3, brk, B \ {P, bp}, F3)
  BY <1>0, <1>1, HeapMerge
<1>4. bp # P /\ P < bp
  BY <1>0
<1>5. s3[P] = sz[P] + sz[bp] /\ \A b \in B3 \ {P} : s3[b] = sz[b]
  BY <1>0, <1>4 DEF Merge
<1> HIDE DEF s3
<1>6. Shape(B3, s3, brk) /\ P \in B3 /\ Typed(m1)
  BY <1>0, <1>3, <1>4 DEF Heap
<1>7. /\ s3[P] \in Nat /\ s3[P] % 8 = 0 /\ P - 4 \in Arena
      /\ P + s3[P] - 8 \in Arena /\ bp - 8 \in Arena
  <2>1. P + sz[P] - 8 \in Arena
    BY <1>0, ShapeWords
  <2>2. P + sz[P] - 8 = bp - 8
    BY <1>0
  <2>3. P - 4 \in Arena /\ P + s3[P] - 8 \in Arena
    BY <1>6, ShapeWords
  <2>4. s3[P] \in Nat /\ s3[P] % 8 = 0
    BY <1>6 DEF Shape
  <2> QED
    BY <2>1, <2>2, <2>3, <2>4
<1>8. FTRP(m1, bp) = P + s3[P] - 8
  <2>1. FTRP(m1, bp) = bp + sz[bp] - 8
    BY <1>0, <1>1, HeapSize
  <2> QED
    BY <2>1, <1>0, <1>5
<1>9. sum = s3[P] /\ PACK(sum, 0) = s3[P]
  BY <1>e, <1>0, <1>5, <1>7 DEF PACK
<1>10. Typed(ma) /\ \A a \in Arena : ma[a] = IF a = P + s3[P] - 8 THEN s3[P] ELSE m1[a]
  BY <1>e, <1>6, <1>7, <1>8, <1>9 DEF Typed, PUT
<1>11. bp - 8 # P + s3[P] - 8 /\ bp - 8 # P - 4 /\ P - 4 # P + s3[P] - 8
  BY <1>0, <1>5
<1>12. PREV_BLKP(ma, bp) = P
  <2>1. ma[bp - 8] = m1[bp - 8]
    BY <1>7, <1>10, <1>11
  <2> QED
    BY <2>1, <1>0, <1>1, PrevFound
<1>13. Typed(m3) /\ \A a \in Arena : m3[a] = IF a = P - 4 THEN s3[P] ELSE ma[a]
  BY <1>d, <1>7, <1>9, <1>10, <1>12 DEF Typed, PUT, HDRP
<1>14. PREV_BLKP(m3, bp) = P
  <2>1. m3[bp - 8] = m1[bp - 8]
    BY <1>7, <1>10, <1>11, <1>13
  <2> QED
    BY <2>1, <1>0, <1>1, PrevFound
<1>15. Bears(m3, P, s3[P], s3[P]) /\ Agree(m1, m3, {P - 4, P + s3[P] - 8})
  BY <1>7, <1>10, <1>11, <1>13 DEF Bears, Agree
<1>16. P \notin F3
  OBVIOUS
<1>17. Heap(m3, B3, s3, brk, (B \ {P, bp}) \union {P}, F3)
  BY <1>3, <1>6, <1>13, <1>15, <1>16, HeapTag
<1>18. (B \ {P, bp}) \union {P} = B3
  BY <1>0, <1>4
<1>19. Heap(m3, B3, s3, brk, B3, F3)
  BY <1>17, <1>18
<1>20. ASSUME NEW c \in B \ (F \union {bp}), NEW a \in Words(c, sz[c])
       PROVE  m3[a] = m[a]
  <2>1. a \in Arena /\ c \in B3 /\ c # P /\ s3[c] = sz[c]
    BY <1>5 DEF Words
  <2>2. a \in Words(c, s3[c])
    BY <2>1
  <2>3. a # P - 4 /\ a # P + s3[P] - 8
    BY <2>1, <2>2, <1>6, TagsApart
  <2>4. a \notin ListWords(F)
    BY <1>0, ListsApart
  <2> QED
    BY <2>1, <2>3, <2>4, <1>2, <1>15 DEF Agree
<1>21. P + s3[P] = bp + sz[bp]
  BY <1>0, <1>5
<1>22. P + s3[P] \notin F3
  BY <1>21
<1>23. P <= bp /\ bp + sz[bp] <= P + s3[P]
  BY <1>0, <1>4, <1>21
<1>24. \A b \in B \ B3 : P < b /\ b < P + s3[P]
  BY <1>0, <1>4, <1>21
<1>25. B3 \ (F3 \union {P}) = B \ (F \union {bp})
  OBVIOUS
<1>26. /\ \A f \in F3 : f + sz[f] # P
       /\ \A c \in B \ (F \union {bp}) : \A a \in Words(c, sz[c]) : m3[a] = m[a]
       /\ B3 \subseteq B /\ F3 \subseteq F
  BY <1>0, <1>20
<1> HIDE DEF B3, F3
<1>27. Coalescence(m, B, sz, brk, F, bp, m2, P, B3, s3, F3 \union {P})
  BY <1>5, <1>6, <1>15, <1>16, <1>19, <1>22, <1>23, <1>24, <1>25, <1>26, Settle DEF Bears
<1> QED
  BY <1>14, <1>27 DEF LeadsBack, B3, F3, s3

\* Both neighbours are free.
LEMMA CoalesceBoth ==
  ASSUME NEW m, NEW B, NEW sz, NEW brk, NEW F, NEW bp,
         Loose(m, B, sz, brk, F, bp), NEW P, Before(sz, P, bp), P \in F,
         NEW N, Before(sz, bp, N), N \in F,
         NEW m3, m3 = merge_both(m, sz, bp, P, N),
         NEW m2, m2 = add_to_seglist(m3, P)
  PROVE  /\ LeadsBack(m3, bp, P)
         /\ Coalescence(m, B, sz, brk, F, bp, m2, P, (B \ {bp}) \ {N},
                        Merge(B \ {bp}, Merge(B, sz, P, bp), P, N),
                        ((F \ {N}) \ {P}) \union {P})
<1> DEFINE B1 == B \ {bp}
           s1 == Merge(B, sz, P, bp)
           B3 == B1 \ {N}
           s3 == Merge(B1, s1, P, N)
           Fn == F \ {N}
           F3 == Fn \ {P}
           mn == remove_from_seglist(m, N)
           m1 == remove_from_seglist(mn, P)
           sum == sz[bp] + sz[P] + sz[N]
           ma == PUT(m1, HDRP(PREV_BLKP(m1, bp)), PACK(sum, 0))
<1>d. m3 = PUT(ma, FTRP(ma, NEXT_BLKP(ma, bp)), PACK(sum, 0))
  BY DEF merge_both
<1>e. /\ mn = remove_from_seglist(m, N) /\ m1 = remove_from_seglist(mn, P)
      /\ sum = sz[bp] + sz[P] + sz[N]
      /\ ma = PUT(m1, HDRP(PREV_BLKP(m1, bp)), PACK(sum, 0))
  OBVIOUS
<1> HIDE DEF mn, m1, sum, ma
<1>0. /\ Shape(B, sz, brk)
      /\ F \subseteq B /\ bp \in B /\ bp \notin F /\ P \in B /\ N \in B
      /\ \A b \in B : b \in Nat /\ sz[b] \in Nat /\ sz[b] >= 32 /\ sz[b] % 8 = 0
      /\ \A f \in F : f + sz[f] \notin F
  BY LooseFacts
<1>h. Heap(m, B, sz, brk, B, F)
  BY LooseFacts
<1> USE DEF Before
<1>4. bp # P /\ P < bp /\ bp # N /\ bp < N /\ P # N
  BY <1>0
<1>1. Heap(mn, B, sz, brk, B, Fn) /\ Agree(m, mn, ListWords(F))
  <2>1. Heap(mn, B, sz, brk, B, Fn)
    BY <1>e, <1>h, HeapRemove
  <2>2. Agree(m, mn, ListWords(F))
    BY <1>e, <1>h, HeapRemove
  <2> QED
    BY <2>1, <2>2
<1>2. Heap(m1, B, sz, brk, B, F3) /\ Agree(mn, m1, ListWords(Fn))
  <2>1. P \in Fn
    BY <1>4
  <2> HIDE DEF Fn
  <2>2. Heap(m1, B, sz, brk, B, F3)
    BY <2>1, <1>e, <1>1, HeapRemove
  <2>3. Agree(mn, m1, ListWords(Fn))
    BY <2>1, <1>e, <1>1, HeapRemove
  <2> QED
    BY <2>2, <2>3
<1>3. Agree(m, m1, ListWords(F))
  <2>1. ListWords(Fn) \subseteq ListWords(F)
    BY DEF ListWords
  <2> HIDE DEF Fn
  <2> QED
    BY <2>1, <1>1, <1>2 DEF Agree
<1>5. Heap(m1, B1, s1, brk, B \ {P, bp}, F3)
  BY <1>0, <1>2, HeapMerge
<1>6. /\ s1[P] = sz[P] + sz[bp] /\ \A b \in B1 \ {P} : s1[b] = sz[b]
      /\ P \in B1 /\ N \in B1
  BY <1>0, <1>4 DEF Merge
<1> HIDE DEF s1
<1>7. P + s1[P] = N /\ s1[N] = sz[N]
  BY <1>0, <1>4, <1>6
<1>8. P \notin F3 /\ N \notin F3
  OBVIOUS
<1>9. Heap(m1, B3, s3, brk, (B \ {P, bp}) \ {P, N}, F3)
  <2> HIDE DEF B1, F3
  <2> QED
    BY <1>5, <1>6, <1>7, <1>8, HeapMerge
<1>10. s3[P] = sz[P] + sz[bp] + sz[N] /\ \A b \in B3 \ {P} : s3[b] = sz[b]
  BY <1>0, <1>4, <1>6, <1>7 DEF Merge
<1> HIDE DEF s3
<1>11. Shape(B3, s3, brk) /\ P \in B3 /\ Typed(m1)
  BY <1>0, <1>4, <1>9 DEF Heap
<1>12. /\ s3[P] \in Nat /\ s3[P] % 8 = 0 /\ P - 4 \in Arena
       /\ P + s3[P] - 8 \in Arena /\ bp - 8 \in Arena
       /\ bp - 4 \in Arena /\ N - 4 \in Arena
  <2>1. P + sz[P] - 8 \in Arena /\ bp - 4 \in Arena /\ N - 4 \in Arena
    BY <1>0, ShapeWords
  <2>2. P + sz[P] - 8 = bp - 8
    BY <1>0
  <2>3. P - 4 \in Arena /\ P + s3[P] - 8 \in Arena
    BY <1>11, ShapeWords
  <2>4. s3[P] \in Nat /\ s3[P] % 8 = 0
    BY <1>11 DEF Shape
  <2> QED
    BY <2>1, <2>2, <2>3, <2>4
<1>13. /\ bp - 8 # P + s3[P] - 8 /\ bp - 8 # P - 4 /\ P - 4 # P + s3[P] - 8
       /\ bp - 4 # P - 4 /\ N - 4 # P - 4
  BY <1>0, <1>4, <1>10
<1>14. sum = s3[P] /\ PACK(sum, 0) = s3[P]
  BY <1>e, <1>0, <1>10, <1>12 DEF PACK
<1>15. PREV_BLKP(m1, bp) = P
  BY <1>0, <1>2, PrevFound
<1>16. Typed(ma) /\ \A a \in Arena : ma[a] = IF a = P - 4 THEN s3[P] ELSE m1[a]
  BY <1>e, <1>11, <1>12, <1>14, <1>15 DEF Typed, PUT, HDRP
<1>17. FTRP(ma, NEXT_BLKP(ma, bp)) = P + s3[P] - 8
  <2>1. ma[bp - 4] = m1[bp - 4] /\ ma[N - 4] = m1[N - 4]
    BY <1>12, <1>13, <1>16
  <2>2. GET_SIZE(m1[bp - 4]) = sz[bp]
    BY <1>0, <1>2, HeapSize
  <2>3. GET_SIZE(m1[N - 4]) = sz[N]
    BY <1>0, <1>2, HeapSize
  <2>4. NEXT_BLKP(ma, bp) = N
    BY <2>1, <2>2 DEF NEXT_BLKP, GET
  <2>5. FTRP(ma, N) = N + sz[N] - 8
    BY <2>1, <2>3 DEF FTRP, GET, HDRP
  <2>6. N + sz[N] - 8 = P + s3[P] - 8
    BY <1>0, <1>10
  <2> QED
    BY <2>4, <2>5, <2>6
<1>18. Typed(m3) /\ \A a \in Arena : m3[a] = IF a = P + s3[P] - 8 THEN s3[P] ELSE ma[a]
  BY <1>d, <1>12, <1>14, <1>16, <1>17 DEF Typed, PUT
<1>19. PREV_BLKP(m3, bp) = P
  <2>1. m3[bp - 8] = m1[bp - 8]
    BY <1>12, <1>13, <1>16, <1>18
  <2> QED
    BY <2>1, <1>0, <1>2, PrevFound
<1>20. Bears(m3, P, s3[P], s3[P]) /\ Agree(m1, m3, {P - 4, P + s3[P] - 8})
  BY <1>12, <1>13, <1>16, <1>18 DEF Bears, Agree
<1>21. Heap(m3, B3, s3, brk, ((B \ {P, bp}) \ {P, N}) \union {P}, F3)
  BY <1>8, <1>9, <1>11, <1>18, <1>20, HeapTag
<1>22. ((B \ {P, bp}) \ {P, N}) \union {P} = B3
  BY <1>0, <1>4
<1>23. Heap(m3, B3, s3, brk, B3, F3)
  BY <1>21, <1>22
<1>24. ASSUME NEW c \in B \ (F \union {bp}), NEW a \in Words(c, sz[c])
       PROVE  m3[a] = m[a]
  <2>1. a \in Arena /\ c \in B3 /\ c # P /\ s3[c] = sz[c]
    BY <1>10 DEF Words
  <2>2. a \in Words(c, s3[c])
    BY <2>1
  <2>3. a # P - 4 /\ a # P + s3[P] - 8
    BY <2>1, <2>2, <1>11, TagsApart
  <2>4. a \notin ListWords(F)
    BY <1>0, ListsApart
  <2> QED
    BY <2>1, <2>3, <2>4, <1>3, <1>20 DEF Agree
<1>25. P + s3[P] = N + sz[N] /\ N < N + sz[N]
  BY <1>0, <1>10
<1>26. P + s3[P] \notin F3
  BY <1>0, <1>25
<1>27. P <= bp /\ bp + sz[bp] <= P + s3[P]
  BY <1>0, <1>4, <1>25
<1>28. \A b \in B \ B3 : P < b /\ b < P + s3[P]
  BY <1>0, <1>4, <1>25
<1>29. B3 \ (F3 \union {P}) = B \ (F \union {bp})
  BY <1>0
<1>30. /\ \A f \in F3 : f + sz[f] # P
       /\ \A c \in B \ (F \union {bp}) : \A a \in Words(c, sz[c]) : m3[a] = m[a]
       /\ B3 \subseteq B /\ F3 \subseteq F
  BY <1>0, <1>24
<1> HIDE DEF B3, F3
<1>31. Coalescence(m, B, sz, brk, F, bp, m2, P, B3, s3, F3 \union {P})
  BY <1>8, <1>10, <1>11, <1>20, <1>23, <1>26, <1>27, <1>28, <1>29, <1>30, Settle DEF Bears
<1> QED
  BY <1>19, <1>31 DEF LeadsBack, B1, B3, Fn, F3, s1, s3

(***************************************************************************)
(* coalesce, called for a free block that is on no list, makes the heap    *)
(* whole again around it and leaves the allocated blocks alone.            *)
(***************************************************************************)
THEOREM CoalesceWhole ==
  ASSUME NEW m, NEW B, NEW sz, NEW brk, NEW F, NEW bp,
         Loose(m, B, sz, brk, F, bp)
  PROVE  \E B2, s2, F2 :
           Coalescence(m, B, sz, brk, F, bp, coalesce(m, bp).mem,
                       coalesce(m, bp).bp, B2, s2, F2)
<1> DEFINE pa == GET_ALLOC(GET(m, FTRP(m, PREV_BLKP(m, bp))))
           na == GET_ALLOC(GET(m, HDRP(NEXT_BLKP(m, bp))))
           P == PREV_BLKP(m, bp)
           N == bp + sz[bp]
<1>0. Heap(m, B, sz, brk, B, F) /\ bp \in B /\ F \subseteq B
  BY LooseFacts
<1>1. GET_SIZE(GET(m, HDRP(bp))) = sz[bp]
  BY <1>0, HeapSize DEF GET, HDRP
<1>2. pa \in {0, 1} /\ na \in {0, 1} /\ NEXT_BLKP(m, bp) = N
  BY Neighbours
<1>3. pa = 0 => P \in F /\ P + sz[P] = bp
  BY Neighbours
<1>4. pa = 1 => \A f \in F : f + sz[f] # bp
  BY Neighbours
<1>5. na = 0 => N \in F
  BY Neighbours
<1>6. na = 1 => N \notin F
  BY Neighbours
<1>7. CASE pa = 1 /\ na = 1
  <2>1. coalesce(m, bp) = [mem |-> add_to_seglist(m, bp), bp |-> bp]
    BY <1>7 DEF coalesce
  <2>2. Coalescence(m, B, sz, brk, F, bp, add_to_seglist(m, bp), bp, B, sz, F \union {bp})
    BY <1>4, <1>6, <1>7, CoalesceAlone
  <2> QED
    BY <2>1, <2>2
<1>8. CASE pa = 1 /\ na = 0
  <2> DEFINE m1 == remove_from_seglist(m, N)
             m3 == put_tags(m1, bp, sz[bp] + sz[N], 0)
             m2 == add_to_seglist(m3, bp)
  <2>0. GET_SIZE(GET(m, HDRP(NEXT_BLKP(m, bp)))) = sz[N]
    BY <1>0, <1>2, <1>5, <1>8, HeapSize DEF GET, HDRP
  <2>1. coalesce(m, bp) = [mem |-> m2, bp |-> bp]
    BY <2>0, <1>1, <1>2, <1>8 DEF coalesce
  <2>2. m1 = remove_from_seglist(m, N) /\ N \in F /\ bp + sz[bp] = N
    BY <1>5, <1>8
  <2>3. m3 = put_tags(m1, bp, sz[bp] + sz[N], 0) /\ m2 = add_to_seglist(m3, bp)
    OBVIOUS
  <2> HIDE DEF N, m1, m2, m3
  <2>4. Coalescence(m, B, sz, brk, F, bp, m2, bp, B \ {N}, Merge(B, sz, bp, N),
                    (F \ {N}) \union {bp})
    BY <2>2, <2>3, <1>4, <1>8, CoalesceNext
  <2> QED
    BY <2>1, <2>4
<1>9. CASE pa = 0 /\ na = 1
  <2> DEFINE m3 == merge_prev(m, sz, bp, P)
             m2 == add_to_seglist(m3, P)
             b2 == PREV_BLKP(m3, bp)
  <2>0. GET_SIZE(GET(m, HDRP(P))) = sz[P]
    BY <1>0, <1>3, <1>9, HeapSize DEF GET, HDRP
  <2>1. coalesce(m, bp) = [mem |-> add_to_seglist(m3, b2), bp |-> b2]
    BY <2>0, <1>1, <1>9 DEF coalesce, merge_prev
  <2>2. P \in F /\ Before(sz, P, bp) /\ bp + sz[bp] \notin F
    BY <1>3, <1>6, <1>9 DEF Before
  <2>3. /\ m3 = merge_prev(m, sz, bp, P)
        /\ m2 = add_to_seglist(m3, P)
    OBVIOUS
  <2> HIDE DEF P, m2, m3
  <2>4. LeadsBack(m3, bp, P)
    BY <2>2, <2>3, CoalescePrev
  <2>5. Coalescence(m, B, sz, brk, F, bp, m2, P, B \ {bp}, Merge(B, sz, P, bp),
                    (F \ {P}) \union {P})
    BY <2>2, <2>3, CoalescePrev
  <2> QED
    BY <2>1, <2>3, <2>4, <2>5 DEF LeadsBack
<1>10. CASE pa = 0 /\ na = 0
  <2> DEFINE m3 == merge_both(m, sz, bp, P, N)
             m2 == add_to_seglist(m3, P)
             b2 == PREV_BLKP(m3, bp)
  <2>0. GET_SIZE(GET(m, HDRP(P))) = sz[P]
    BY <1>0, <1>3, <1>10, HeapSize DEF GET, HDRP
  <2>f. GET_SIZE(GET(m, FTRP(m, NEXT_BLKP(m, bp)))) = sz[N]
    <3>1. N \in B
      BY <1>0, <1>5, <1>10
    <3> HIDE DEF N
    <3>2. FTRP(m, N) = N + sz[N] - 8 /\ GET_SIZE(m[N - 4]) = sz[N]
      BY <3>1, <1>0, HeapSize
    <3>3. m[N + sz[N] - 8] = m[N - 4]
      BY <3>1, <1>0 DEF Heap, Marked
    <3> QED
      BY <3>2, <3>3, <1>2 DEF GET
  <2>1. coalesce(m, bp) = [mem |-> add_to_seglist(m3, b2), bp |-> b2]
    BY <2>0, <2>f, <1>1, <1>2, <1>10 DEF coalesce, merge_both
  <2>2. P \in F /\ Before(sz, P, bp) /\ N \in F /\ Before(sz, bp, N)
    BY <1>3, <1>5, <1>10 DEF Before
  <2>3. /\ m3 = merge_both(m, sz, bp, P, N)
        /\ m2 = add_to_seglist(m3, P)
    OBVIOUS
  <2> HIDE DEF P, N, m2, m3
  <2>4. LeadsBack(m3, bp, P)
    BY <2>2, <2>3, CoalesceBoth
  <2>5. Coalescence(m, B, sz, brk, F, bp, m2, P, (B \ {bp}) \ {N},
                    Merge(B \ {bp}, Merge(B, sz, P, bp), P, N),
                    ((F \ {N}) \ {P}) \union {P})
    BY <2>2, <2>3, CoalesceBoth
  <2> QED
    BY <2>1, <2>3, <2>4, <2>5 DEF LeadsBack
<1> QED
  BY <1>2, <1>7, <1>8, <1>9, <1>10
-----------------------------------------------------------------------------
\* Whole heaps and the payloads held in them.

\* The payloads lv are those of the blocks A: large enough, and intact.
Owns(m, A, sz, lv) ==
  /\ \A p \in DOMAIN lv :
       /\ p \in Nat /\ p - 8 \in A
       /\ lv[p].size \in Nat /\ lv[p].kept \in Nat
       /\ lv[p].kept <= lv[p].size /\ lv[p].size + 16 <= sz[p - 8]
       /\ \A a \in Arena : p <= a /\ a < p + lv[p].kept => m[a] = lv[p].tag
  /\ \A b \in A : b + 8 \in DOMAIN lv

\* A heap between two calls, with the payloads the caller holds.
Good(m, B, sz, brk, F, lv) ==
  Whole(m, B, sz, brk, F) /\ Owns(m, B \ F, sz, lv)

\* Payloads survive while their blocks are kept.
LEMMA OwnsKept ==
  ASSUME NEW m, NEW A, NEW sz, NEW lv, Owns(m, A, sz, lv),
         \A b \in A : b \in Nat /\ sz[b] \in Nat,
         NEW s2, NEW m2, Kept(A, sz, m, s2, m2)
  PROVE  Owns(m2, A, s2, lv)
<1>1. ASSUME NEW p \in DOMAIN lv
      PROVE  /\ p \in Nat /\ p - 8 \in A
             /\ lv[p].size \in Nat /\ lv[p].kept \in Nat
             /\ lv[p].kept <= lv[p].size /\ lv[p].size + 16 <= s2[p - 8]
             /\ \A a \in Arena : p <= a /\ a < p + lv[p].kept => m2[a] = lv[p].tag
  <2>1. /\ p \in Nat /\ p - 8 \in A
        /\ lv[p].size \in Nat /\ lv[p].kept \in Nat
        /\ lv[p].kept <= lv[p].size /\ lv[p].size + 16 <= sz[p - 8]
    BY DEF Owns
  <2>2. sz[p - 8] \in Nat /\ s2[p - 8] = sz[p - 8]
    BY <2>1 DEF Kept
  <2>3. ASSUME NEW a \in Arena, p <= a, a < p + lv[p].kept
        PROVE  m2[a] = lv[p].tag
    <3>1. a \in Nat
      BY ArenaInt
    <3>2. a \in Words(p - 8, sz[p - 8])
      BY <3>1, <2>1, <2>2, <2>3 DEF Words
    <3>3. m2[a] = m[a]
      BY <3>2, <2>1 DEF Kept
    <3> QED
      BY <3>3, <2>3 DEF Owns
  <2> QED
    BY <2>1, <2>2, <2>3
<1>2. \A b \in A : b + 8 \in DOMAIN lv
  BY DEF Owns
<1> QED
  BY <1>1, <1>2 DEF Owns

\* Blocks kept by two steps in turn are kept by both.
LEMMA KeptThrough ==
  ASSUME NEW A, NEW sz, NEW m, NEW s1, NEW m1, NEW s2, NEW m2,
         Kept(A, sz, m, s1, m1), Kept(A, s1, m1, s2, m2)
  PROVE  Kept(A, sz, m, s2, m2)
BY DEF Kept

\* Facts about a whole heap.
LEMMA WholeFacts ==
  ASSUME NEW m, NEW B, NEW sz, NEW brk, NEW F, Whole(m, B, sz, brk, F)
  PROVE  /\ Heap(m, B, sz, brk, B, F) /\ Shape(B, sz, brk) /\ Typed(m)
         /\ F \subseteq B /\ Ends(m, brk)
         /\ \A b \in B : /\ b \in Nat /\ sz[b] \in Nat /\ sz[b] >= 32
                         /\ sz[b] % 8 = 0 /\ b % 8 = 0
         /\ \A b \in B \ F : m[b - 4] = sz[b] + 1
         /\ \A b \in F : m[b - 4] = sz[b]
         /\ \A f \in F : f + sz[f] \notin F
BY DEF Whole, Heap, Shape

\* Writing the tags of one block keeps the others.
LEMMA TagsKeep ==
  ASSUME NEW m, NEW B, NEW sz, NEW brk, Shape(B, sz, brk), NEW x \in B,
         NEW m2, Agree(m, m2, {x - 4, x + sz[x] - 8})
  PROVE  Kept(B \ {x}, sz, m, sz, m2)
<1> SUFFICES ASSUME NEW c \in B \ {x}, NEW a \in Words(c, sz[c]) PROVE m2[a] = m[a]
  BY DEF Kept
<1>1. a # x - 4 /\ a # x + sz[x] - 8
  BY TagsApart
<1>2. a \in Arena
  BY DEF Words
<1> QED
  BY <1>1, <1>2 DEF Agree

\* The headers of kept blocks are what they were.
LEMMA HeaderKept ==
  ASSUME NEW A, NEW B, NEW sz, NEW brk, Shape(B, sz, brk), A \subseteq B, NEW m, NEW s2, NEW m2,
         Kept(A, sz, m, s2, m2)
  PROVE  \A c \in A : m2[c - 4] = m[c - 4] /\ s2[c] = sz[c]
<1> SUFFICES ASSUME NEW c \in A PROVE m2[c - 4] = m[c - 4] /\ s2[c] = sz[c]
  OBVIOUS
<1>1. c \in Nat /\ sz[c] \in Nat /\ sz[c] >= 32 /\ c - 4 \in Arena
  BY ShapeWords DEF Shape
<1>2. c - 4 \in Words(c, sz[c])
  BY <1>1 DEF Words
<1> QED
  BY <1>2 DEF Kept

\* The tags of an allocated block are set to free.
LEMMA FreedLoose ==
  ASSUME NEW m, NEW B, NEW sz, NEW brk, NEW F, Whole(m, B, sz, brk, F),
         NEW x \in B \ F, NEW m1, m1 = put_tags(m, x, sz[x], 0)
  PROVE  Loose(m1, B, sz, brk, F, x) /\ Kept(B \ {x}, sz, m, sz, m1)
<1>0. /\ Heap(m, B, sz, brk, B, F) /\ Shape(B, sz, brk) /\ Typed(m)
      /\ F \subseteq B /\ x \in B /\ x \notin F
      /\ sz[x] \in Nat /\ sz[x] % 8 = 0
  BY WholeFacts
<1>w. /\ \A b \in B \ F : m[b - 4] = sz[b] + 1
      /\ \A f \in F : f + sz[f] \notin F
  BY WholeFacts
<1>1. x - 4 \in Arena /\ x + sz[x] - 8 \in Arena
  BY <1>0, ShapeWords
<1>2. Typed(m1) /\ Bears(m1, x, sz[x], sz[x])
  BY <1>0, <1>1, FreeTags
<1>3. Agree(m, m1, {x - 4, x + sz[x] - 8})
  BY <1>0, <1>1, FreeTags
<1>4. Heap(m1, B, sz, brk, B \union {x}, F)
  BY <1>0, <1>2, <1>3, HeapTag
<1>5. B \union {x} = B
  BY <1>0
<1>6. Kept(B \ {x}, sz, m, sz, m1)
  BY <1>0, <1>3, TagsKeep
<1>7. \A c \in B \ {x} : m1[c - 4] = m[c - 4]
  BY <1>0, <1>6, HeaderKept
<1>8. m1[x - 4] = sz[x]
  BY <1>2 DEF Bears
<1>9. Heap(m1, B, sz, brk, B, F)
  BY <1>4, <1>5
<1>10. \A b \in B \ (F \union {x}) : m1[b - 4] = sz[b] + 1
  BY <1>7, <1>w
<1> QED
  BY <1>0, <1>6, <1>8, <1>9, <1>10, <1>w DEF Loose

\* free_block gives back the block of a payload, and nothing else.
LEMMA FreeGood ==
  ASSUME NEW m, NEW B, NEW sz, NEW brk, NEW F, NEW lv,
         Good(m, B, sz, brk, F, lv), NEW p \in DOMAIN lv,
         NEW fr, fr = free_block(m, p)
  PROVE  \E s2, F2 : Good(fr.mem, Retile(B, fr.mem, fr.bp), s2, brk, F2, Drop(lv, p))
<1> DEFINE x == p - 8
           m1 == put_tags(m, x, sz[x], 0)
           A == B \ (F \union {x})
<1>0. /\ Whole(m, B, sz, brk, F) /\ Owns(m, B \ F, sz, lv)
      /\ p \in Nat /\ x \in B /\ x \notin F /\ x \in B \ F
  BY DEF Good, Owns
<1>1. Heap(m, B, sz, brk, B, F) /\ F \subseteq B
      /\ \A b \in B : b \in Nat /\ sz[b] \in Nat
  BY <1>0, WholeFacts
<1>2. fr = coalesce(m1, x)
  <2>1. GET_SIZE(m[x - 4]) = sz[x]
    BY <1>0, <1>1, HeapSize
  <2> QED
    BY <2>1 DEF free_block, GET, HDRP
<1>3. m1 = put_tags(m, x, sz[x], 0)
  OBVIOUS
<1>x. p = x + 8
  BY <1>0
<1> HIDE DEF x, m1
<1>4. Loose(m1, B, sz, brk, F, x) /\ Kept(B \ {x}, sz, m, sz, m1)
  <2>1. Loose(m1, B, sz, brk, F, x)
    BY <1>0, <1>3, FreedLoose
  <2>2. Kept(B \ {x}, sz, m, sz, m1)
    BY <1>0, <1>3, FreedLoose
  <2> QED
    BY <2>1, <2>2
<1>5. PICK B2, s2, F2 : Coalescence(m1, B, sz, brk, F, x, fr.mem, fr.bp, B2, s2, F2)
  BY <1>2, <1>4, CoalesceWhole
<1>6. /\ Whole(fr.mem, B2, s2, brk, F2) /\ B2 = Retile(B, fr.mem, fr.bp)
      /\ B2 \ F2 = A /\ Kept(A, sz, m1, s2, fr.mem)
  BY <1>5 DEF Coalescence
<1>7. Kept(A, sz, m, sz, m1)
  BY <1>4 DEF Kept
<1>8. Kept(A, sz, m, s2, fr.mem)
  BY <1>6, <1>7, KeptThrough
<1>9. Owns(m, A, sz, Drop(lv, p))
  <2>1. DOMAIN Drop(lv, p) = DOMAIN lv \ {p}
        /\ \A q \in DOMAIN lv \ {p} : Drop(lv, p)[q] = lv[q]
    BY DEF Drop
  <2>2. ASSUME NEW q \in DOMAIN lv \ {p}
        PROVE  /\ q \in Nat /\ q - 8 \in A
               /\ lv[q].size \in Nat /\ lv[q].kept \in Nat
               /\ lv[q].kept <= lv[q].size /\ lv[q].size + 16 <= sz[q - 8]
               /\ \A a \in Arena : q <= a /\ a < q + lv[q].kept => m[a] = lv[q].tag
    <3>1. /\ q \in Nat /\ q - 8 \in B \ F
          /\ lv[q].size \in Nat /\ lv[q].kept \in Nat
          /\ lv[q].kept <= lv[q].size /\ lv[q].size + 16 <= sz[q - 8]
          /\ \A a \in Arena : q <= a /\ a < q + lv[q].kept => m[a] = lv[q].tag
      BY <1>0 DEF Owns
    <3>2. q - 8 # x
      BY <3>1, <1>0, <1>x, <1>1
    <3> QED
      BY <3>1, <3>2
  <2>3. \A b \in A : b + 8 \in DOMAIN lv \ {p}
    <3>1. \A b \in A : b + 8 \in DOMAIN lv
      BY <1>0 DEF Owns
    <3>2. \A b \in A : b \in Nat /\ b # x
      BY <1>1
    <3>3. \A b \in A : b + 8 # p
      BY <3>2, <1>x, <1>0, <1>1
    <3> QED
      BY <3>1, <3>3
  <2> HIDE DEF A
  <2> QED
    BY <2>1, <2>2, <2>3 DEF Owns
<1>10. Owns(fr.mem, A, s2, Drop(lv, p))
  <2>1. \A b \in A : b \in Nat /\ sz[b] \in Nat
    BY <1>1
  <2> HIDE DEF A
  <2> QED
    BY <2>1, <1>8, <1>9, OwnsKept
<1>11. Good(fr.mem, B2, s2, brk, F2, Drop(lv, p))
  BY <1>6, <1>10 DEF Good
<1> QED
  BY <1>6, <1>11

\* The memory in extend_heap once the new block and epilogue are written.
Extended(m, brk, n) ==
  LET m1 == put_tags(m, brk, n, 0)
  IN  PUT(m1, HDRP(NEXT_BLKP(m1, brk)), PACK(0, 1))

\* The new block is free and on no list.
LEMMA ExtendLoose ==
  ASSUME NEW m, NEW B, NEW sz, NEW brk, NEW F, Whole(m, B, sz, brk, F),
         NEW n \in Nat, n % 8 = 0, n >= 32, brk + n <= mem_max_addr,
         NEW m2, m2 = Extended(m, brk, n)
  PROVE  /\ Loose(m2, B \union {brk}, Grown(B, sz, brk, n), brk + n, F, brk)
         /\ Kept(B, sz, m, Grown(B, sz, brk, n), m2)
<1> DEFINE B2 == B \union {brk}
           s2 == Grown(B, sz, brk, n)
           m1 == put_tags(m, brk, n, 0)
<1>0. /\ Heap(m, B, sz, brk, B, F) /\ Shape(B, sz, brk) /\ Typed(m)
      /\ F \subseteq B /\ Ends(m, brk)
  BY WholeFacts
<1>w. /\ \A b \in B \ F : m[b - 4] = sz[b] + 1
      /\ \A b \in F : m[b - 4] = sz[b]
      /\ \A f \in F : f + sz[f] \notin F
      /\ Marked(m, B, sz) /\ LinkedBy(m, F, Bk(B, sz))
  BY WholeFacts, <1>0 DEF Heap
<1>1. Shape(B2, s2, brk + n)
  BY <1>0, ShapeAppend
<1>2. brk \notin B /\ \A b \in B : b < brk
  BY <1>0, ShapeSpots
<1>3. s2[brk] = n /\ \A b \in B : s2[b] = sz[b]
  BY <1>2 DEF Grown
<1>4. /\ brk \in Nat /\ brk - 4 \in Arena /\ brk + n - 8 \in Arena
      /\ brk + n - 4 \in Arena /\ FirstBlk \in Nat /\ FirstBlk <= brk
  <2>1. brk \in B2
    OBVIOUS
  <2>2. brk - 4 \in Arena /\ brk + s2[brk] - 8 \in Arena
    BY <2>1, <1>1, ShapeWords
  <2>3. brk + n - 4 \in Arena
    <3> DEFINE e == brk + n
    <3>1. Shape(B2, s2, e)
      BY <1>1
    <3> HIDE DEF e, B2, s2
    <3>2. e - 4 \in Arena
      BY <3>1, ShapeWords
    <3> QED
      BY <3>2, <1>0 DEF e, Shape
  <2> QED
    BY <2>2, <2>3, <1>0, <1>3, Layout DEF Shape
<1>m. m1 = put_tags(m, brk, n, 0)
  OBVIOUS
<1>e. m2 = PUT(m1, NEXT_BLKP(m1, brk) - 4, 0 + 1)
  BY DEF Extended, HDRP, PACK
<1> HIDE DEF s2, m1
<1>5. Typed(m1) /\ Bears(m1, brk, n, n)
  BY <1>0, <1>4, <1>m, FreeTags
<1>6. Agree(m, m1, {brk - 4, brk + n - 8})
  BY <1>0, <1>4, <1>m, FreeTags
<1>7. NEXT_BLKP(m1, brk) = brk + n
  <2>1. m1[brk - 4] = n /\ GET_SIZE(n) = n
    BY <1>5 DEF Bears, GET_SIZE
  <2> QED
    BY <2>1 DEF NEXT_BLKP, GET
<1>8. m2 = PUT(m1, brk + n - 4, 1)
  BY <1>4, <1>7, <1>e
<1>9. Typed(m2) /\ \A a \in Arena : m2[a] = IF a = brk + n - 4 THEN 1 ELSE m1[a]
  BY <1>4, <1>5, <1>8 DEF Typed, PUT
<1>10. Bears(m2, brk, n, n) /\ m2[brk + n - 4] = 1
  BY <1>4, <1>5, <1>9 DEF Bears
<1>11. \A a \in Arena : a < brk - 4 => m2[a] = m[a]
  <2> SUFFICES ASSUME NEW a \in Arena, a < brk - 4 PROVE m2[a] = m[a]
    OBVIOUS
  <2>1. a \in Nat
    BY ArenaInt
  <2>2. a # brk - 4 /\ a # brk + n - 8 /\ a # brk + n - 4
    BY <2>1, <1>4
  <2> QED
    BY <2>2, <1>6, <1>9 DEF Agree
<1>12. \A b \in B : /\ b - 4 \in Arena /\ b - 4 < brk - 4 /\ b \in Arena /\ b < brk - 4
                    /\ b + 4 \in Arena /\ b + 4 < brk - 4
                    /\ b + sz[b] - 8 \in Arena /\ b + sz[b] - 8 < brk - 4
                    /\ b \in Nat /\ sz[b] \in Nat
  <2> SUFFICES ASSUME NEW b \in B
               PROVE  /\ b - 4 \in Arena /\ b - 4 < brk - 4 /\ b \in Arena /\ b < brk - 4
                      /\ b + 4 \in Arena /\ b + 4 < brk - 4
                      /\ b + sz[b] - 8 \in Arena /\ b + sz[b] - 8 < brk - 4
                      /\ b \in Nat /\ sz[b] \in Nat
    OBVIOUS
  <2>1. b \in Nat /\ sz[b] \in Nat /\ sz[b] >= 32 /\ b + sz[b] <= brk
    BY <1>0 DEF Shape
  <2>2. b - 4 \in Arena /\ b \in Arena /\ b + 4 \in Arena /\ b + sz[b] - 8 \in Arena
    BY <1>0, ShapeWords
  <2> QED
    BY <2>1, <2>2, <1>4
<1>13. Ends(m2, brk + n)
  <2>1. FirstBlk - 12 \in Arena /\ FirstBlk - 8 \in Arena
    BY <1>0, ShapeWords
  <2>2. FirstBlk - 12 < brk - 4 /\ FirstBlk - 8 < brk - 4
    BY <1>4
  <2>3. m2[FirstBlk - 12] = 9 /\ m2[FirstBlk - 8] = 9
    BY <2>1, <2>2, <1>0, <1>11 DEF Ends
  <2> QED
    BY <2>3, <1>4, <1>10 DEF Ends
<1>14. \A b \in B : m2[b - 4] = m[b - 4] /\ m2[b + sz[b] - 8] = m[b + sz[b] - 8]
  BY <1>11, <1>12
<1>15. Marked(m2, B2, s2)
  <2>1. ASSUME NEW b \in B
        PROVE  /\ m2[b - 4] = s2[b] \/ m2[b - 4] = s2[b] + 1
               /\ m2[b + s2[b] - 8] = m2[b - 4]
    BY <1>3, <1>14, <1>w DEF Marked
  <2>2. m2[brk - 4] = s2[brk] /\ m2[brk + s2[brk] - 8] = m2[brk - 4]
    BY <1>3, <1>10 DEF Bears
  <2> QED
    BY <2>1, <2>2 DEF Marked
<1>16. LinkedBy(m2, F, Bk(B2, s2))
  <2>1. \A f \in F : Bk(B2, s2)[f] = Bk(B, sz)[f]
    BY <1>0, <1>3 DEF Bk
  <2>2. \A f \in F : Bk(B, sz)[f] \in Heads
    BY <1>0, BkHeads
  <2>3. \A h \in Heads : h \in Arena /\ h < brk - 4
    BY <1>4, HeadsInArena
  <2>4. \A a \in ListWords(F) : m2[a] = m[a]
    BY <2>3, <1>0, <1>11, <1>12 DEF ListWords
  <2>5. LinkedBy(m2, F, Bk(B, sz))
    BY <2>2, <2>4, <1>w, LinkedFrame
  <2> QED
    BY <2>1, <2>5, LinkedBk
<1>17. \A b \in F : m2[b - 4] = s2[b]
  BY <1>0, <1>3, <1>14, <1>w
<1>18. Heap(m2, B2, s2, brk + n, B2, F)
  BY <1>0, <1>1, <1>9, <1>13, <1>15, <1>16, <1>17 DEF Heap
<1>19. /\ brk \in B2 /\ brk \notin F /\ m2[brk - 4] = s2[brk]
       /\ \A b \in B2 \ (F \union {brk}) : m2[b - 4] = s2[b] + 1
       /\ \A b \in F : b + s2[b] \notin F
  BY <1>0, <1>2, <1>3, <1>10, <1>14, <1>w DEF Bears
<1>20. Kept(B, sz, m, s2, m2)
  <2> SUFFICES ASSUME NEW c \in B, NEW a \in Words(c, sz[c]) PROVE m2[a] = m[a]
    BY <1>3 DEF Kept
  <2>1. a \in Arena /\ a \in Nat /\ a <= c + sz[c] - 8 /\ c + sz[c] - 8 < brk - 4
    BY <1>12, ArenaInt DEF Words
  <2>2. a < brk - 4
    BY <2>1, <1>4, <1>12
  <2> QED
    BY <2>1, <2>2, <1>11
<1>21. Loose(m2, B2, s2, brk + n, F, brk)
  BY <1>18, <1>19 DEF Loose
<1> QED
  BY <1>20, <1>21 DEF s2

\* extend_heap adds room for n bytes, in a listed block.
LEMMA ExtendGood ==
  ASSUME NEW m, NEW B, NEW sz, NEW brk, NEW F, NEW lv,
         Good(m, B, sz, brk, F, lv), NEW words,
         NEW n \in Nat, n = extend_bytes(words), n % 8 = 0, n >= 32,
         brk + n <= mem_max_addr,
         NEW ext, ext = extend_heap(m, brk, words)
  PROVE  \E s2, F2 :
           /\ Good(ext.mem, Retile(B \union {brk}, ext.mem, ext.bp), s2, brk + n, F2, lv)
           /\ ext.bp \in F2 /\ n <= s2[ext.bp]
<1> DEFINE s1 == Grown(B, sz, brk, n)
           m1 == Extended(m, brk, n)
           B1 == B \union {brk}
<1>0. Whole(m, B, sz, brk, F) /\ Owns(m, B \ F, sz, lv)
  BY DEF Good
<1>1. F \subseteq B /\ Shape(B, sz, brk)
      /\ \A b \in B : b \in Nat /\ sz[b] \in Nat
  BY <1>0, WholeFacts
<1>2. ext = coalesce(m1, brk)
  BY DEF extend_heap, Extended
<1>b. brk \notin B /\ brk \in Nat
  BY <1>1, ShapeSpots DEF Shape
<1>g. s1[brk] = n
  BY DEF Grown
<1>m. m1 = Extended(m, brk, n)
  OBVIOUS
<1> HIDE DEF m1
<1>3. Loose(m1, B1, s1, brk + n, F, brk) /\ Kept(B, sz, m, s1, m1)
  <2>1. Loose(m1, B1, s1, brk + n, F, brk)
    BY <1>0, <1>m, ExtendLoose
  <2>2. Kept(B, sz, m, s1, m1)
    BY <1>0, <1>m, ExtendLoose
  <2> QED
    BY <2>1, <2>2
<1>e. PICK e : e = brk + n
  OBVIOUS
<1>f. Loose(m1, B1, s1, e, F, brk)
  BY <1>3, <1>e
<1>h. B1 \ (F \union {brk}) = B \ F
  BY <1>1, <1>b
<1> HIDE DEF s1, B1
<1>5. PICK B2, s2, F2 : Coalescence(m1, B1, s1, e, F, brk, ext.mem, ext.bp, B2, s2, F2)
  BY <1>2, <1>f, CoalesceWhole
<1>6. /\ Whole(ext.mem, B2, s2, e, F2) /\ B2 = Retile(B1, ext.mem, ext.bp)
      /\ B2 \ F2 = B \ F /\ Kept(B \ F, s1, m1, s2, ext.mem)
      /\ ext.bp \in F2 /\ ext.bp <= brk /\ brk + s1[brk] <= ext.bp + s2[ext.bp]
  BY <1>5, <1>h DEF Coalescence
<1>7. Kept(B \ F, sz, m, s1, m1)
  BY <1>3 DEF Kept
<1>8. Kept(B \ F, sz, m, s2, ext.mem)
  BY <1>6, <1>7, KeptThrough
<1>9. Owns(ext.mem, B \ F, s2, lv)
  <2>1. \A b \in B \ F : b \in Nat /\ sz[b] \in Nat
    BY <1>1
  <2> QED
    BY <2>1, <1>0, <1>8, OwnsKept
<1>10. Good(ext.mem, B2, s2, e, F2, lv)
  BY <1>6, <1>9 DEF Good
<1>11. n <= s2[ext.bp]
  <2>1. ext.bp \in Nat /\ s2[ext.bp] \in Nat
    BY <1>6, WholeFacts
  <2> QED
    BY <2>1, <1>6, <1>b, <1>g
<1> QED
  BY <1>6, <1>10, <1>11, <1>e DEF B1

\* Writes inside the payload of an allocated block.
LEMMA WholeWrite ==
  ASSUME NEW m, NEW B, NEW sz, NEW brk, NEW F, Whole(m, B, sz, brk, F),
         NEW x \in B \ F, NEW m2, Typed(m2),
         \A a \in Arena : ~(x + 8 <= a /\ a < x + sz[x] - 8) => m2[a] = m[a]
  PROVE  Whole(m2, B, sz, brk, F) /\ Kept(B \ {x}, sz, m, sz, m2)
<1>0. /\ Heap(m, B, sz, brk, B, F) /\ Shape(B, sz, brk) /\ F \subseteq B
      /\ Ends(m, brk) /\ x \in B /\ x \notin F
  BY WholeFacts
<1>w. /\ \A b \in B \ F : m[b - 4] = sz[b] + 1
      /\ \A f \in F : f + sz[f] \notin F
  BY WholeFacts
<1>1. /\ \A b \in B : b \in Nat /\ sz[b] \in Nat /\ sz[b] >= 32 /\ b + sz[b] <= brk
      /\ \A b, c \in B : b < c => b + sz[b] <= c
      /\ \A b \in B : FirstBlk <= b
      /\ brk \in Nat /\ FirstBlk \in Nat
  BY <1>0, Layout DEF Shape
<1>2. ASSUME NEW c \in B, c # x, NEW a \in Arena, c - 4 <= a, a <= c + sz[c] - 8
      PROVE  m2[a] = m[a]
  <2>1. a \in Nat /\ c \in Nat /\ sz[c] \in Nat /\ x \in Nat /\ sz[x] \in Nat
    BY <1>0, <1>1, ArenaInt
  <2>2. (x < c => x + sz[x] <= c) /\ (c < x => c + sz[c] <= x)
    BY <1>0, <1>1
  <2>3. ~(x + 8 <= a /\ a < x + sz[x] - 8)
    BY <2>1, <2>2, <1>2
  <2> QED
    BY <2>3
<1>3. Kept(B \ {x}, sz, m, sz, m2)
  <2> SUFFICES ASSUME NEW c \in B \ {x}, NEW a \in Words(c, sz[c]) PROVE m2[a] = m[a]
    BY DEF Kept
  <2> QED
    BY <1>2 DEF Words
<1>4. \A b \in B : m2[b - 4] = m[b - 4] /\ m2[b + sz[b] - 8] = m[b + sz[b] - 8]
  <2> SUFFICES ASSUME NEW b \in B
               PROVE  m2[b - 4] = m[b - 4] /\ m2[b + sz[b] - 8] = m[b + sz[b] - 8]
    OBVIOUS
  <2>1. /\ b - 4 \in Arena /\ b + sz[b] - 8 \in Arena
        /\ b \in Nat /\ sz[b] \in Nat /\ sz[b] >= 32
    BY <1>0, <1>1, ShapeWords
  <2>2. CASE b = x
    BY <2>1, <2>2
  <2>3. CASE b # x
    BY <2>1, <2>3, <1>2
  <2> QED
    BY <2>2, <2>3
<1>5. \A a \in Arena : a < FirstBlk => m2[a] = m[a]
  BY <1>0, <1>1, ArenaInt
<1>6. Ends(m2, brk)
  <2>1. FirstBlk - 12 \in Arena /\ FirstBlk - 8 \in Arena /\ brk - 4 \in Arena
    BY <1>0, ShapeWords
  <2>2. m2[FirstBlk - 12] = m[FirstBlk - 12] /\ m2[FirstBlk - 8] = m[FirstBlk - 8]
    BY <2>1, <1>1, <1>5
  <2>3. m2[brk - 4] = m[brk - 4]
    BY <2>1, <1>0, <1>1
  <2> QED
    BY <2>2, <2>3, <1>0 DEF Ends
<1>7. \A a \in ListWords(F) : m2[a] = m[a]
  <2>1. \A h \in Heads : m2[h] = m[h]
    BY <1>1, <1>5, HeadsInArena
  <2>2. \A f \in F : m2[f] = m[f] /\ m2[f + 4] = m[f + 4]
    <3> SUFFICES ASSUME NEW f \in F PROVE m2[f] = m[f] /\ m2[f + 4] = m[f + 4]
      OBVIOUS
    <3>1. f \in B /\ f # x /\ f \in Arena /\ f + 4 \in Arena
      BY <1>0, ShapeWords
    <3>2. f \in Nat /\ sz[f] \in Nat /\ sz[f] >= 32
      BY <3>1, <1>1
    <3> QED
      BY <3>1, <3>2, <1>2
  <2> QED
    BY <2>1, <2>2 DEF ListWords
<1>8. Heap(m2, B, sz, brk, B, F)
  BY <1>0, <1>4, <1>6, <1>7, HeapFrame
<1>9. \A b \in B \ F : m2[b - 4] = sz[b] + 1
  BY <1>4, <1>w
<1> QED
  BY <1>3, <1>8, <1>9, <1>w DEF Whole

\* put_tags with the bit set.
LEMMA UsedTags ==
  ASSUME NEW m, Typed(m), NEW x, x - 4 \in Arena, NEW s \in Nat, s % 8 = 0,
         x + s - 8 \in Arena, NEW m2, m2 = put_tags(m, x, s, 1)
  PROVE  /\ Typed(m2) /\ Bears(m2, x, s, s + 1)
         /\ Agree(m, m2, {x - 4, x + s - 8})
<1> DEFINE z == 1
<1>0. z \in {0, 1} /\ m2 = put_tags(m, x, s, z) /\ s + z = s + 1
  OBVIOUS
<1> HIDE DEF z
<1>1. Typed(m2) /\ Bears(m2, x, s, s + z)
  BY <1>0, PutTags
<1>2. Agree(m, m2, {x - 4, x + s - 8})
  BY <1>0, PutTags
<1> QED
  BY <1>0, <1>1, <1>2

\* List operations keep the blocks that are not listed.
LEMMA ListsKeep ==
  ASSUME NEW m, NEW B, NEW sz, NEW brk, Shape(B, sz, brk), NEW F, F \subseteq B,
         NEW m2, Agree(m, m2, ListWords(F))
  PROVE  Kept(B \ F, sz, m, sz, m2)
<1> SUFFICES ASSUME NEW c \in B \ F, NEW a \in Words(c, sz[c]) PROVE m2[a] = m[a]
  BY DEF Kept
<1>1. a \in Arena /\ a \notin ListWords(F)
  BY ListsApart DEF Words
<1> QED
  BY <1>1 DEF Agree

\* What place promises: the heap m2 is whole, bp is allocated and has at
\* least n bytes, and the blocks that were allocated are what they were.
Placement(m, B, sz, brk, F, bp, n, m2, B2, s2, F2) ==
  /\ Whole(m2, B2, s2, brk, F2)
  /\ B2 = PlaceTile(B, m, bp, n)
  /\ bp \in B2 /\ n <= s2[bp]
  /\ B2 \ F2 = (B \ F) \union {bp}
  /\ Kept(B \ F, sz, m, s2, m2)

\* The rest would be too small: the whole block is used.
LEMMA PlaceAll ==
  ASSUME NEW m, NEW B, NEW sz, NEW brk, NEW F, Whole(m, B, sz, brk, F),
         NEW bp \in F, NEW n \in Nat, n <= sz[bp],
         NEW m1, m1 = remove_from_seglist(m, bp),
         NEW m2, m2 = put_tags(m1, bp, sz[bp], 1), m2 = place(m, bp, n)
  PROVE  Placement(m, B, sz, brk, F, bp, n, m2, B, sz, F \ {bp})
<1> DEFINE F1 == F \ {bp}
<1>h. Heap(m, B, sz, brk, B, F)
  BY WholeFacts
<1>0. /\ Shape(B, sz, brk) /\ F \subseteq B /\ bp \in B
      /\ sz[bp] \in Nat /\ sz[bp] % 8 = 0 /\ bp \in Nat
      /\ \A b \in B \ F : m[b - 4] = sz[b] + 1
      /\ \A f \in F : f + sz[f] \notin F
  BY WholeFacts
<1>1. Heap(m1, B, sz, brk, B, F1)
  BY <1>h, HeapRemove
<1>2. Agree(m, m1, ListWords(F))
  BY <1>h, HeapRemove
<1>3. bp - 4 \in Arena /\ bp + sz[bp] - 8 \in Arena /\ Typed(m1)
  BY <1>0, <1>1, ShapeWords DEF Heap
<1>4. Typed(m2) /\ Bears(m2, bp, sz[bp], sz[bp] + 1)
  BY <1>0, <1>3, UsedTags
<1>5. Agree(m1, m2, {bp - 4, bp + sz[bp] - 8})
  BY <1>0, <1>3, UsedTags
<1>6. bp \notin F1
  OBVIOUS
<1>7. Heap(m2, B, sz, brk, B \union {bp}, F1)
  BY <1>0, <1>1, <1>4, <1>5, <1>6, HeapTag
<1>8. B \union {bp} = B
  BY <1>0
<1>9. Heap(m2, B, sz, brk, B, F1)
  BY <1>7, <1>8
<1>10. Kept(B \ F, sz, m, sz, m2)
  <2>1. Kept(B \ F, sz, m, sz, m1)
    BY <1>0, <1>2, ListsKeep
  <2>2. Kept(B \ {bp}, sz, m1, sz, m2)
    BY <1>0, <1>5, TagsKeep
  <2>3. Kept(B \ F, sz, m1, sz, m2)
    BY <2>2 DEF Kept
  <2> QED
    BY <2>1, <2>3, KeptThrough
<1>11. \A c \in B \ F : m2[c - 4] = m[c - 4]
  BY <1>0, <1>10, HeaderKept
<1>12. \A b \in B \ F1 : m2[b - 4] = sz[b] + 1
  BY <1>0, <1>4, <1>11 DEF Bears
<1>13. Whole(m2, B, sz, brk, F1)
  BY <1>0, <1>9, <1>12 DEF Whole
<1>14. B = PlaceTile(B, m, bp, n)
  <2>1. NEXT_BLKP(m2, bp) = bp + sz[bp]
    BY <1>0, <1>9, HeapSize
  <2>2. NEXT_BLKP(m, bp) = bp + sz[bp]
    BY <1>0, <1>h, HeapSize
  <2>3. ~(bp + sz[bp] < bp + sz[bp])
    BY <1>0
  <2> QED
    BY <2>1, <2>2, <2>3 DEF PlaceTile
<1>15. B \ F1 = (B \ F) \union {bp}
  BY <1>0
<1> QED
  BY <1>0, <1>10, <1>13, <1>14, <1>15 DEF Placement

\* The block is split and its rest listed.
LEMMA PlaceSplit ==
  ASSUME NEW m, NEW B, NEW sz, NEW brk, NEW F, Whole(m, B, sz, brk, F),
         NEW bp \in F, NEW n \in Nat, n % 8 = 0, n >= 32, sz[bp] - n >= 32,
         NEW m1, m1 = remove_from_seglist(m, bp),
         NEW ma, ma = put_tags(m1, bp, n, 1),
         NEW r, r = bp + n,
         NEW m3, m3 = put_tags(ma, r, sz[bp] - n, 0),
         NEW m2, m2 = add_to_seglist(m3, r), m2 = place(m, bp, n)
  PROVE  Placement(m, B, sz, brk, F, bp, n, m2, B \union {r},
                   Split(B, sz, bp, n), (F \ {bp}) \union {r})
<1> DEFINE F1 == F \ {bp}
           B2 == B \union {r}
           s2 == Split(B, sz, bp, n)
           F2 == F1 \union {r}
<1>h. Heap(m, B, sz, brk, B, F)
  BY WholeFacts
<1>0. /\ Shape(B, sz, brk) /\ F \subseteq B /\ bp \in B
      /\ sz[bp] \in Nat /\ sz[bp] % 8 = 0 /\ bp \in Nat
      /\ \A b \in B \ F : m[b - 4] = sz[b] + 1
      /\ \A f \in F : f + sz[f] \notin F
  BY WholeFacts
<1>1. Heap(m1, B, sz, brk, B, F1)
  BY <1>h, HeapRemove
<1>2. Agree(m, m1, ListWords(F))
  BY <1>h, HeapRemove
<1>3. bp \notin F1 /\ r \notin B /\ r \in Nat
  <2>1. bp + n \notin B
    BY <1>0, ShapeSplit
  <2> QED
    BY <2>1, <1>0
<1>4. Heap(m1, B2, s2, brk, B \ {bp}, F1)
  BY <1>0, <1>1, <1>3, HeapSplit
<1>5. s2[bp] = n /\ s2[r] = sz[bp] - n /\ \A b \in B \ {bp} : s2[b] = sz[b]
  BY <1>0, <1>3 DEF Split
<1>6. Shape(B2, s2, brk) /\ Typed(m1) /\ bp \in B2 /\ r \in B2 /\ r # bp
  BY <1>0, <1>3, <1>4 DEF Heap
<1> HIDE DEF s2
<1>7. /\ bp - 4 \in Arena /\ bp + s2[bp] - 8 \in Arena
      /\ r - 4 \in Arena /\ r + s2[r] - 8 \in Arena
  BY <1>6, ShapeWords
<1>n. s2[bp] \in Nat /\ s2[bp] % 8 = 0 /\ s2[r] \in Nat /\ s2[r] % 8 = 0
  BY <1>6 DEF Shape
<1>8. ma = put_tags(m1, bp, s2[bp], 1) /\ m3 = put_tags(ma, r, s2[r], 0)
  BY <1>5
<1>9. Typed(ma) /\ Bears(ma, bp, s2[bp], s2[bp] + 1)
  BY <1>6, <1>7, <1>8, <1>n, UsedTags
<1>10. Agree(m1, ma, {bp - 4, bp + s2[bp] - 8})
  BY <1>6, <1>7, <1>8, <1>n, UsedTags
<1>11. Heap(ma, B2, s2, brk, (B \ {bp}) \union {bp}, F1)
  BY <1>3, <1>4, <1>6, <1>9, <1>10, HeapTag
<1>12. (B \ {bp}) \union {bp} = B
  BY <1>0
<1>13. Heap(ma, B2, s2, brk, B, F1)
  BY <1>11, <1>12
<1>14. Typed(m3) /\ Bears(m3, r, s2[r], s2[r])
  BY <1>7, <1>8, <1>9, <1>n, FreeTags
<1>15. Agree(ma, m3, {r - 4, r + s2[r] - 8})
  BY <1>7, <1>8, <1>9, <1>n, FreeTags
<1>16. r \notin F1
  BY <1>0, <1>3
<1>17. Heap(m3, B2, s2, brk, B2, F1)
  BY <1>6, <1>13, <1>14, <1>15, <1>16, HeapTag
<1>18. m3[r - 4] = s2[r]
  BY <1>14 DEF Bears
<1>19. Heap(m2, B2, s2, brk, B2, F2)
  BY <1>6, <1>16, <1>17, <1>18, HeapAdd
<1>20. Agree(m3, m2, ListWords(F2))
  BY <1>6, <1>16, <1>17, <1>18, HeapAdd
<1>21. Kept(B2 \ {bp}, s2, m1, s2, ma)
  BY <1>6, <1>10, TagsKeep
<1>22. Kept(B2 \ {r}, s2, ma, s2, m3)
  BY <1>6, <1>15, TagsKeep
<1>23. F2 \subseteq B2
  BY <1>0
<1>24. Kept(B2 \ F2, s2, m3, s2, m2)
  <2> HIDE DEF F2
  <2> QED
    BY <1>6, <1>20, <1>23, ListsKeep
<1>25. Kept(B \ F, sz, m, s2, m1)
  <2>1. Kept(B \ F, sz, m, sz, m1)
    BY <1>0, <1>2, ListsKeep
  <2> QED
    BY <2>1, <1>5 DEF Kept
<1>26. Kept(B \ F, sz, m, s2, m2)
  <2>1. Kept(B \ F, s2, m1, s2, ma)
    BY <1>21 DEF Kept
  <2>2. Kept(B \ F, s2, ma, s2, m3)
    BY <1>3, <1>22 DEF Kept
  <2>3. Kept(B \ F, s2, m3, s2, m2)
    BY <1>3, <1>24 DEF Kept
  <2>4. Kept(B \ F, sz, m, s2, ma)
    BY <2>1, <1>25, KeptThrough
  <2>5. Kept(B \ F, sz, m, s2, m3)
    BY <2>2, <2>4, KeptThrough
  <2> QED
    BY <2>3, <2>5, KeptThrough
<1>27. m2[bp - 4] = s2[bp] + 1
  <2>1. bp \in B2 \ {r} /\ bp \in B2 \ F2
    BY <1>6
  <2>2. m3[bp - 4] = ma[bp - 4]
    <3>1. B2 \ {r} \subseteq B2
      OBVIOUS
    <3>2. \A c \in B2 \ {r} : m3[c - 4] = ma[c - 4]
      BY <3>1, <1>6, <1>22, HeaderKept
    <3> QED
      BY <3>2, <2>1
  <2>3. m2[bp - 4] = m3[bp - 4]
    BY <2>1, <1>6, <1>24, HeaderKept
  <2> QED
    BY <2>2, <2>3, <1>9 DEF Bears
<1>28. B2 \ F2 = (B \ F) \union {bp}
  BY <1>0, <1>3
<1>29. \A c \in B \ F : m2[c - 4] = m[c - 4] /\ s2[c] = sz[c]
  BY <1>0, <1>26, HeaderKept
<1>30. \A b \in B2 \ F2 : m2[b - 4] = s2[b] + 1
  BY <1>0, <1>27, <1>28, <1>29
<1>31. \A f \in F2 : f + s2[f] \notin F2
  <2> SUFFICES ASSUME NEW f \in F2 PROVE f + s2[f] \notin F2
    OBVIOUS
  <2>1. CASE f = r
    <3>1. r + s2[r] = bp + sz[bp]
      BY <1>0, <1>3, <1>5
    <3>2. r + s2[r] # r
      BY <1>3, <1>5, <1>0
    <3> QED
      BY <3>1, <3>2, <2>1, <1>0
  <2>2. CASE f # r
    <3>1. f \in F /\ f # bp /\ f \in B /\ s2[f] = sz[f]
      BY <2>2, <1>0, <1>5
    <3>2. f + sz[f] \notin F /\ f + sz[f] \in B \union {brk}
      BY <3>1, <1>0 DEF Shape
    <3>3. r # brk
      BY <1>6, ShapeSpots
    <3> QED
      BY <3>1, <3>2, <3>3, <1>3
  <2> QED
    BY <2>1, <2>2
<1>32. Whole(m2, B2, s2, brk, F2)
  BY <1>19, <1>30, <1>31 DEF Whole
<1>33. B2 = PlaceTile(B, m, bp, n)
  <2>1. NEXT_BLKP(m2, bp) = bp + s2[bp]
    BY <1>6, <1>19, HeapSize
  <2>2. NEXT_BLKP(m, bp) = bp + sz[bp]
    BY <1>0, <1>h, HeapSize
  <2>3. bp + s2[bp] < bp + sz[bp] /\ bp + s2[bp] = r
    BY <1>0, <1>5
  <2> QED
    BY <2>1, <2>2, <2>3 DEF PlaceTile
<1>34. n <= s2[bp]
  BY <1>5
<1> HIDE DEF B2, F2
<1>35. Placement(m, B, sz, brk, F, bp, n, m2, B2, s2, F2)
  BY <1>6, <1>26, <1>28, <1>32, <1>33, <1>34 DEF Placement
<1> QED
  BY <1>35 DEF B2, s2, F2

(***************************************************************************)
(* place, called for a listed block that is large enough, allocates it and *)
(* leaves the heap whole.                                                  *)
(***************************************************************************)
THEOREM PlaceWhole ==
  ASSUME NEW m, NEW B, NEW sz, NEW brk, NEW F, Whole(m, B, sz, brk, F),
         NEW bp \in F, NEW n \in Nat, n % 8 = 0, n >= 32, n <= sz[bp],
         NEW m2, m2 = place(m, bp, n)
  PROVE  \E B2, s2, F2 : Placement(m, B, sz, brk, F, bp, n, m2, B2, s2, F2)
<1> DEFINE m1 == remove_from_seglist(m, bp)
<1>0. /\ Heap(m, B, sz, brk, B, F) /\ bp \in B /\ bp \in Nat /\ Shape(B, sz, brk)
      /\ sz[bp] \in Nat
  BY WholeFacts
<1>1. GET_SIZE(m[bp - 4]) = sz[bp]
  BY <1>0, HeapSize
<1>2. (sz[bp] - n) % SIZE_MOD = sz[bp] - n
  <2>1. FirstBlk <= bp /\ bp + sz[bp] <= brk /\ brk <= mem_max_addr /\ brk \in Nat
    BY <1>0 DEF Shape
  <2>2. sz[bp] - n \in 0 .. (SIZE_MOD - 1)
    BY <2>1, <1>0, Layout, ArenaAssumption
  <2> QED
    BY <2>2, ArenaAssumption
<1>3. CASE sz[bp] - n >= 32
  <2> DEFINE ma == put_tags(m1, bp, n, 1)
             r == bp + n
             m3 == put_tags(ma, r, sz[bp] - n, 0)
  <2>1. m2 = add_to_seglist(put_tags(ma, NEXT_BLKP(ma, bp), sz[bp] - n, 0), NEXT_BLKP(ma, bp))
    BY <1>1, <1>2, <1>3 DEF place, GET, HDRP
  <2>2. NEXT_BLKP(ma, bp) = r
    <3> DEFINE F1 == F \ {bp}
    <3>0. m1 = remove_from_seglist(m, bp) /\ ma = put_tags(m1, bp, n, 1)
      OBVIOUS
    <3> HIDE DEF m1, ma
    <3>1. Typed(m1)
      <4>1. Heap(m1, B, sz, brk, B, F1)
        BY <3>0, <1>0, HeapRemove
      <4> QED
        BY <4>1 DEF Heap
    <3>2. bp - 4 \in Arena /\ bp + n - 8 \in Arena
      <4>1. Shape(B \union {bp + n}, Split(B, sz, bp, n), brk)
        BY <1>0, <1>3, ShapeSplit
      <4>2. Split(B, sz, bp, n)[bp] = n
        BY <1>0 DEF Split
      <4>3. bp - 4 \in Arena /\ bp + Split(B, sz, bp, n)[bp] - 8 \in Arena
        BY <4>1, <1>0, ShapeWords
      <4> QED
        BY <4>2, <4>3
    <3>3. Bears(ma, bp, n, n + 1)
      BY <3>0, <3>1, <3>2, UsedTags
    <3>4. GET_SIZE(n + 1) = n
      BY DEF GET_SIZE
    <3> QED
      BY <3>3, <3>4 DEF Bears, NEXT_BLKP, GET
  <2>3. /\ m1 = remove_from_seglist(m, bp) /\ ma = put_tags(m1, bp, n, 1) /\ r = bp + n
        /\ m3 = put_tags(ma, r, sz[bp] - n, 0)
    OBVIOUS
  <2>4. m2 = add_to_seglist(m3, r)
    BY <2>1, <2>2
  <2> HIDE DEF m1, ma, r, m3
  <2>5. Placement(m, B, sz, brk, F, bp, n, m2, B \union {r}, Split(B, sz, bp, n),
                  (F \ {bp}) \union {r})
    BY <2>3, <2>4, <1>3, PlaceSplit, ZenonT(100)
  <2> QED
    BY <2>5
<1>4. CASE ~(sz[bp] - n >= 32)
  <2>1. m2 = put_tags(m1, bp, sz[bp], 1)
    BY <1>1, <1>2, <1>4 DEF place, GET, HDRP
  <2>2. m1 = remove_from_seglist(m, bp)
    OBVIOUS
  <2> HIDE DEF m1
  <2>3. Placement(m, B, sz, brk, F, bp, n, m2, B, sz, F \ {bp})
    BY <2>1, <2>2, PlaceAll
  <2> QED
    BY <2>3
<1> QED
  BY <1>3, <1>4

\* The block that place allocated is handed to the caller, with its payload
\* written.
LEMMA HoldGood ==
  ASSUME NEW m, NEW B, NEW sz, NEW brk, NEW F, NEW lv,
         Good(m, B, sz, brk, F, lv), NEW bp \in F, NEW n \in Nat,
         NEW m1, NEW B1, NEW s1, NEW F1,
         Placement(m, B, sz, brk, F, bp, n, m1, B1, s1, F1),
         NEW h, h.size \in Nat, h.kept \in Nat, h.kept <= h.size,
         h.size + 16 <= n,
         NEW m2, Typed(m2),
         \A a \in Arena : ~(bp + 8 <= a /\ a < bp + 8 + h.size) => m2[a] = m1[a],
         \A a \in Arena : bp + 8 <= a /\ a < bp + 8 + h.kept => m2[a] = h.tag
  PROVE  /\ Good(m2, B1, s1, brk, F1, Hold(lv, bp + 8, h))
         /\ bp + 8 \notin DOMAIN lv
<1> DEFINE p == bp + 8
           A == B \ F
           A1 == A \union {bp}
           l2 == Hold(lv, p, h)
<1>0. /\ Whole(m, B, sz, brk, F) /\ Owns(m, A, sz, lv)
      /\ Whole(m1, B1, s1, brk, F1) /\ B1 \ F1 = A1 /\ bp \in B1 /\ n <= s1[bp]
      /\ Kept(A, sz, m, s1, m1)
  BY DEF Good, Placement
<1>1. /\ \A b \in B : b \in Nat /\ sz[b] \in Nat
      /\ \A b \in B1 : b \in Nat /\ s1[b] \in Nat
      /\ F \subseteq B /\ Shape(B1, s1, brk)
  BY <1>0, WholeFacts
<1>2. bp \in Nat /\ s1[bp] \in Nat /\ bp \in B1 \ F1 /\ bp \notin A /\ p \in Nat
  BY <1>0, <1>1
<1>3. \A a \in Arena : ~(bp + 8 <= a /\ a < bp + s1[bp] - 8) => m2[a] = m1[a]
  <2> SUFFICES ASSUME NEW a \in Arena, ~(bp + 8 <= a /\ a < bp + s1[bp] - 8)
               PROVE  m2[a] = m1[a]
    OBVIOUS
  <2>1. a \in Nat
    BY ArenaInt
  <2> QED
    BY <2>1, <1>0, <1>2
<1>4. Whole(m2, B1, s1, brk, F1) /\ Kept(B1 \ {bp}, s1, m1, s1, m2)
  BY <1>0, <1>2, <1>3, WholeWrite
<1>5. Kept(A, s1, m1, s1, m2)
  BY <1>0, <1>2, <1>4 DEF Kept
<1>6. Kept(A, sz, m, s1, m2)
  BY <1>0, <1>5, KeptThrough
<1>7. Owns(m2, A, s1, lv)
  <2>1. \A b \in A : b \in Nat /\ sz[b] \in Nat
    BY <1>1
  <2> HIDE DEF A
  <2> QED
    BY <2>1, <1>0, <1>6, OwnsKept
<1>8. \A q \in DOMAIN lv : q \in Nat /\ q - 8 \in A
  BY <1>7 DEF Owns
<1>9. p \notin DOMAIN lv
  <2> SUFFICES ASSUME p \in DOMAIN lv PROVE FALSE
    OBVIOUS
  <2>1. p - 8 \in A /\ p - 8 = bp
    BY <1>2, <1>8
  <2> QED
    BY <2>1, <1>2
<1>10. /\ DOMAIN l2 = DOMAIN lv \union {p} /\ l2[p] = h
       /\ \A q \in DOMAIN lv : l2[q] = lv[q]
  BY <1>9 DEF Hold
<1> HIDE DEF l2
<1>11. ASSUME NEW q \in DOMAIN l2
       PROVE  /\ q \in Nat /\ q - 8 \in A1
              /\ l2[q].size \in Nat /\ l2[q].kept \in Nat
              /\ l2[q].kept <= l2[q].size /\ l2[q].size + 16 <= s1[q - 8]
              /\ \A a \in Arena : q <= a /\ a < q + l2[q].kept => m2[a] = l2[q].tag
  <2>1. CASE q = p
    <3>1. q - 8 = bp /\ l2[q] = h
      BY <2>1, <1>2, <1>10
    <3>2. h.size + 16 <= s1[bp]
      BY <1>0, <1>2
    <3> QED
      BY <3>1, <3>2, <2>1, <1>2
  <2>2. CASE q \in DOMAIN lv
    <3>1. l2[q] = lv[q]
      BY <2>2, <1>10
    <3>2. /\ q \in Nat /\ q - 8 \in A
          /\ lv[q].size \in Nat /\ lv[q].kept \in Nat
          /\ lv[q].kept <= lv[q].size /\ lv[q].size + 16 <= s1[q - 8]
          /\ \A a \in Arena : q <= a /\ a < q + lv[q].kept => m2[a] = lv[q].tag
      BY <2>2, <1>7 DEF Owns
    <3> QED
      BY <3>1, <3>2
  <2> QED
    BY <2>1, <2>2, <1>10
<1>12. \A b \in A1 : b + 8 \in DOMAIN l2
  <2>1. \A b \in A : b + 8 \in DOMAIN lv
    BY <1>7 DEF Owns
  <2> QED
    BY <2>1, <1>10
<1>13. Owns(m2, A1, s1, l2)
  <2> HIDE DEF A1
  <2> QED
    BY <1>11, <1>12 DEF Owns
<1>14. Good(m2, B1, s1, brk, F1, l2)
  BY <1>0, <1>4, <1>13 DEF Good
<1> QED
  BY <1>9, <1>14 DEF l2

\* mem_sbrk, for an increment that does not wrap around the word.
LEMMA SbrkGrows ==
  ASSUME NEW brk \in Nat, brk <= mem_max_addr, NEW n \in Nat,
         mem_max_addr + n < SIZE_MOD, sbrk_ok(brk, n)
  PROVE  sbrk(brk, n) = brk + n /\ brk + n <= mem_max_addr
<1>0. mem_max_addr \in Nat /\ SIZE_MOD \in Nat
  BY Layout, ArenaAssumption
<1>1. ToInt(n) >= 0 /\ (brk + ToInt(n)) % SIZE_MOD <= mem_max_addr
  BY DEF sbrk_ok
<1>2. ToInt(n) = n
  <2>1. CASE n < SIZE_MOD \div 2
    BY <2>1 DEF ToInt
  <2>2. CASE ~(n < SIZE_MOD \div 2)
    <3>1. ToInt(n) = n - SIZE_MOD
      BY <2>2 DEF ToInt
    <3> QED
      BY <3>1, <1>0, <1>1
  <2> QED
    BY <2>1, <2>2
<1>3. (brk + n) % SIZE_MOD = brk + n
  BY <1>0
<1> QED
  BY <1>1, <1>2, <1>3 DEF sbrk

\* An even number of words is not rounded up.
LEMMA ExtendBytes ==
  ASSUME NEW n \in Nat, n % 8 = 0
  PROVE  extend_bytes(n \div 4) = n
<1>1. (n \div 4) * 4 = n /\ (n \div 4) % 2 = 0
  OBVIOUS
<1> QED
  BY <1>1 DEF extend_bytes

\* The memory in mm_init before the first block is made.
Emptied(m) ==
  LET lists == [a \in DOMAIN m |->
                  IF a < mem_start_brk + BUCKETS_COUNT * WSIZE THEN NULL ELSE m[a]]
      pro   == PUT(PUT(PUT(lists, FirstBlk - 4 * WSIZE, 0),
                       FirstBlk - 3 * WSIZE, PACK(DSIZE, 1)),
                   FirstBlk - 2 * WSIZE, PACK(DSIZE, 1))
  IN  PUT(pro, FirstBlk - WSIZE, PACK(0, 1))

\* The heap of mm_init before extend_heap is whole, and has no block.
LEMMA EmptyWhole ==
  ASSUME NEW m, Typed(m), NEW sz, NEW m2, m2 = Emptied(m)
  PROVE  Whole(m2, {}, sz, FirstBlk, {})
<1> DEFINE lists == [a \in DOMAIN m |->
                       IF a < mem_start_brk + BUCKETS_COUNT * WSIZE THEN NULL ELSE m[a]]
           p1 == PUT(lists, FirstBlk - 16, 0)
           p2 == PUT(p1, FirstBlk - 12, 9)
           p3 == PUT(p2, FirstBlk - 8, 9)
<1>0. m2 = PUT(p3, FirstBlk - 4, 1)
  BY DEF Emptied, PACK
<1>1. /\ FirstBlk \in Nat /\ FirstBlk % 8 = 0 /\ FirstBlk <= mem_max_addr
      /\ mem_start_brk + BUCKETS_COUNT * WSIZE = FirstBlk - 16
      /\ mem_start_brk \in Nat /\ mem_start_brk + 16 <= FirstBlk
  BY Layout
<1>2. /\ FirstBlk - 16 \in Arena /\ FirstBlk - 12 \in Arena
      /\ FirstBlk - 8 \in Arena /\ FirstBlk - 4 \in Arena
  BY <1>1, Layout, Words8, InArena
<1>3. /\ Typed(lists)
      /\ \A a \in Arena : lists[a] = IF a < FirstBlk - 16 THEN 0 ELSE m[a]
  BY <1>1 DEF Typed
<1> HIDE DEF lists
<1>4. Typed(p1) /\ \A a \in Arena : p1[a] = IF a = FirstBlk - 16 THEN 0 ELSE lists[a]
  BY <1>2, <1>3 DEF Typed, PUT
<1> HIDE DEF p1
<1>5. Typed(p2) /\ \A a \in Arena : p2[a] = IF a = FirstBlk - 12 THEN 9 ELSE p1[a]
  BY <1>2, <1>4 DEF Typed, PUT
<1> HIDE DEF p2
<1>6. Typed(p3) /\ \A a \in Arena : p3[a] = IF a = FirstBlk - 8 THEN 9 ELSE p2[a]
  BY <1>2, <1>5 DEF Typed, PUT
<1> HIDE DEF p3
<1>7. Typed(m2) /\ \A a \in Arena : m2[a] = IF a = FirstBlk - 4 THEN 1 ELSE p3[a]
  BY <1>0, <1>2, <1>6 DEF Typed, PUT
<1>8. Ends(m2, FirstBlk)
  BY <1>1, <1>2, <1>5, <1>6, <1>7 DEF Ends
<1>9. \A h \in Heads : m2[h] = 0
  <2> SUFFICES ASSUME NEW h \in Heads PROVE m2[h] = 0
    OBVIOUS
  <2>1. h \in Arena /\ h \in Nat /\ h < FirstBlk - 16
    BY HeadsInArena
  <2>2. h # FirstBlk - 16 /\ h # FirstBlk - 12 /\ h # FirstBlk - 8 /\ h # FirstBlk - 4
    BY <2>1, <1>1
  <2> QED
    BY <2>1, <2>2, <1>3, <1>4, <1>5, <1>6, <1>7
<1>10. LinkedBy(m2, {}, Bk({}, sz))
  BY <1>9 DEF LinkedBy, Anchored
<1>11. Shape({}, sz, FirstBlk)
  BY <1>1 DEF Shape
<1> QED
  BY <1>7, <1>8, <1>10, <1>11 DEF Whole, Heap, Marked

(***************************************************************************)
(* mm_init makes a good heap out of any arena, also when there is no room  *)
(* for the first block and it fails.                                       *)
(***************************************************************************)
LEMMA InitGood ==
  ASSUME NEW m, Typed(m), NEW lv, DOMAIN lv = {}, NEW h, h = mm_init(m)
  PROVE  \E sz, F : Good(h.mem, h.blocks, sz, h.brk, F, lv)
<1> DEFINE e == Emptied(m)
           sz == [b \in {} |-> 0]
<1>0. CHUNKSIZE \in Nat /\ CHUNKSIZE % 8 = 0 /\ CHUNKSIZE >= 32
      /\ mem_max_addr + CHUNKSIZE < SIZE_MOD
  BY LayoutAssumption, OrdinarySizes
<1>f. FirstBlk \in Nat /\ FirstBlk <= mem_max_addr
  BY Layout
<1>1. Whole(e, {}, sz, FirstBlk, {})
  BY EmptyWhole
<1>2. Owns(e, {} \ {}, sz, lv)
  BY DEF Owns
<1>3. Good(e, {}, sz, FirstBlk, {}, lv)
  BY <1>1, <1>2 DEF Good
<1>d. h = IF sbrk_ok(FirstBlk, CHUNKSIZE)
          THEN [mem    |-> extend_heap(e, FirstBlk, CHUNKSIZE \div WSIZE).mem,
                brk    |-> sbrk(FirstBlk, CHUNKSIZE),
                blocks |-> {FirstBlk}]
          ELSE [mem |-> e, brk |-> FirstBlk, blocks |-> {}]
  BY DEF mm_init, Emptied
<1> HIDE DEF e, sz
<1>4. CASE ~sbrk_ok(FirstBlk, CHUNKSIZE)
  <2>1. h.mem = e /\ h.brk = FirstBlk /\ h.blocks = {}
    BY <1>d, <1>4
  <2> QED
    BY <2>1, <1>3
<1>5. CASE sbrk_ok(FirstBlk, CHUNKSIZE)
  <2> DEFINE words == CHUNKSIZE \div WSIZE
             ext == extend_heap(e, FirstBlk, words)
  <2>1. h.mem = ext.mem /\ h.brk = sbrk(FirstBlk, CHUNKSIZE) /\ h.blocks = {FirstBlk}
    BY <1>d, <1>5
  <2>2. sbrk(FirstBlk, CHUNKSIZE) = FirstBlk + CHUNKSIZE
        /\ FirstBlk + CHUNKSIZE <= mem_max_addr
    BY <1>0, <1>5, <1>f, SbrkGrows
  <2>3. CHUNKSIZE = extend_bytes(words)
    BY <1>0, ExtendBytes
  <2>4. ext = extend_heap(e, FirstBlk, words)
    OBVIOUS
  <2> HIDE DEF ext, words
  <2>5. PICK s2, F2 :
          /\ Good(ext.mem, Retile({} \union {FirstBlk}, ext.mem, ext.bp), s2,
                  FirstBlk + CHUNKSIZE, F2, lv)
          /\ ext.bp \in F2 /\ CHUNKSIZE <= s2[ext.bp]
    BY <2>2, <2>3, <2>4, <1>0, <1>3, ExtendGood, ZenonT(60)
  <2> DEFINE R == Retile({} \union {FirstBlk}, ext.mem, ext.bp)
  <2>6. F2 \subseteq R
    BY <2>5, WholeFacts DEF Good
  <2>7. R = {FirstBlk}
    BY <2>5, <2>6 DEF Retile
  <2>8. Good(ext.mem, {FirstBlk}, s2, FirstBlk + CHUNKSIZE, F2, lv)
    BY <2>5, <2>7
  <2> QED
    BY <2>1, <2>2, <2>8
<1> QED
  BY <1>4, <1>5
=============================================================================
