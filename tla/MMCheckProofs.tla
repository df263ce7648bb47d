---------------------------- MODULE MMCheckProofs ----------------------------
(***************************************************************************)
(* What the walks of MMCheck find, on every heap that mm.c produces.       *)
(***************************************************************************)
EXTENDS MMProofs, MMCheck

USE DEF WSIZE, DSIZE, ALIGNMENT, NULL
-----------------------------------------------------------------------------
\* Walks: functions on the natural numbers that are defined step by step.

\* Every nonempty set of natural numbers has a least element.
LEMMA LeastNumber ==
  ASSUME NEW T, T \subseteq Nat, T # {}
  PROVE  \E x \in T : \A y \in T : x <= y
<1> DEFINE R == {ss \in Nat \X Nat : ss[1] < ss[2]}
<1>1. IsWellFoundedOn(R, Nat)
  BY NatLessThanWellFounded DEF OpToRel
<1> HIDE DEF R
<1>2. PICK x \in T : \A y \in T : ~(<<y, x>> \in R)
  BY <1>1, WFMin
<1>3. \A y \in T : ~(y < x)
  BY <1>2 DEF R
<1> QED
  BY <1>3

\* A set that holds 0, and with every number the next, holds all of them.
LEMMA AllNumbers ==
  ASSUME NEW P, 0 \in P, \A i \in Nat : i \in P => i + 1 \in P
  PROVE  Nat \subseteq P
<1> SUFFICES ASSUME Nat \ P # {} PROVE FALSE
  OBVIOUS
<1>1. PICK x \in Nat \ P : \A y \in Nat \ P : x <= y
  BY LeastNumber
<1>2. x # 0 /\ x - 1 \in Nat /\ (x - 1) + 1 = x
  BY <1>1
<1>3. x - 1 \in P
  BY <1>1, <1>2
<1> QED
  BY <1>1, <1>2, <1>3

\* The first n steps of a walk from x by the function g.
Begins(h, S, x, g, n) ==
  /\ h \in [0 .. n -> S]
  /\ h[0] = x
  /\ \A i \in 0 .. n : i > 0 => h[i] = g[h[i - 1]]

\* Any number of steps can be taken.
LEMMA BeginsExist ==
  ASSUME NEW S, NEW x \in S, NEW g \in [S -> S], NEW n \in Nat
  PROVE  \E h : Begins(h, S, x, g, n)
<1> DEFINE P == {i \in Nat : \E h : Begins(h, S, x, g, i)}
<1>1. 0 \in P
  <2>1. Begins([i \in 0 .. 0 |-> x], S, x, g, 0)
    BY DEF Begins
  <2> QED
    BY <2>1
<1>2. ASSUME NEW i \in Nat, i \in P PROVE i + 1 \in P
  <2>1. PICK h : Begins(h, S, x, g, i)
    BY <1>2
  <2> DEFINE h2 == [j \in 0 .. (i + 1) |-> IF j <= i THEN h[j] ELSE g[h[i]]]
  <2>2. \A j \in 0 .. i : h[j] \in S
    BY <2>1 DEF Begins
  <2>3. g[h[i]] \in S
    BY <2>2
  <2>4. h2 \in [0 .. (i + 1) -> S]
    BY <2>2, <2>3
  <2>5. h2[0] = x
    BY <2>1 DEF Begins
  <2>6. ASSUME NEW j \in 0 .. (i + 1), j > 0 PROVE h2[j] = g[h2[j - 1]]
    <3>1. h2[j - 1] = h[j - 1] /\ j - 1 \in 0 .. i
      BY <2>6
    <3>2. CASE j <= i
      <4>1. j \in 0 .. i /\ h2[j] = h[j]
        BY <3>2, <2>6
      <4> QED
        BY <4>1, <3>1, <2>1, <2>6 DEF Begins
    <3>3. CASE j = i + 1
      BY <3>1, <3>3
    <3> QED
      BY <3>2, <3>3
  <2>7. Begins(h2, S, x, g, i + 1)
    BY <2>4, <2>5, <2>6 DEF Begins
  <2> QED
    BY <2>7
<1> HIDE DEF P
<1>3. n \in P
  BY <1>1, <1>2, AllNumbers
<1> QED
  BY <1>3 DEF P

\* Two beginnings agree where both are defined.
LEMMA BeginsAgree ==
  ASSUME NEW S, NEW x \in S, NEW g \in [S -> S], NEW n \in Nat, NEW k \in Nat,
         NEW h, Begins(h, S, x, g, n), NEW h2, Begins(h2, S, x, g, k)
  PROVE  \A i \in Nat : i <= n /\ i <= k => h[i] = h2[i]
<1> DEFINE P == {i \in Nat : i <= n /\ i <= k => h[i] = h2[i]}
<1>1. 0 \in P
  BY DEF Begins
<1>2. ASSUME NEW i \in Nat, i \in P PROVE i + 1 \in P
  <2> SUFFICES ASSUME i + 1 <= n, i + 1 <= k PROVE h[i + 1] = h2[i + 1]
    OBVIOUS
  <2>1. h[i] = h2[i]
    BY <1>2
  <2>2. i + 1 \in 0 .. n /\ i + 1 \in 0 .. k /\ i + 1 > 0 /\ (i + 1) - 1 = i
    OBVIOUS
  <2>3. h[i + 1] = g[h[i]]
    BY <2>2 DEF Begins
  <2>4. h2[i + 1] = g[h2[i]]
    BY <2>2 DEF Begins
  <2> QED
    BY <2>1, <2>3, <2>4
<1> HIDE DEF P
<1>3. Nat \subseteq P
  BY <1>1, <1>2, AllNumbers
<1> QED
  BY <1>3 DEF P

\* A walk that goes on for ever exists.
LEMMA WalkExists ==
  ASSUME NEW S, NEW x \in S, NEW g \in [S -> S]
  PROVE  \E f \in [Nat -> S] : f = [i \in Nat |-> IF i = 0 THEN x ELSE g[f[i - 1]]]
<1> DEFINE h(n) == CHOOSE h : Begins(h, S, x, g, n)
           f == [n \in Nat |-> h(n)[n]]
<1>1. \A n \in Nat : Begins(h(n), S, x, g, n)
  BY BeginsExist
<1>2. \A n \in Nat : h(n + 1)[n] = h(n)[n]
  <2> SUFFICES ASSUME NEW n \in Nat PROVE h(n + 1)[n] = h(n)[n]
    OBVIOUS
  <2>1. Begins(h(n), S, x, g, n) /\ Begins(h(n + 1), S, x, g, n + 1)
    BY <1>1
  <2> HIDE DEF h
  <2>2. \A i \in Nat : i <= n /\ i <= n + 1 => h(n)[i] = h(n + 1)[i]
    BY <2>1, BeginsAgree
  <2> QED
    BY <2>2
<1> HIDE DEF h
<1>3. f[0] = x
  BY <1>1 DEF Begins
<1>4. \A n \in Nat : f[n + 1] = g[f[n]]
  <2> SUFFICES ASSUME NEW n \in Nat PROVE f[n + 1] = g[f[n]]
    OBVIOUS
  <2>1. Begins(h(n + 1), S, x, g, n + 1)
    BY <1>1
  <2>2. n + 1 \in 0 .. (n + 1) /\ n + 1 > 0 /\ (n + 1) - 1 = n
    OBVIOUS
  <2>3. h(n + 1)[n + 1] = g[h(n + 1)[n]]
    BY <2>1, <2>2 DEF Begins
  <2> QED
    BY <2>3, <1>2
<1>5. f \in [Nat -> S]
  <2> SUFFICES ASSUME NEW n \in Nat PROVE h(n)[n] \in S
    OBVIOUS
  <2> QED
    BY <1>1 DEF Begins
<1> HIDE DEF f
<1>6. \A i \in Nat : f[i] = IF i = 0 THEN x ELSE g[f[i - 1]]
  <2> SUFFICES ASSUME NEW i \in Nat, i # 0 PROVE f[i] = g[f[i - 1]]
    BY <1>3
  <2>1. i - 1 \in Nat /\ (i - 1) + 1 = i
    OBVIOUS
  <2> QED
    BY <2>1, <1>4
<1>7. f = [i \in Nat |-> IF i = 0 THEN x ELSE g[f[i - 1]]]
  BY <1>5, <1>6
<1> QED
  BY <1>5, <1>7

\* A function that takes the steps of g stays in S.
LEMMA WalkStays ==
  ASSUME NEW S, NEW at, at[0] \in S,
         \A i \in Nat : at[i] \in S => at[i + 1] \in S
  PROVE  \A i \in Nat : at[i] \in S
<1> DEFINE P == {i \in Nat : at[i] \in S}
<1>1. 0 \in P /\ \A i \in Nat : i \in P => i + 1 \in P
  OBVIOUS
<1> HIDE DEF P
<1>2. Nat \subseteq P
  BY <1>1, AllNumbers
<1> QED
  BY <1>2 DEF P

\* next_block, if it stays in a set S that holds the first block, leads
\* section 1 along S.
LEMMA BlockWalk ==
  ASSUME NEW m, NEW brk, NEW S, NEXT_BLKP(m, heap_listp) \in S,
         \A bp \in S : next_block(m, brk, bp) \in S
  PROVE  /\ BlockAt(m, brk)[0] = NEXT_BLKP(m, heap_listp)
         /\ \A i \in Nat : /\ BlockAt(m, brk)[i] \in S
                           /\ BlockAt(m, brk)[i + 1] = next_block(m, brk, BlockAt(m, brk)[i])
<1> DEFINE x == NEXT_BLKP(m, heap_listp)
           g == [bp \in S |-> next_block(m, brk, bp)]
           at == BlockAt(m, brk)
<1>1. at = CHOOSE f : f = [i \in Nat |-> IF i = 0 THEN x ELSE next_block(m, brk, f[i - 1])]
  BY DEF BlockAt
<1>2. \E f : f = [i \in Nat |-> IF i = 0 THEN x ELSE next_block(m, brk, f[i - 1])]
  <2>1. x \in S /\ g \in [S -> S] /\ \A bp \in S : g[bp] = next_block(m, brk, bp)
    OBVIOUS
  <2> HIDE DEF x, g
  <2>2. PICK f \in [Nat -> S] : f = [i \in Nat |-> IF i = 0 THEN x ELSE g[f[i - 1]]]
    BY <2>1, WalkExists
  <2>3. \A i \in Nat : i # 0 => g[f[i - 1]] = next_block(m, brk, f[i - 1])
    <3> SUFFICES ASSUME NEW i \in Nat, i # 0 PROVE f[i - 1] \in S
      BY <2>1
    <3>1. i - 1 \in Nat
      OBVIOUS
    <3> QED
      BY <3>1
  <2>4. f = [i \in Nat |-> IF i = 0 THEN x ELSE next_block(m, brk, f[i - 1])]
    BY <2>2, <2>3
  <2> QED
    BY <2>4
<1> HIDE DEF at, x
<1>3. at = [i \in Nat |-> IF i = 0 THEN x ELSE next_block(m, brk, at[i - 1])]
  BY <1>1, <1>2
<1>4. at[0] = x
  BY <1>3
<1>5. \A i \in Nat : at[i + 1] = next_block(m, brk, at[i])
  <2> SUFFICES ASSUME NEW i \in Nat PROVE at[i + 1] = next_block(m, brk, at[i])
    OBVIOUS
  <2>1. i + 1 \in Nat /\ i + 1 # 0 /\ (i + 1) - 1 = i
    OBVIOUS
  <2>2. at[i + 1] = next_block(m, brk, at[(i + 1) - 1])
    BY <1>3, <2>1
  <2> QED
    BY <2>1, <2>2
<1>6. at[0] \in S /\ \A i \in Nat : at[i] \in S => at[i + 1] \in S
  BY <1>4, <1>5 DEF x
<1>7. \A i \in Nat : at[i] \in S
  BY <1>6, WalkStays
<1> QED
  BY <1>4, <1>5, <1>7 DEF at, x

\* next_on_list, if it stays in a set S that holds the head of a list, leads
\* along S.
LEMMA ListWalk ==
  ASSUME NEW m, NEW k, NEW S, GET(m, BucketAddr(k)) \in S,
         \A bp \in S : next_on_list(m, bp) \in S
  PROVE  /\ NodeAt(m, k)[0] = GET(m, BucketAddr(k))
         /\ \A i \in Nat : /\ NodeAt(m, k)[i] \in S
                           /\ NodeAt(m, k)[i + 1] = next_on_list(m, NodeAt(m, k)[i])
<1> DEFINE x == GET(m, BucketAddr(k))
           g == [bp \in S |-> next_on_list(m, bp)]
           at == NodeAt(m, k)
<1>1. at = CHOOSE f : f = [i \in Nat |-> IF i = 0 THEN x ELSE next_on_list(m, f[i - 1])]
  BY DEF NodeAt
<1>2. \E f : f = [i \in Nat |-> IF i = 0 THEN x ELSE next_on_list(m, f[i - 1])]
  <2>1. x \in S /\ g \in [S -> S] /\ \A bp \in S : g[bp] = next_on_list(m, bp)
    OBVIOUS
  <2> HIDE DEF x, g
  <2>2. PICK f \in [Nat -> S] : f = [i \in Nat |-> IF i = 0 THEN x ELSE g[f[i - 1]]]
    BY <2>1, WalkExists
  <2>3. \A i \in Nat : i # 0 => g[f[i - 1]] = next_on_list(m, f[i - 1])
    <3> SUFFICES ASSUME NEW i \in Nat, i # 0 PROVE f[i - 1] \in S
      BY <2>1
    <3>1. i - 1 \in Nat
      OBVIOUS
    <3> QED
      BY <3>1
  <2>4. f = [i \in Nat |-> IF i = 0 THEN x ELSE next_on_list(m, f[i - 1])]
    BY <2>2, <2>3
  <2> QED
    BY <2>4
<1> HIDE DEF at, x
<1>3. at = [i \in Nat |-> IF i = 0 THEN x ELSE next_on_list(m, at[i - 1])]
  BY <1>1, <1>2
<1>4. at[0] = x
  BY <1>3
<1>5. \A i \in Nat : at[i + 1] = next_on_list(m, at[i])
  <2> SUFFICES ASSUME NEW i \in Nat PROVE at[i + 1] = next_on_list(m, at[i])
    OBVIOUS
  <2>1. i + 1 \in Nat /\ i + 1 # 0 /\ (i + 1) - 1 = i
    OBVIOUS
  <2>2. at[i + 1] = next_on_list(m, at[(i + 1) - 1])
    BY <1>3, <2>1
  <2> QED
    BY <2>1, <2>2
<1>6. at[0] \in S /\ \A i \in Nat : at[i] \in S => at[i + 1] \in S
  BY <1>4, <1>5 DEF x
<1>7. \A i \in Nat : at[i] \in S
  BY <1>6, WalkStays
<1> QED
  BY <1>4, <1>5, <1>7 DEF at, x
-----------------------------------------------------------------------------
\* Sections 1 and 3 of mm_check.

\* A block in the arena is one of at most MaxBlocks.
LEMMA BlocksFit ==
  /\ MaxBlocks \in Nat
  /\ \A b : Spot(b) => /\ (b - FirstBlk) \div 32 \in 0 .. (MaxBlocks - 1)
                       /\ b < FirstBlk + 32 * MaxBlocks
<1>1. MAX_HEAP \in Nat
  BY ArenaAssumption
<1>2. MaxBlocks \in Nat /\ MaxBlocks = MAX_HEAP \div 32
  BY <1>1 DEF MaxBlocks
<1>3. ASSUME NEW b, Spot(b)
      PROVE  /\ (b - FirstBlk) \div 32 \in 0 .. (MaxBlocks - 1)
             /\ b < FirstBlk + 32 * MaxBlocks
  <2>1. b \in Nat /\ FirstBlk \in Nat /\ 0 <= b - FirstBlk /\ b - FirstBlk + 32 <= MAX_HEAP
    BY <1>3, <1>1, Layout DEF Spot
  <2> QED
    BY <2>1, <1>1, <1>2
<1> QED
  BY <1>2, <1>3

\* From a block of a whole heap, section 1 goes to the next one or the break.
LEMMA NextBlock ==
  ASSUME NEW m, NEW B, NEW sz, NEW brk, NEW F, Whole(m, B, sz, brk, F),
         NEW b \in B \union {brk}
  PROVE  next_block(m, brk, b) = IF b = brk THEN brk ELSE b + sz[b]
<1>1. Heap(m, B, sz, brk, B, F) /\ Shape(B, sz, brk)
  BY WholeFacts
<1>2. brk \in Nat /\ brk > brk - 1
  BY <1>1 DEF Shape
<1>3. CASE b = brk
  BY <1>2, <1>3 DEF next_block
<1>4. CASE b # brk
  <2>1. b \in B /\ b \in Nat /\ b < brk
    BY <1>1, <1>4, ShapeSpots, WholeFacts
  <2>2. NEXT_BLKP(m, b) = b + sz[b] /\ FTRP(m, b) = b + sz[b] - 8
    BY <1>1, <2>1, HeapSize
  <2>3. m[b + sz[b] - 8] = m[b - 4]
    BY <1>1, <2>1 DEF Heap, Marked
  <2>4. GET(m, HDRP(b)) = GET(m, FTRP(m, b))
    BY <2>2, <2>3 DEF GET, HDRP
  <2> QED
    BY <1>2, <1>4, <2>1, <2>2, <2>4 DEF next_block
<1> QED
  BY <1>3, <1>4

\* Section 1 visits blocks only, each at least 32 bytes after the one before,
\* and reaches the break.
LEMMA WholeWalk ==
  ASSUME NEW m, NEW B, NEW sz, NEW brk, NEW F, Whole(m, B, sz, brk, F),
         heap_listp = FirstBlk - 8
  PROVE  /\ \A i \in Nat : BlockAt(m, brk)[i] \in B \union {brk}
         /\ BlockAt(m, brk)[MaxBlocks] = brk
<1> DEFINE at == BlockAt(m, brk)
<1>1. /\ Heap(m, B, sz, brk, B, F) /\ Shape(B, sz, brk) /\ Ends(m, brk)
      /\ \A b \in B : b \in Nat /\ sz[b] \in Nat /\ sz[b] >= 32
  BY WholeFacts
<1>2. /\ FirstBlk \in Nat /\ brk \in Nat
      /\ FirstBlk \in B \union {brk}
      /\ \A b \in B : FirstBlk <= b /\ b + sz[b] \in B \union {brk}
  BY <1>1, Layout DEF Shape
<1>3. NEXT_BLKP(m, heap_listp) = FirstBlk
  <2>1. heap_listp - 4 = FirstBlk - 12 /\ m[FirstBlk - 12] = 9
    BY <1>1, <1>2 DEF Ends
  <2>2. GET_SIZE(9) = 8
    BY DEF GET_SIZE
  <2>3. NEXT_BLKP(m, heap_listp) = heap_listp + GET_SIZE(m[heap_listp - 4])
    BY DEF NEXT_BLKP, GET
  <2> QED
    BY <2>1, <2>2, <2>3, <1>2
<1>4. \A b \in B \union {brk} :
        next_block(m, brk, b) = IF b = brk THEN brk ELSE b + sz[b]
  BY NextBlock
<1>5. \A b \in B \union {brk} : next_block(m, brk, b) \in B \union {brk}
  BY <1>2, <1>4
<1>6. /\ at[0] = FirstBlk
      /\ \A i \in Nat : /\ at[i] \in B \union {brk}
                        /\ at[i + 1] = next_block(m, brk, at[i])
  <2> DEFINE S == B \union {brk}
  <2>1. NEXT_BLKP(m, heap_listp) \in S /\ \A bp \in S : next_block(m, brk, bp) \in S
    BY <1>2, <1>3, <1>5
  <2> HIDE DEF S
  <2>2. /\ BlockAt(m, brk)[0] = NEXT_BLKP(m, heap_listp)
        /\ \A i \in Nat : /\ BlockAt(m, brk)[i] \in S
                          /\ BlockAt(m, brk)[i + 1] = next_block(m, brk, BlockAt(m, brk)[i])
    BY <2>1, BlockWalk
  <2> QED
    BY <2>2, <1>3 DEF S
<1> HIDE DEF at
<1> DEFINE P == {i \in Nat : at[i] = brk \/ at[i] >= FirstBlk + 32 * i}
<1>7. 0 \in P
  BY <1>2, <1>6
<1>8. ASSUME NEW i \in Nat, i \in P PROVE i + 1 \in P
  <2>1. CASE at[i] = brk
    BY <1>4, <1>6, <2>1
  <2>2. CASE at[i] # brk
    <3>1. at[i] \in B /\ at[i + 1] = at[i] + sz[at[i]]
      BY <1>4, <1>6, <2>2
    <3>2. at[i] \in Nat /\ sz[at[i]] \in Nat /\ sz[at[i]] >= 32
      BY <1>1, <3>1
    <3>3. at[i] >= FirstBlk + 32 * i
      BY <1>8, <2>2
    <3>4. at[i + 1] >= FirstBlk + 32 * (i + 1)
      BY <3>1, <3>2, <3>3, <1>2
    <3> QED
      BY <3>4
  <2> QED
    BY <2>1, <2>2
<1> HIDE DEF P
<1>9. MaxBlocks \in P
  BY <1>7, <1>8, AllNumbers, BlocksFit
<1>10. at[MaxBlocks] = brk
  <2> SUFFICES ASSUME at[MaxBlocks] # brk PROVE FALSE
    OBVIOUS
  <2>1. at[MaxBlocks] \in B /\ at[MaxBlocks] >= FirstBlk + 32 * MaxBlocks
    BY <1>6, <1>9, BlocksFit DEF P
  <2>2. Spot(at[MaxBlocks])
    BY <2>1, <1>1, ShapeSpots DEF Spots
  <2>3. at[MaxBlocks] < FirstBlk + 32 * MaxBlocks
    BY <2>2, BlocksFit
  <2>4. at[MaxBlocks] \in Nat /\ MaxBlocks \in Nat
    BY <2>1, <1>1, BlocksFit
  <2> QED
    BY <2>1, <2>3, <2>4, <1>2
<1> QED
  BY <1>6, <1>10 DEF at

\* Section 1 passes on every whole heap.
LEMMA HeadersMatch ==
  ASSUME NEW m, NEW B, NEW sz, NEW brk, NEW F, Whole(m, B, sz, brk, F),
         heap_listp = FirstBlk - 8
  PROVE  headers_match(m, brk)
<1>1. MaxBlocks \in 0 .. MaxBlocks
  BY BlocksFit
<1>2. BlockAt(m, brk)[MaxBlocks] = brk
  BY WholeWalk
<1>3. brk \in Nat
  BY WholeFacts DEF Shape
<1>4. brk \in Walked(m, brk)
  BY <1>1, <1>2 DEF Walked
<1> QED
  BY <1>3, <1>4 DEF headers_match

\* Section 3 passes on every whole heap.
LEMMA NoneEscaped ==
  ASSUME NEW m, NEW B, NEW sz, NEW brk, NEW F, Whole(m, B, sz, brk, F),
         heap_listp = FirstBlk - 8
  PROVE  none_escaped(m, brk)
<1> SUFFICES ASSUME NEW bp \in Walked(m, brk), bp <= brk - 1,
                    GET_ALLOC(GET(m, HDRP(bp))) = 0,
                    GET_ALLOC(GET(m, HDRP(NEXT_BLKP(m, bp)))) = 0
             PROVE  FALSE
  BY DEF none_escaped
<1>1. /\ Heap(m, B, sz, brk, B, F) /\ Shape(B, sz, brk) /\ Ends(m, brk) /\ F \subseteq B
      /\ \A b \in B : b \in Nat /\ sz[b] \in Nat
      /\ \A b \in B \ F : m[b - 4] = sz[b] + 1
      /\ \A f \in F : f + sz[f] \notin F
  BY WholeFacts
<1>2. brk \in Nat
  BY <1>1 DEF Shape
<1>3. \A i \in 0 .. MaxBlocks : i \in Nat
  BY BlocksFit
<1>4. bp \in B \union {brk}
  BY <1>3, WholeWalk DEF Walked
<1>5. bp \in B
  BY <1>2, <1>4
<1>6. \A b \in B : /\ NEXT_BLKP(m, b) = b + sz[b]
                   /\ GET_ALLOC(m[b - 4]) = 0 <=> m[b - 4] = sz[b]
  BY <1>1, HeapSize
<1>7. \A b \in B : GET_ALLOC(m[b - 4]) = 0 => b \in F
  BY <1>1, <1>6
<1>8. bp \in F
  BY <1>5, <1>7 DEF GET, HDRP
<1>9. bp + sz[bp] \in B \union {brk}
  BY <1>1, <1>5 DEF Shape
<1>10. CASE bp + sz[bp] \in B
  <2>1. bp + sz[bp] \in F
    BY <1>5, <1>6, <1>7, <1>10 DEF GET, HDRP
  <2> QED
    BY <2>1, <1>8, <1>1
<1>11. CASE bp + sz[bp] = brk
  <2>1. GET(m, HDRP(NEXT_BLKP(m, bp))) = 1
    BY <1>1, <1>5, <1>6, <1>11 DEF GET, HDRP, Ends
  <2> QED
    BY <2>1 DEF GET_ALLOC
<1> QED
  BY <1>9, <1>10, <1>11

\* Section 2 passes on a whole heap only if it has no free block.
LEMMA ListsPass ==
  ASSUME NEW m, NEW B, NEW sz, NEW brk, NEW F, Whole(m, B, sz, brk, F)
  PROVE  lists_pass(m) <=> F = {}
<1>1. Linked(m, F) /\ Anchored(m, F) /\ F \subseteq B
  BY WholeLinked, WholeFacts DEF Heap, LinkedBy
<1>2. \A b \in F : b # NULL
  BY WholeFacts, ShapeSpots, SpotWords DEF Heap, Spots
<1>3. ASSUME F = {} PROVE lists_pass(m)
  BY <1>1, <1>3 DEF lists_pass, Linked
<1>4. ASSUME F # {} PROVE ~lists_pass(m)
  <2>1. PICK b \in F : GET(m, b + WSIZE) \notin F
    BY <1>1, <1>4 DEF Anchored
  <2>2. GET(m, BucketOf(m, b)) = b
    BY <1>1, <2>1 DEF Linked
  <2>3. BucketOf(m, b) \in Heads
    BY <1>1, <2>1, WholeBuckets
  <2> QED
    BY <1>2, <2>1, <2>2, <2>3 DEF Heads, lists_pass
<1> QED
  BY <1>3, <1>4

\* mm_check finds nothing wrong with the tags and the neighbours of any heap
\* that mm.c produces, and its result says only whether a block is free.
THEOREM CheckDecided == Spec => []CheckResult
<1>1. IInv => CheckResult
  <2> SUFFICES ASSUME IInv, heap_listp # NULL
               PROVE  /\ headers_match(mem, mem_brk) /\ none_escaped(mem, mem_brk)
                      /\ mm_check <=> FreeBlocks(mem, blocks) = {}
    BY DEF CheckResult
  <2>1. PICK sz, F : Whole(mem, blocks, sz, mem_brk, F)
    BY IInvPInv DEF PInv, Sound, Good
  <2>2. heap_listp = FirstBlk - 8
    BY DEF IInv, TypeOK
  <2>3. headers_match(mem, mem_brk) /\ none_escaped(mem, mem_brk)
    BY <2>1, <2>2, HeadersMatch, NoneEscaped
  <2>4. lists_pass(mem) <=> FreeBlocks(mem, blocks) = {}
    BY <2>1, ListsPass, WholeFree
  <2> QED
    BY <2>3, <2>4 DEF mm_check
<1> QED
  BY <1>1, Safety, PTL
-----------------------------------------------------------------------------
\* The walk along a list.

\* at is a walk along the list with head h: it stands on free blocks of that
\* list, each linked back to the one before, until it comes to the end.
Along(at, m, F, h) ==
  /\ \A i \in Nat : at[i] # NULL => at[i] \in F /\ BucketOf(m, at[i]) = h
  /\ at[0] = m[h]
  /\ at[0] # NULL => m[at[0] + 4] = NULL
  /\ \A i \in Nat : IF at[i] = NULL THEN at[i + 1] = NULL ELSE at[i + 1] = m[at[i]]
  /\ \A i \in Nat : at[i + 1] # NULL => at[i] # NULL /\ m[at[i + 1] + 4] = at[i]

\* The walk of OnList is one.
LEMMA NodesAlong ==
  ASSUME NEW m, NEW B, NEW sz, NEW brk, NEW F, Whole(m, B, sz, brk, F),
         NEW k \in Buckets
  PROVE  Along(NodeAt(m, k), m, F, BucketAddr(k))
<1> DEFINE h == BucketAddr(k)
           at == NodeAt(m, k)
           S == {b \in F : BucketOf(m, b) = h} \union {NULL}
<1>1. Linked(m, F)
  BY WholeLinked
<1>2. m[h] # NULL => m[h] \in F /\ BucketOf(m, m[h]) = h /\ m[m[h] + 4] = NULL
  BY <1>1 DEF Linked, GET
<1>3. ASSUME NEW b \in F
      PROVE  m[b] # NULL => /\ m[b] \in F
                            /\ BucketOf(m, m[b]) = BucketOf(m, b)
                            /\ m[m[b] + 4] = b
  BY <1>1 DEF Linked, GET
<1> HIDE DEF h
<1>4. GET(m, h) \in S
  BY <1>2 DEF GET
<1>5. \A b \in S : next_on_list(m, b) \in S
  BY <1>3 DEF next_on_list, GET
<1>6. /\ at[0] = m[h]
      /\ \A i \in Nat : at[i] \in S /\ at[i + 1] = next_on_list(m, at[i])
  <2> HIDE DEF S
  <2> QED
    BY <1>4, <1>5, ListWalk DEF h, GET
<1> HIDE DEF at
<1>7. \A i \in Nat : at[i] # NULL => at[i] \in F /\ BucketOf(m, at[i]) = h
  BY <1>6
<1>8. \A i \in Nat : IF at[i] = NULL THEN at[i + 1] = NULL ELSE at[i + 1] = m[at[i]]
  BY <1>6 DEF next_on_list, GET
<1>9. \A i \in Nat : at[i + 1] # NULL => at[i] # NULL /\ m[at[i + 1] + 4] = at[i]
  BY <1>3, <1>7, <1>8
<1>10. at[0] # NULL => m[at[0] + 4] = NULL
  BY <1>2, <1>6
<1>11. Along(at, m, F, h)
  BY <1>6, <1>7, <1>8, <1>9, <1>10 DEF Along
<1> QED
  BY <1>11 DEF at, h

\* A walk along a list meets no block twice: the first that it met twice would
\* have two blocks before it.
LEMMA NoneTwice ==
  ASSUME NEW at, NEW m, NEW F, NEW h, Along(at, m, F, h)
  PROVE  \A i, j \in Nat : i < j /\ at[i] = at[j] => at[i] = NULL
<1> DEFINE T == {i \in Nat : at[i] # NULL /\ \E j \in Nat : i < j /\ at[i] = at[j]}
<1>1. ASSUME T # {} PROVE FALSE
  <2>1. PICK i \in T : \A x \in T : i <= x
    <3> HIDE DEF T
    <3>1. T \subseteq Nat
      BY DEF T
    <3> QED
      BY <3>1, <1>1, LeastNumber
  <2>2. PICK j \in Nat : i < j /\ at[i] = at[j]
    BY <2>1
  <2>3. i \in Nat /\ at[i] # NULL
    BY <2>1
  <2>4. j - 1 \in Nat /\ (j - 1) + 1 = j
    BY <2>2, <2>3
  <2>5. at[j - 1] # NULL /\ m[at[j] + 4] = at[j - 1]
    BY <2>2, <2>3, <2>4 DEF Along
  <2>6. CASE i = 0
    BY <2>2, <2>3, <2>5, <2>6 DEF Along
  <2>7. CASE i # 0
    <3>1. i - 1 \in Nat /\ (i - 1) + 1 = i /\ i - 1 < j - 1
      BY <2>2, <2>3, <2>7
    <3>2. m[at[i] + 4] = at[i - 1]
      BY <2>3, <3>1 DEF Along
    <3>3. at[i - 1] = at[j - 1]
      BY <2>2, <2>5, <3>2
    <3>4. i - 1 \in T
      BY <2>4, <2>5, <3>1, <3>3
    <3> QED
      BY <2>1, <2>3, <3>1, <3>4
  <2> QED
    BY <2>6, <2>7
<1> QED
  BY <1>1

\* So it ends, for there is no room for more blocks than MaxBlocks.
LEMMA WalkEnds ==
  ASSUME NEW at, NEW m, NEW F, NEW h, Along(at, m, F, h), Spots(F), NULL \notin F
  PROVE  at[MaxBlocks] = NULL
<1> SUFFICES ASSUME at[MaxBlocks] # NULL PROVE FALSE
  OBVIOUS
<1>1. MaxBlocks \in Nat
  BY BlocksFit
<1> DEFINE n == MaxBlocks
           f == [i \in 0 .. n |-> (at[i] - FirstBlk) \div 32]
<1> HIDE DEF n
<1>2. \A i \in 0 .. n : at[i] # NULL
  <2> DEFINE P == {i \in Nat : i <= n => at[n - i] # NULL}
  <2>1. 0 \in P
    BY <1>1 DEF n
  <2>2. ASSUME NEW i \in Nat, i \in P PROVE i + 1 \in P
    <3> SUFFICES ASSUME i + 1 <= n PROVE at[n - (i + 1)] # NULL
      OBVIOUS
    <3>1. n - (i + 1) \in Nat /\ (n - (i + 1)) + 1 = n - i /\ i <= n
      BY <1>1 DEF n
    <3>2. at[n - i] # NULL
      BY <2>2, <3>1
    <3> QED
      BY <3>1, <3>2 DEF Along
  <2> HIDE DEF P
  <2>3. Nat \subseteq P
    BY <2>1, <2>2, AllNumbers
  <2> SUFFICES ASSUME NEW i \in 0 .. n PROVE at[i] # NULL
    OBVIOUS
  <2>4. n - i \in Nat /\ n - i <= n /\ n - (n - i) = i
    BY <1>1 DEF n
  <2> QED
    BY <2>3, <2>4 DEF P
<1>3. \A i \in 0 .. n : at[i] \in F
  BY <1>1, <1>2 DEF Along, n
<1>4. \A i, j \in 0 .. n : i # j => at[i] # at[j]
  <2> SUFFICES ASSUME NEW i \in 0 .. n, NEW j \in 0 .. n, i < j PROVE at[i] # at[j]
    BY <1>1 DEF n
  <2>1. i \in Nat /\ j \in Nat
    BY <1>1 DEF n
  <2> QED
    BY <1>2, <2>1, NoneTwice
<1>5. \A i \in 0 .. n : f[i] \in 0 .. (n - 1)
  BY <1>3, BlocksFit DEF Spots, n
<1>6. \A i, j \in 0 .. n : i # j => f[i] # f[j]
  <2> SUFFICES ASSUME NEW i \in 0 .. n, NEW j \in 0 .. n, i # j PROVE f[i] # f[j]
    OBVIOUS
  <2>1. at[i] \in F /\ at[j] \in F /\ at[i] # at[j]
    BY <1>3, <1>4
  <2>2. at[i] \in Nat /\ at[j] \in Nat /\ FirstBlk \in Nat
        /\ FirstBlk <= at[i] /\ FirstBlk <= at[j]
    BY <2>1, Layout DEF Spots, Spot
  <2>3. at[i] + 32 <= at[j] \/ at[j] + 32 <= at[i]
    BY <2>1, <2>2 DEF Spots
  <2>4. (at[i] - FirstBlk) \div 32 # (at[j] - FirstBlk) \div 32
    BY <2>2, <2>3
  <2> QED
    BY <2>4
<1>7. f \in [0 .. n -> 0 .. (n - 1)]
  BY <1>5
<1> HIDE DEF f
<1>8. IsFiniteSet(0 .. n) /\ Cardinality(0 .. n) = n + 1
  BY <1>1, FS_Interval DEF n
<1>9. IsFiniteSet(0 .. (n - 1)) /\ Cardinality(0 .. (n - 1)) = n
  BY <1>1, FS_Interval DEF n
<1>10. n < n + 1
  BY <1>1 DEF n
<1> QED
  BY <1>6, <1>7, <1>8, <1>9, <1>10, FS_PigeonHole

\* It has then met every free block of its bucket.
LEMMA WholeList ==
  ASSUME NEW m, NEW B, NEW sz, NEW brk, NEW F, Whole(m, B, sz, brk, F),
         NEW k \in Buckets
  PROVE  /\ OnList(m, k) = {b \in F : BucketOf(m, b) = BucketAddr(k)}
         /\ NodeAt(m, k)[MaxBlocks] = NULL
<1> DEFINE at == NodeAt(m, k)
           h == BucketAddr(k)
           V == OnList(m, k)
<1>1. Along(at, m, F, h)
  BY NodesAlong
<1>2. Spots(F) /\ NULL \notin F
  <2>1. Spots(B) /\ F \subseteq B
    BY WholeFacts, ShapeSpots
  <2> QED
    BY <2>1, SpotWords DEF Spots
<1>3. V = {at[i] : i \in 0 .. MaxBlocks} \ {NULL}
  BY DEF OnList
<1>4. h \in Heads
  BY DEF Heads
<1> HIDE DEF at, h, V
<1>5. at[MaxBlocks] = NULL
  BY <1>1, <1>2, WalkEnds
<1>6. MaxBlocks \in Nat
  BY BlocksFit
<1>7. \A b \in V : b \in F /\ BucketOf(m, b) = h
  <2> SUFFICES ASSUME NEW i \in 0 .. MaxBlocks, at[i] # NULL
               PROVE  at[i] \in F /\ BucketOf(m, at[i]) = h
    BY <1>3
  <2>1. i \in Nat
    BY <1>6
  <2> QED
    BY <1>1, <2>1 DEF Along
<1>8. m[h] \in V \union {NULL}
  <2>1. 0 \in 0 .. MaxBlocks
    BY <1>6
  <2> QED
    BY <1>1, <1>3, <2>1 DEF Along
<1>9. ASSUME NEW b \in V PROVE m[b] \in V \union {NULL}
  <2>1. PICK i \in 0 .. MaxBlocks : at[i] = b /\ at[i] # NULL
    BY <1>3
  <2>2. i \in Nat /\ i # MaxBlocks
    BY <2>1, <1>5, <1>6
  <2>3. i + 1 \in 0 .. MaxBlocks
    BY <2>1, <2>2, <1>6
  <2>4. at[i + 1] = m[b]
    BY <1>1, <2>1, <2>2 DEF Along
  <2> QED
    BY <1>3, <2>3, <2>4
<1>10. \A b \in F : BucketOf(m, b) = h => b \in V
  BY <1>4, <1>8, <1>9, WholeListPassed
<1>11. V = {b \in F : BucketOf(m, b) = h}
  BY <1>7, <1>10
<1> QED
  BY <1>5, <1>11 DEF at, h, V

\* Every free block of every heap that mm.c produces is on the list where
\* find_fit looks for it, and the list ends.
THEOREM ReachableAlways == Spec => []ListsReachable
<1>1. IInv => ListsReachable
  <2> SUFFICES ASSUME IInv, heap_listp # NULL, NEW k \in Buckets
               PROVE  /\ OnList(mem, k) = {b \in FreeBlocks(mem, blocks) :
                                             BucketOf(mem, b) = BucketAddr(k)}
                      /\ NodeAt(mem, k)[MaxBlocks] = NULL
    BY DEF ListsReachable
  <2>1. PICK sz, F : Whole(mem, blocks, sz, mem_brk, F)
    BY IInvPInv DEF PInv, Sound, Good
  <2> QED
    BY <2>1, WholeList, WholeFree
<1> QED
  BY <1>1, Safety, PTL

=============================================================================
