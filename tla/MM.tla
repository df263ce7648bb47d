--------------------------------- MODULE MM ---------------------------------
(***************************************************************************)
(* mm.c: the segregated-list allocator, at the level of the words of its   *)
(* heap.                                                                   *)
(*                                                                         *)
(*   mem_start_brk      BUCKETS_COUNT words, the heads of the free lists   *)
(*   .. + 4 words       padding, prologue header and footer, and the word  *)
(*                      before the first block, its header                 *)
(*   FirstBlk ..        the blocks; a block pointer bp is one word past    *)
(*                      the block's header, so block bp occupies           *)
(*                      bp-4 .. bp+size-5: header, next, prev, payload     *)
(*                      (from bp+8) and footer                             *)
(*   mem_brk-4          the epilogue header, where the next block's header *)
(*                      will be                                            *)
(*                                                                         *)
(* The allocator is sequential.  A call is one action, except that the     *)
(* loops of find_fit take one action per iteration: nothing else can       *)
(* happen while pc = "find_fit", and that a search ends is then something  *)
(* to check.  The caller is any program that frees and reallocates only    *)
(* pointers it holds; like mdriver.c it fills each payload it gets.        *)
(***************************************************************************)
EXTENDS MemLib

CONSTANTS
  CHUNKSIZE,      \* least number of bytes a failed search adds to the heap
  BUCKETS_COUNT,  \* number of free lists; also the width of a word in bits
  Sizes,          \* the sizes a caller asks for
  Tags,           \* the values a caller fills payloads with
  Junk,           \* the values memory may hold before it is written
  MaxRuns         \* bound: how often the heap is reset and initialised

WSIZE == 4
DSIZE == 8
ALIGNMENT == 8
\* Mutant of OVERHEAD: room for one tag only.
OVERHEAD_short == 8
OVERHEAD == 32
NULL == 0

Buckets == 0 .. (BUCKETS_COUNT - 1)

\* The address of the first block, which is also the break of an empty heap.
FirstBlk == mem_start_brk + (BUCKETS_COUNT + 4) * WSIZE

\* Is k the first bucket whose bound 2^k is at least the given block size?
IsBucketFor(k, bytes) == bytes <= 2^k /\ \A j \in 0 .. (k - 1) : 2^j < bytes

(***************************************************************************)
(* The compile-time constants fit each other: the lists and the empty heap *)
(* fit in the arena, and every block has a bucket.                         *)
(***************************************************************************)
ASSUME LayoutAssumption ==
  /\ CHUNKSIZE \in Nat /\ CHUNKSIZE % DSIZE = 0 /\ CHUNKSIZE >= 4 * DSIZE
  /\ BUCKETS_COUNT \in Nat /\ BUCKETS_COUNT % 2 = 0
  /\ FirstBlk <= mem_max_addr
  /\ \A bytes \in 1 .. MAX_HEAP : \E k \in Buckets : IsBucketFor(k, bytes)

ASSUME CallerAssumption ==
  /\ Sizes \subseteq 0 .. (SIZE_MOD - 1)
  /\ Tags \subseteq Nat
  /\ Junk \subseteq Nat
  /\ MaxRuns \in Nat

VARIABLES
  mem,         \* the words of the arena
  heap_listp,  \* NULL until mm_init has run, then the prologue block
  pc,          \* "idle", "find_fit" or "crashed"
  req,         \* the call being served: old pointer (NULL: mm_malloc), size, fill
  newsize,     \* size of the block it needs
  bucket,      \* address of the list head find_fit is at
  node,        \* block find_fit is at, NULL at the end of a list
  live,        \* payloads the caller holds: size, bytes it relies on, fill
  blocks,      \* auxiliary: the block pointers that tile the heap
  runs         \* how often the heap has been reset and initialised

vars == <<mem_brk, mem, heap_listp, pc, req, newsize, bucket, node, live,
          blocks, runs>>
-----------------------------------------------------------------------------
\* Words of memory.

Arena == {a \in mem_start_brk .. (mem_max_addr - 1) : a % WSIZE = 0}

GET(m, p) == m[p]
PUT(m, p, val) == [m EXCEPT ![p] = val]

\* size | alloc, for a size that is a multiple of 8.
PACK(size, alloc) == size + alloc
GET_SIZE(word) == word - (word % 8)
GET_ALLOC(word) == word % 2

\* (size + 7) & ~0x7 on an unsigned word.
ALIGN(size) ==
  LET up == (size + (ALIGNMENT - 1)) % SIZE_MOD IN up - (up % ALIGNMENT)

HDRP(bp) == bp - WSIZE
FTRP(m, bp) == bp + GET_SIZE(GET(m, HDRP(bp))) - DSIZE
NEXT_BLKP(m, bp) == bp + GET_SIZE(GET(m, bp - WSIZE))
PREV_BLKP(m, bp) == bp - GET_SIZE(GET(m, bp - DSIZE))

\* Mutant of put_tags: the footer is forgotten.
put_header(m, bp, size, alloc) == PUT(m, HDRP(bp), PACK(size, alloc))

\* The header of bp, then the footer that the new header locates.
put_tags(m, bp, size, alloc) ==
  LET h == PUT(m, HDRP(bp), PACK(size, alloc))
  IN  PUT(h, FTRP(h, bp), PACK(size, alloc))
-----------------------------------------------------------------------------
\* The free lists.

BucketAddr(k) == mem_heap_lo + k * WSIZE

\* Address of the smallest bucket whose bound reaches the size, or NULL.
find_bucket(words) ==
  IF \E k \in Buckets : IsBucketFor(k, words * WSIZE)
  THEN BucketAddr(CHOOSE k \in Buckets : IsBucketFor(k, words * WSIZE))
  ELSE NULL

\* Mutant of add_to_bucket: the list head is read after it has been set.
add_to_bucket_late(m, bp, bkt) ==
  LET m1 == PUT(PUT(m, bp + WSIZE, NULL), bkt, bp) IN PUT(m1, bp, GET(m1, bkt))

\* Push on the front of a list.
add_to_bucket(m, bp, bkt) ==
  LET first   == GET(m, bkt)
      cleared == PUT(PUT(m, bp, NULL), bp + WSIZE, NULL)
  IN  IF first = NULL
      THEN PUT(cleared, bkt, bp)
      ELSE PUT(PUT(PUT(cleared, first + WSIZE, bp), bp, first), bkt, bp)

add_to_seglist(m, bp) ==
  add_to_bucket(m, bp, find_bucket(GET_SIZE(GET(m, HDRP(bp))) \div WSIZE))

\* Mutant of remove_from_bucket: the successor keeps its link back.
remove_from_bucket_oneway(m, bp, bkt) ==
  IF GET(m, bkt) = bp
  THEN PUT(m, bkt, GET(m, bp))
  ELSE PUT(m, GET(m, bp + WSIZE), GET(m, bp))

\* Mutant of remove_from_bucket: removing the first block empties the list.
remove_from_bucket_all(m, bp, bkt) ==
  IF GET(m, bkt) = bp
  THEN PUT(m, bkt, NULL)
  ELSE PUT(m, GET(m, bp + WSIZE), GET(m, bp))

\* Unlink from a list.
remove_from_bucket(m, bp, bkt) ==
  IF GET(m, bkt) = bp
  THEN LET m1   == PUT(m, bkt, GET(m, bp))
           next == GET(m1, bp)
       IN  IF next # NULL THEN PUT(m1, next + WSIZE, NULL) ELSE m1
  ELSE LET prev == GET(m, bp + WSIZE)
           m1   == IF prev # NULL THEN PUT(m, prev, GET(m, bp)) ELSE m
           next == GET(m1, prev)
       IN  IF next # NULL THEN PUT(m1, next + WSIZE, prev) ELSE m1

remove_from_seglist(m, bp) ==
  remove_from_bucket(m, bp, find_bucket(GET_SIZE(GET(m, HDRP(bp))) \div WSIZE))
-----------------------------------------------------------------------------
\* Blocks.

\* Mutant of coalesce: neighbours are left alone.
coalesce_none(m, bp) == [mem |-> add_to_seglist(m, bp), bp |-> bp]

\* Merge the free, unlisted block bp with its free neighbours and list the
\* result.
coalesce(m, bp) ==
  LET prev_alloc == GET_ALLOC(GET(m, FTRP(m, PREV_BLKP(m, bp)))) = 1
      next_alloc == GET_ALLOC(GET(m, HDRP(NEXT_BLKP(m, bp)))) = 1
      size       == GET_SIZE(GET(m, HDRP(bp)))
      prev       == PREV_BLKP(m, bp)
      next       == NEXT_BLKP(m, bp)
      prev_size  == GET_SIZE(GET(m, HDRP(prev)))
  IN  CASE prev_alloc /\ next_alloc ->
             [mem |-> add_to_seglist(m, bp), bp |-> bp]
        [] prev_alloc /\ ~next_alloc ->
             LET sum == size + GET_SIZE(GET(m, HDRP(next)))
                 m1  == put_tags(remove_from_seglist(m, next), bp, sum, 0)
             IN  [mem |-> add_to_seglist(m1, bp), bp |-> bp]
        [] ~prev_alloc /\ next_alloc ->
             LET sum == size + prev_size
                 m1  == remove_from_seglist(m, prev)
                 m2  == PUT(m1, FTRP(m1, bp), PACK(sum, 0))
                 m3  == PUT(m2, HDRP(PREV_BLKP(m2, bp)), PACK(sum, 0))
                 bp2 == PREV_BLKP(m3, bp)
             IN  [mem |-> add_to_seglist(m3, bp2), bp |-> bp2]
        [] OTHER ->
             LET sum == size + prev_size + GET_SIZE(GET(m, FTRP(m, next)))
                 m1  == remove_from_seglist(remove_from_seglist(m, next), prev)
                 m2  == PUT(m1, HDRP(PREV_BLKP(m1, bp)), PACK(sum, 0))
                 m3  == PUT(m2, FTRP(m2, NEXT_BLKP(m2, bp)), PACK(sum, 0))
                 bp2 == PREV_BLKP(m3, bp)
             IN  [mem |-> add_to_seglist(m3, bp2), bp |-> bp2]

\* The blocks left of B once the area of block bp has become one block.
Retile(B, m, bp) == {b \in B : b <= bp \/ b >= NEXT_BLKP(m, bp)}

\* The bytes extend_heap asks mem_sbrk for: an even number of words.
extend_bytes(words) ==
  IF words % 2 = 1 THEN (words + 1) * WSIZE ELSE words * WSIZE

\* What extend_heap does once mem_sbrk has moved the break: a free block at
\* the old break, a new epilogue, and coalesce.
extend_heap(m, brk, words) ==
  LET size == extend_bytes(words)
      m1   == put_tags(m, brk, size, 0)
      m2   == PUT(m1, HDRP(NEXT_BLKP(m1, brk)), PACK(0, 1))
  IN  coalesce(m2, brk)

\* Take bp off its list and allocate size bytes of it, or all of it when the
\* rest would be too small.
place(m, bp, size) ==
  LET csize == GET_SIZE(GET(m, HDRP(bp)))
      m1    == remove_from_seglist(m, bp)
  IN  IF (csize - size) % SIZE_MOD >= 4 * DSIZE
      THEN LET m2   == put_tags(m1, bp, size, 1)
               rest == NEXT_BLKP(m2, bp)
               m3   == put_tags(m2, rest, (csize - size) % SIZE_MOD, 0)
           IN  add_to_seglist(m3, rest)
      ELSE put_tags(m1, bp, csize, 1)

\* The blocks of B after place(m, bp, size): a split adds one.
PlaceTile(B, m, bp, size) ==
  LET placed == place(m, bp, size)
  IN  IF NEXT_BLKP(placed, bp) < NEXT_BLKP(m, bp)
      THEN B \union {NEXT_BLKP(placed, bp)} ELSE B

free_block(m, ptr) ==
  LET bp == ptr - DSIZE
  IN  coalesce(put_tags(m, bp, GET_SIZE(GET(m, HDRP(bp))), 0), bp)

\* mm_init on an arena whose break is at its start: empty lists, prologue,
\* epilogue and a first free block.  mm_init returns -1 when that block does
\* not fit, and leaves the heap without it.
mm_init(m) ==
  LET lists == [a \in DOMAIN m |->
                  IF a < mem_start_brk + BUCKETS_COUNT * WSIZE THEN NULL ELSE m[a]]
      pro   == PUT(PUT(PUT(lists, FirstBlk - 4 * WSIZE, 0),
                       FirstBlk - 3 * WSIZE, PACK(DSIZE, 1)),
                   FirstBlk - 2 * WSIZE, PACK(DSIZE, 1))
      empty == PUT(pro, FirstBlk - WSIZE, PACK(0, 1))
  IN  IF sbrk_ok(FirstBlk, CHUNKSIZE)
      THEN [mem    |-> extend_heap(empty, FirstBlk, CHUNKSIZE \div WSIZE).mem,
            brk    |-> sbrk(FirstBlk, CHUNKSIZE),
            blocks |-> {FirstBlk}]
      ELSE [mem |-> empty, brk |-> FirstBlk, blocks |-> {}]
-----------------------------------------------------------------------------
\* What the caller does with memory.

\* memset(p, tag, size), in words.
Fill(m, p, size, tag) ==
  [a \in DOMAIN m |-> IF p <= a /\ a < p + size THEN tag ELSE m[a]]

\* memcpy(dst, src, n), in words.  Bytes past the arena hold anything; NULL
\* stands for that.
memcpy(m, dst, src, n) ==
  [a \in DOMAIN m |->
     IF dst <= a /\ a < dst + n
     THEN IF src + (a - dst) \in DOMAIN m THEN m[src + (a - dst)] ELSE NULL
     ELSE m[a]]

\* Mutant of CopyLen: the first word is copied.
CopyLen_word(m, ptr, size) == WSIZE

\* The number of bytes mm_realloc copies.
CopyLen(m, ptr, size) ==
  LET csize == GET_SIZE(GET(m, HDRP(ptr - DSIZE)))
  IN  IF size < csize THEN size ELSE csize

Hold(lv, p, what) ==
  [q \in DOMAIN lv \union {p} |-> IF q = p THEN what ELSE lv[q]]
Drop(lv, p) == [q \in DOMAIN lv \ {p} |-> lv[q]]
-----------------------------------------------------------------------------
NoReq == [ptr |-> NULL, size |-> 0, tag |-> 0]

Init ==
  /\ mem_brk = mem_start_brk
  /\ \E j \in Junk : mem = [a \in Arena |-> j]
  /\ heap_listp = NULL
  /\ pc = "idle"
  /\ req = NoReq /\ newsize = 0 /\ bucket = NULL /\ node = NULL
  /\ live = [p \in {} |-> 0]
  /\ blocks = {}
  /\ runs = 0

\* Mutant of EndCall: the locals of the call survive it.
EndCall_keep(to) == pc' = to /\ UNCHANGED <<req, newsize, bucket, node>>

\* The call being served returns, or ends the program.
EndCall(to) ==
  /\ pc' = to
  /\ req' = NoReq /\ newsize' = 0 /\ bucket' = NULL /\ node' = NULL

\* mdriver.c before each pass over a trace: mem_reset_brk(); mm_init().
reset ==
  /\ pc = "idle" /\ runs < MaxRuns
  /\ LET h == mm_init(mem)
     IN  mem' = h.mem /\ mem_brk' = h.brk /\ blocks' = h.blocks
  /\ heap_listp' = FirstBlk - 2 * WSIZE
  /\ live' = [p \in {} |-> 0]
  /\ runs' = runs + 1
  /\ UNCHANGED <<pc, req, newsize, bucket, node>>

\* mm_malloc up to the loops of find_fit, called by the program (ptr = NULL)
\* or by mm_realloc.  The search reads *find_bucket(...) first, so it faults
\* when there is no bucket.
malloc_entry(ptr, size, tag) ==
  LET h     == IF heap_listp = NULL
               THEN mm_init(mem)
               ELSE [mem |-> mem, brk |-> mem_brk, blocks |-> blocks]
      need  == ALIGN((size + OVERHEAD) % SIZE_MOD)
      start == find_bucket(need \div WSIZE)
  IN  /\ mem' = h.mem /\ mem_brk' = h.brk /\ blocks' = h.blocks
      /\ heap_listp' = IF heap_listp = NULL
                       THEN FirstBlk - 2 * WSIZE ELSE heap_listp
      /\ \/ size = 0 /\ EndCall("idle")
         \/ size # 0 /\ start = NULL /\ EndCall("crashed")
         \/ /\ size # 0 /\ start # NULL
            /\ pc' = "find_fit"
            /\ req' = [ptr |-> ptr, size |-> size, tag |-> tag]
            /\ newsize' = need
            /\ bucket' = start
            /\ node' = GET(h.mem, start)
      /\ UNCHANGED <<live, runs>>

mm_malloc(size, tag) == pc = "idle" /\ malloc_entry(NULL, size, tag)

\* One iteration of the inner loop of find_fit.
next_node ==
  /\ pc = "find_fit" /\ node # NULL
  /\ newsize > GET_SIZE(GET(mem, HDRP(node)))
  /\ node' = GET(mem, node)
  /\ UNCHANGED <<mem_brk, mem, heap_listp, pc, req, newsize, bucket, live,
                 blocks, runs>>

\* Mutant of next_bucket: the pointer is advanced by two words.
next_bucket_skip ==
  /\ pc = "find_fit" /\ node = NULL
  /\ bucket < BucketAddr(BUCKETS_COUNT)
  /\ bucket' = bucket + DSIZE
  /\ node' = IF bucket' < BucketAddr(BUCKETS_COUNT) THEN GET(mem, bucket') ELSE NULL
  /\ UNCHANGED <<mem_brk, mem, heap_listp, pc, req, newsize, live, blocks,
                 runs>>

\* One iteration of the outer loop; past the last list there is no node.
next_bucket ==
  /\ pc = "find_fit" /\ node = NULL
  /\ bucket < BucketAddr(BUCKETS_COUNT)
  /\ bucket' = bucket + WSIZE
  /\ node' = IF bucket' < BucketAddr(BUCKETS_COUNT) THEN GET(mem, bucket') ELSE NULL
  /\ UNCHANGED <<mem_brk, mem, heap_listp, pc, req, newsize, live, blocks,
                 runs>>

\* mm_malloc from the free block bp on.  A call by the program returns its
\* payload, which the program fills; mm_realloc goes on to copy and to free
\* the old block.
deliver(m, B, bp) ==
  LET m1 == place(m, bp, newsize)
      B1 == PlaceTile(B, m, bp, newsize)
      p  == bp + DSIZE
  IN  IF req.ptr = NULL
      THEN /\ mem' = Fill(m1, p, req.size, req.tag)
           /\ blocks' = B1
           /\ live' = Hold(live, p, [size |-> req.size, kept |-> req.size,
                                     tag |-> req.tag])
      ELSE LET old == live[req.ptr]
               m2  == memcpy(m1, p, req.ptr, CopyLen(m1, req.ptr, req.size))
               fr  == free_block(m2, req.ptr)
           IN  /\ mem' = fr.mem
               /\ blocks' = Retile(B1, fr.mem, fr.bp)
               /\ live' = Hold(Drop(live, req.ptr), p,
                              [size |-> req.size,
                               kept |-> IF req.size < old.kept
                                        THEN req.size ELSE old.kept,
                               tag  |-> old.tag])

fit ==
  /\ pc = "find_fit" /\ node # NULL
  /\ newsize <= GET_SIZE(GET(mem, HDRP(node)))
  /\ deliver(mem, blocks, node)
  /\ EndCall("idle")
  /\ UNCHANGED <<mem_brk, heap_listp, runs>>

\* No list has a fit: extend the heap.  When that fails mm_malloc returns
\* NULL, and mm_realloc copies to that address.
no_fit ==
  /\ pc = "find_fit" /\ node = NULL /\ bucket >= BucketAddr(BUCKETS_COUNT)
  /\ LET words == (IF newsize > CHUNKSIZE THEN newsize ELSE CHUNKSIZE) \div WSIZE
     IN  IF sbrk_ok(mem_brk, extend_bytes(words))
         THEN LET ext == extend_heap(mem, mem_brk, words)
              IN  /\ mem_brk' = sbrk(mem_brk, extend_bytes(words))
                  /\ deliver(ext.mem,
                             Retile(blocks \union {mem_brk}, ext.mem, ext.bp),
                             ext.bp)
                  /\ EndCall("idle")
         ELSE /\ EndCall(IF req.ptr = NULL THEN "idle" ELSE "crashed")
              /\ UNCHANGED <<mem_brk, mem, live, blocks>>
  /\ UNCHANGED <<heap_listp, runs>>

search_step == next_node \/ next_bucket
find_fit == search_step \/ fit \/ no_fit

mm_free(ptr) ==
  /\ pc = "idle"
  /\ LET fr == free_block(mem, ptr)
     IN  mem' = fr.mem /\ blocks' = Retile(blocks, fr.mem, fr.bp)
  /\ live' = Drop(live, ptr)
  /\ UNCHANGED <<mem_brk, heap_listp, pc, req, newsize, bucket, node, runs>>

mm_realloc(ptr, size, tag) ==
  \/ ptr = NULL /\ mm_malloc(size, tag)
  \/ ptr # NULL /\ size = 0 /\ mm_free(ptr)
  \/ ptr # NULL /\ size # 0 /\ pc = "idle" /\ malloc_entry(ptr, size, 0)

Next ==
  \/ reset
  \/ \E size \in Sizes, tag \in Tags : mm_malloc(size, tag)
  \/ find_fit
  \/ \E ptr \in DOMAIN live : mm_free(ptr)
  \/ \E ptr \in DOMAIN live \union {NULL}, size \in Sizes, tag \in Tags :
       mm_realloc(ptr, size, tag)

\* Fairness: the loops of find_fit run on; nothing suspends them.
Spec == Init /\ [][Next]_vars /\ WF_vars(search_step)
-----------------------------------------------------------------------------
\* Properties.

\* Type invariant: every word of the arena holds a natural number, and the
\* local variables of a call are cleared when no call is being served.
TypeOK ==
  /\ mem_brk \in mem_start_brk .. mem_max_addr
  /\ mem \in [Arena -> Nat]
  /\ heap_listp \in {NULL, FirstBlk - 2 * WSIZE}
  /\ pc \in {"idle", "find_fit", "crashed"}
  /\ req \in [ptr : Nat, size : Sizes \union {0}, tag : Tags \union {0}]
  /\ newsize \in Nat /\ bucket \in Nat /\ node \in Nat
  /\ live \in [DOMAIN live -> [size : Sizes, kept : Nat, tag : Tags]]
  /\ DOMAIN live \subseteq Arena
  /\ blocks \subseteq Arena
  /\ runs \in 0 .. MaxRuns
  /\ pc # "find_fit" => req = NoReq /\ newsize = 0 /\ bucket = NULL /\ node = NULL

SizeAt(m, b) == GET_SIZE(GET(m, HDRP(b)))
IsFree(m, b) == GET_ALLOC(GET(m, HDRP(b))) = 0
FreeBlocks(m, B) == {b \in B : IsFree(m, b)}
BucketOf(m, b) == find_bucket(SizeAt(m, b) \div WSIZE)

\* The boundary tags of m cut FirstBlk .. brk into the blocks B.
Tiled(m, B, brk) ==
  /\ FirstBlk \in B \union {brk}
  /\ \A b \in B :
       /\ FirstBlk <= b /\ b < brk
       /\ b % DSIZE = 0
       /\ SizeAt(m, b) >= 4 * DSIZE
       /\ GET(m, HDRP(b)) \in {PACK(SizeAt(m, b), 0), PACK(SizeAt(m, b), 1)}
       /\ GET(m, FTRP(m, b)) = GET(m, HDRP(b))
       /\ NEXT_BLKP(m, b) \in B \union {brk}
       /\ NEXT_BLKP(m, b) <= brk
  /\ \A b, c \in B : b < c => NEXT_BLKP(m, b) <= c
  /\ \A b \in B \union {brk} :
       b # FirstBlk => /\ PREV_BLKP(m, b) \in B
                       /\ NEXT_BLKP(m, PREV_BLKP(m, b)) = b
  /\ GET(m, brk - WSIZE) = PACK(0, 1)
  /\ GET(m, FirstBlk - 3 * WSIZE) = PACK(DSIZE, 1)
  /\ GET(m, FirstBlk - 2 * WSIZE) = PACK(DSIZE, 1)

\* The lists hold exactly the blocks of F, each in its own bucket, linked
\* both ways.
Linked(m, F) ==
  /\ \A k \in Buckets :
       LET first == GET(m, BucketAddr(k))
       IN  first # NULL => /\ first \in F
                           /\ BucketOf(m, first) = BucketAddr(k)
                           /\ GET(m, first + WSIZE) = NULL
  /\ \A b \in F :
       LET next == GET(m, b)
           prev == GET(m, b + WSIZE)
       IN  /\ next # NULL => /\ next \in F
                             /\ BucketOf(m, next) = BucketOf(m, b)
                             /\ GET(m, next + WSIZE) = b
           /\ prev # NULL => /\ prev \in F
                             /\ BucketOf(m, prev) = BucketOf(m, b)
                             /\ GET(m, prev) = b
           /\ prev = NULL => GET(m, BucketOf(m, b)) = b

\* After every call the boundary tags describe one tiling of the heap: every
\* header equals its footer, blocks neither overlap nor leave gaps, and the
\* prologue and epilogue stand.  coalesce, place and extend_heap each leave
\* it broken half way.
HeapTiled == heap_listp # NULL => Tiled(mem, blocks, mem_brk)

\* The free blocks are exactly the blocks on the lists, and each is on the
\* list its size selects, linked both ways: what remove_from_bucket, which
\* never searches, relies on.
SeglistLinked == heap_listp # NULL => Linked(mem, FreeBlocks(mem, blocks))

\* No two neighbouring blocks are free: coalesce misses no merge, whatever
\* the order of calls, also across extend_heap and place.
Coalesced ==
  \A b \in blocks :
    IsFree(mem, b) => NEXT_BLKP(mem, b) \notin FreeBlocks(mem, blocks)

\* An allocated block is one the caller holds, and is large enough for it:
\* no call loses a block or hands out a short one.
HeldBlocks ==
  /\ {p - DSIZE : p \in DOMAIN live} = blocks \ FreeBlocks(mem, blocks)
  /\ \A p \in DOMAIN live : live[p].size + 4 * WSIZE <= SizeAt(mem, p - DSIZE)

\* What add_range of mdriver.c checks of each payload: it is aligned, it lies
\* in the heap and it overlaps no other.
PayloadsSafe ==
  /\ \A p \in DOMAIN live :
       /\ p % ALIGNMENT = 0
       /\ mem_heap_lo <= p /\ p + live[p].size - 1 <= mem_heap_hi
  /\ \A p, q \in DOMAIN live : p < q => p + live[p].size <= q

\* A payload keeps the bytes its holder wrote, while other blocks come, go,
\* split and merge around it and when mm_realloc moves it.
PayloadIntact ==
  \A p \in DOMAIN live : \A a \in Arena :
    p <= a /\ a < p + live[p].kept => mem[a] = live[p].tag

\* The heap grows only when no free block would have served the request:
\* the search that starts at find_bucket's bucket misses none.
GrowsOnlyWhenFull ==
  [][pc = "find_fit" /\ mem_brk' # mem_brk =>
       \A b \in FreeBlocks(mem, blocks) : SizeAt(mem, b) < newsize]_vars

\* Every search ends, at a block that fits or past the last list: no list
\* has become a cycle.
SearchEnds ==
  pc = "find_fit" ~> \/ pc # "find_fit"
                     \/ node # NULL /\ newsize <= GET_SIZE(GET(mem, HDRP(node)))
                     \/ node = NULL /\ bucket >= BucketAddr(BUCKETS_COUNT)
=============================================================================
