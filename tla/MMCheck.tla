------------------------------- MODULE MMCheck -------------------------------
(***************************************************************************)
(* mm_check, the heap consistency checker of mm.c, run on every heap that  *)
(* the allocator produces, and the walk along the free lists that its      *)
(* second section starts.                                                  *)
(***************************************************************************)
EXTENDS MM

\* At most this many blocks fit in the arena: none has less than 4 * DSIZE
\* bytes.  A walk of more steps has met one twice and does not end.
MaxBlocks == MAX_HEAP \div (4 * DSIZE)

\* Where section 1 goes from bp: it stops past the break, and at a block
\* whose tags differ.
next_block(m, brk, bp) ==
  IF bp > brk - 1 \/ GET(m, HDRP(bp)) # GET(m, FTRP(m, bp)) THEN bp ELSE NEXT_BLKP(m, bp)

\* The block it stands on after i iterations.
BlockAt(m, brk) ==
  LET at[i \in Nat] == IF i = 0 THEN NEXT_BLKP(m, heap_listp)
                       ELSE next_block(m, brk, at[i - 1])
  IN  at

Walked(m, brk) == {BlockAt(m, brk)[i] : i \in 0 .. MaxBlocks}

\* Section 1: the boundary tags agree from the first block to the break.
headers_match(m, brk) == \E bp \in Walked(m, brk) : bp > brk - 1

\* Section 2.  The body of its if has no braces, so "return 0" is the second
\* statement of the inner loop and the first listed block ends the check.
lists_pass(m) == \A k \in Buckets : GET(m, BucketAddr(k)) = NULL

\* Section 3, the same walk: no free block is followed by a free block.
none_escaped(m, brk) ==
  \A bp \in Walked(m, brk) :
    bp <= brk - 1 => ~(/\ GET_ALLOC(GET(m, HDRP(bp))) = 0
                       /\ GET_ALLOC(GET(m, HDRP(NEXT_BLKP(m, bp)))) = 0)

mm_check ==
  headers_match(mem, mem_brk) /\ lists_pass(mem) /\ none_escaped(mem, mem_brk)

next_on_list(m, bp) == IF bp = NULL THEN NULL ELSE GET(m, bp)

\* The block that a walk along the list of bucket k stands on after i steps.
NodeAt(m, k) ==
  LET at[i \in Nat] == IF i = 0 THEN GET(m, BucketAddr(k)) ELSE next_on_list(m, at[i - 1])
  IN  at

\* The blocks on the way.
OnList(m, k) == {NodeAt(m, k)[i] : i \in 0 .. MaxBlocks} \ {NULL}
-----------------------------------------------------------------------------
\* Every free block can be found: the walk of find_fit along the list of a
\* bucket meets all the free blocks of its sizes, meets nothing else, and
\* comes to an end.  Links that agree block by block could still form a ring
\* that no list head leads to.
ListsReachable ==
  heap_listp # NULL =>
    \A k \in Buckets :
      /\ OnList(mem, k) =
           {b \in FreeBlocks(mem, blocks) : BucketOf(mem, b) = BucketAddr(k)}
      /\ NodeAt(mem, k)[MaxBlocks] = NULL

\* Sections 1 and 3 of mm_check raise no false alarm: between calls they
\* pass on every heap, so the result is decided by section 2, which rejects
\* the heaps that have a free block.
CheckResult ==
  heap_listp # NULL =>
    /\ headers_match(mem, mem_brk) /\ none_escaped(mem, mem_brk)
    /\ mm_check <=> FreeBlocks(mem, blocks) = {}

\* mm_check accepts a consistent heap: its last line is "return 1; // heap is
\* consistent".
CheckAccepts ==
  heap_listp # NULL /\ HeapTiled /\ SeglistLinked /\ Coalesced => mm_check
=============================================================================
