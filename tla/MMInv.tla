-------------------------------- MODULE MMInv --------------------------------
(***************************************************************************)
(* mm.c serving ordinary requests: the assumption on sizes, the abstract   *)
(* specification that MM implements, and the inductive invariant.          *)
(***************************************************************************)
EXTENDS MM

(***************************************************************************)
(* No request is so large that its size, or the address of the break after *)
(* growing by it, wraps around a word.                                     *)
(***************************************************************************)
ASSUME OrdinarySizes ==
  /\ mem_max_addr + CHUNKSIZE < SIZE_MOD
  /\ \A size \in Sizes : mem_max_addr + size + OVERHEAD + ALIGNMENT < SIZE_MOD

\* The values in the bytes that the holder of payload p relies on.
DataAt(m, p, kept) == {m[a] : a \in {x \in Arena : p <= x /\ x < p + kept}}

\* The caller's view of the heap.
HeldView ==
  [p \in DOMAIN live |-> [size |-> live[p].size, kept |-> live[p].kept,
                          data |-> DataAt(mem, p, live[p].kept)]]

Abstract == INSTANCE Allocator
              WITH held <- HeldView, Lo <- mem_start_brk, Hi <- mem_max_addr,
                   Align <- ALIGNMENT

\* mm.c implements Allocator: every call has a permitted effect on all the
\* payloads at once, and the iterations of find_fit have none.
ImplementsAllocator == Abstract!Spec
-----------------------------------------------------------------------------
\* Before mm_init has run nothing is in use.
Untouched ==
  heap_listp = NULL =>
    mem_brk = mem_start_brk /\ blocks = {} /\ DOMAIN live = {} /\ pc = "idle"

\* What the loops of find_fit rely on: they stand on a list head and on a
\* listed block, and the request they serve is still good.
Searching ==
  pc = "find_fit" =>
    /\ heap_listp # NULL
    /\ node \in FreeBlocks(mem, blocks) \union {NULL}
    /\ bucket \in {BucketAddr(k) : k \in 0 .. BUCKETS_COUNT}
    /\ node # NULL => bucket = BucketOf(mem, node)
    /\ req.size \in Sizes /\ newsize = ALIGN(req.size + OVERHEAD)
    /\ req.ptr \in DOMAIN live \union {NULL}
    /\ req.ptr = NULL => req.tag \in Tags

\* Every set of blocks has one that is the first of its list or comes after a
\* block outside of the set: from any block the links back lead to a list head.
Anchored(m, F) ==
  \A S \in SUBSET F : S # {} => \E b \in S : GET(m, b + WSIZE) \notin S

\* The free lists hold no ring of blocks that no list head leads to, which
\* links that agree block by block do not exclude.
NoRings == heap_listp # NULL => Anchored(mem, FreeBlocks(mem, blocks))

\* The blocks that find_fit has been past, P, are too small: all those of the
\* lists before its own, and those between the head of its list and node.
Passed ==
  pc = "find_fit" =>
    \E P \in SUBSET {b \in FreeBlocks(mem, blocks) : BucketOf(mem, b) <= bucket} :
      /\ \A b \in P : SizeAt(mem, b) < newsize
      /\ \A b \in FreeBlocks(mem, blocks) : BucketOf(mem, b) < bucket => b \in P
      /\ bucket < BucketAddr(BUCKETS_COUNT) => GET(mem, bucket) \in P \union {node}
      /\ \A b \in P : BucketOf(mem, b) = bucket => GET(mem, b) \in P \union {node}

\* The inductive invariant behind every safety property of MM: no part of
\* it survives a call without the others.  coalesce finds the neighbours of
\* a block by the tags, unlinks them by their links and relies on no two of
\* them being free already.
IInv ==
  /\ TypeOK
  /\ Untouched
  /\ HeapTiled
  /\ SeglistLinked /\ NoRings
  /\ Coalesced
  /\ HeldBlocks
  /\ Searching /\ Passed
  /\ \A p \in DOMAIN live : live[p].kept <= live[p].size
  /\ PayloadIntact
=============================================================================
