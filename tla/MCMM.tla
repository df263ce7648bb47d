-------------------------------- MODULE MCMM --------------------------------
EXTENDS MMInv, MMCheck

\* The words that mean something: list heads, boundary tags, the links of
\* free blocks and the bytes that callers rely on.
Meaningful ==
  {a \in Arena : a < FirstBlk - WSIZE}
    \union {mem_brk - WSIZE}
    \union {HDRP(b) : b \in blocks}
    \union {FTRP(mem, b) : b \in blocks}
    \union UNION {{b, b + WSIZE} : b \in FreeBlocks(mem, blocks)}
    \union UNION {{a \in Arena : p <= a /\ a < p + live[p].kept} : p \in DOMAIN live}

\* TLC evaluates the heap, an expression after Fill or memcpy, when it
\* compares it: the first component has it do so before it stores a state.
View == <<mem = mem, [a \in Meaningful \intersect Arena |-> mem[a]], mem_brk, heap_listp, pc, req,
          newsize, bucket, node, live, blocks, runs>>
=============================================================================
