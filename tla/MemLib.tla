------------------------------- MODULE MemLib -------------------------------
(***************************************************************************)
(* memlib.c: the simulated memory system.  An arena of MAX_HEAP bytes is   *)
(* obtained once, by mem_init, and a break pointer moves up through it.    *)
(* Pointers and size_t are machine words: arithmetic on them is modulo     *)
(* SIZE_MOD (2^32 in the -m32 build), and the argument of mem_sbrk is the  *)
(* signed word with the same bits.                                         *)
(***************************************************************************)
EXTENDS Integers

CONSTANTS
  SIZE_MOD,       \* number of values of a machine word
  MAX_HEAP,       \* bytes in the arena (config.h)
  mem_start_brk   \* first byte of the arena, as the C library's malloc gave it

(***************************************************************************)
(* The arena is an object of the C program: it is aligned, it does not     *)
(* contain address 0 and it does not extend past the last address.         *)
(***************************************************************************)
ASSUME ArenaAssumption ==
  /\ SIZE_MOD \in Nat /\ MAX_HEAP \in Nat /\ mem_start_brk \in Nat
  /\ SIZE_MOD % 16 = 0
  /\ MAX_HEAP % 8 = 0
  /\ mem_start_brk % 8 = 0
  /\ mem_start_brk > 0
  /\ mem_start_brk + MAX_HEAP < SIZE_MOD

VARIABLE mem_brk  \* first byte past the heap

mem_max_addr == mem_start_brk + MAX_HEAP

\* The int that the size_t argument of a call of mem_sbrk is converted to.
ToInt(size) == IF size < SIZE_MOD \div 2 THEN size ELSE size - SIZE_MOD

\* Mutant of sbrk_ok: the end of the arena is not looked at.
sbrk_ok_unbounded(brk, size) == ToInt(size) >= 0

\* Mutant of sbrk_ok: a negative increment passes.
sbrk_ok_signed(brk, size) == (brk + ToInt(size)) % SIZE_MOD <= mem_max_addr

\* The test mem_sbrk makes before it moves the break.
sbrk_ok(brk, size) ==
  /\ ToInt(size) >= 0
  /\ (brk + ToInt(size)) % SIZE_MOD <= mem_max_addr

\* Mutant of sbrk: the break is not moved.
sbrk_unmoved(brk, size) == brk

\* The break after a call of mem_sbrk that passed the test.
sbrk(brk, size) == (brk + ToInt(size)) % SIZE_MOD

mem_heap_lo == mem_start_brk
mem_heap_hi == mem_brk - 1
mem_heapsize == mem_brk - mem_start_brk
=============================================================================
