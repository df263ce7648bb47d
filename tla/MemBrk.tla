------------------------------- MODULE MemBrk -------------------------------
(***************************************************************************)
(* memlib.c as its callers see it: mem_sbrk hands out one area of the      *)
(* arena after the other, mem_reset_brk takes them all back.               *)
(***************************************************************************)
EXTENDS MemLib, Sequences

CONSTANTS
  Incrs,      \* the arguments of mem_sbrk, as words
  MaxAreas    \* bound: areas handed out between two resets

ASSUME IncrsAssumption ==
  Incrs \subseteq 0 .. (SIZE_MOD - 1) /\ MaxAreas \in Nat

\* No argument moves the break past the last address of the machine.  It is
\* what the test of mem_sbrk takes for granted.
NoWrap == \A incr \in Incrs : ToInt(incr) + mem_max_addr < SIZE_MOD

VARIABLE areas  \* the areas handed out since the last reset, in order

vars == <<mem_brk, areas>>

Init == mem_brk = mem_start_brk /\ areas = << >>

\* Mutant of mem_reset_brk: the break stays where it is.
mem_reset_brk_not == areas' = << >> /\ UNCHANGED mem_brk

mem_reset_brk == mem_brk' = mem_start_brk /\ areas' = << >>

\* A failed call reports ENOMEM and returns (void *)-1.
mem_sbrk(incr) ==
  \/ /\ sbrk_ok(mem_brk, incr) /\ Len(areas) < MaxAreas
     /\ mem_brk' = sbrk(mem_brk, incr)
     /\ areas' = Append(areas, [lo |-> mem_brk, size |-> ToInt(incr)])
  \/ ~sbrk_ok(mem_brk, incr) /\ UNCHANGED vars

Next == mem_reset_brk \/ \E incr \in Incrs : mem_sbrk(incr)

Spec == Init /\ [][Next]_vars
-----------------------------------------------------------------------------
\* Type invariant.
TypeOK ==
  /\ mem_brk \in Nat
  /\ areas \in Seq([lo : Nat, size : Nat])

\* The break stays in the arena: no sequence of calls moves it past "the
\* largest legal heap address" or below the first.
BrkInArena == mem_brk \in mem_start_brk .. mem_max_addr

\* The areas handed out follow each other without overlap from the start of
\* the arena to the break, so mem_heap_lo, mem_heap_hi and mem_heapsize
\* describe their union.
AreasTile ==
  /\ \A i \in 1 .. Len(areas) :
       areas[i].lo + areas[i].size =
         IF i < Len(areas) THEN areas[i + 1].lo ELSE mem_heap_hi + 1
  /\ areas # << >> => areas[1].lo = mem_heap_lo
  /\ areas = << >> => mem_heapsize = 0
=============================================================================
