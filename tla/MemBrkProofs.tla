---------------------------- MODULE MemBrkProofs ----------------------------
(***************************************************************************)
(* Proofs about memlib.c, for every arena and every set of increments that *)
(* cannot wrap around the end of the address space.                        *)
(***************************************************************************)
EXTENDS MemBrk, TLAPS

\* What one successful call of mem_sbrk does to a break in the arena.
LEMMA SbrkStep ==
  ASSUME NoWrap, NEW brk \in mem_start_brk .. mem_max_addr, NEW incr \in Incrs,
         sbrk_ok(brk, incr)
  PROVE  /\ sbrk(brk, incr) = brk + ToInt(incr)
         /\ ToInt(incr) \in Nat
         /\ sbrk(brk, incr) \in mem_start_brk .. mem_max_addr
<1>1. ToInt(incr) \in Int /\ ToInt(incr) + mem_max_addr < SIZE_MOD
  BY ArenaAssumption, IncrsAssumption DEF NoWrap, ToInt, mem_max_addr
<1>2. ToInt(incr) \in Nat
  BY <1>1 DEF sbrk_ok
<1>3. 0 <= brk + ToInt(incr) /\ brk + ToInt(incr) < SIZE_MOD
  BY <1>1, <1>2, ArenaAssumption DEF mem_max_addr
<1>4. (brk + ToInt(incr)) % SIZE_MOD = brk + ToInt(incr)
  BY <1>2, <1>3, ArenaAssumption DEF mem_max_addr
<1> QED
  BY <1>1, <1>2, <1>4, ArenaAssumption DEF sbrk_ok, sbrk, mem_max_addr

\* Type correctness: mem_sbrk never records an area of negative size.
THEOREM BrkTypeOK ==
  ASSUME NoWrap
  PROVE  Spec => [](TypeOK /\ BrkInArena)
<1> DEFINE Inv == TypeOK /\ BrkInArena
<1>1. Init => Inv
  BY ArenaAssumption DEF Init, TypeOK, BrkInArena, mem_max_addr
<1>2. Inv /\ [Next]_vars => Inv'
  <2> SUFFICES ASSUME Inv, [Next]_vars PROVE Inv'
    OBVIOUS
  <2>1. CASE mem_reset_brk
    BY <2>1, ArenaAssumption DEF mem_reset_brk, TypeOK, BrkInArena, mem_max_addr
  <2>2. ASSUME NEW incr \in Incrs, mem_sbrk(incr) PROVE Inv'
    <3>1. CASE ~sbrk_ok(mem_brk, incr)
      BY <2>2, <3>1 DEF mem_sbrk, vars, TypeOK, BrkInArena
    <3>2. CASE sbrk_ok(mem_brk, incr)
      <4>1. /\ mem_brk' = sbrk(mem_brk, incr)
            /\ areas' = Append(areas, [lo |-> mem_brk, size |-> ToInt(incr)])
        BY <2>2, <3>2 DEF mem_sbrk
      <4>2. mem_brk' \in mem_start_brk .. mem_max_addr /\ ToInt(incr) \in Nat
        BY <4>1, <3>2, SbrkStep DEF BrkInArena
      <4>3. [lo |-> mem_brk, size |-> ToInt(incr)] \in [lo : Nat, size : Nat]
        BY <4>2 DEF TypeOK
      <4> QED
        BY <4>1, <4>2, <4>3, ArenaAssumption DEF TypeOK, BrkInArena, mem_max_addr
    <3> QED
      BY <3>1, <3>2
  <2>3. CASE UNCHANGED vars
    BY <2>3 DEF vars, TypeOK, BrkInArena
  <2> QED
    BY <2>1, <2>2, <2>3 DEF Next
<1> QED
  BY <1>1, <1>2, PTL DEF Spec

\* The break never leaves the arena, whatever sequence of mem_sbrk and
\* mem_reset_brk calls is made.
THEOREM BrkStaysInArena ==
  ASSUME NoWrap
  PROVE  Spec => []BrkInArena
BY BrkTypeOK, PTL

\* The areas handed out tile the heap from its start to the break.
THEOREM AreasAlwaysTile ==
  ASSUME NoWrap
  PROVE  Spec => []AreasTile
<1>1. Init => AreasTile
  BY ArenaAssumption DEF Init, AreasTile, mem_heapsize, mem_heap_hi
<1>2. TypeOK /\ BrkInArena /\ AreasTile /\ [Next]_vars => AreasTile'
  <2> SUFFICES ASSUME TypeOK, BrkInArena, AreasTile, [Next]_vars PROVE AreasTile'
    OBVIOUS
  <2>1. CASE mem_reset_brk
    BY <2>1, ArenaAssumption DEF mem_reset_brk, AreasTile, mem_heapsize, mem_heap_hi
  <2>2. ASSUME NEW incr \in Incrs, mem_sbrk(incr) PROVE AreasTile'
    <3>1. CASE ~sbrk_ok(mem_brk, incr)
      BY <2>2, <3>1 DEF mem_sbrk, vars, AreasTile, mem_heapsize, mem_heap_hi
    <3>2. CASE sbrk_ok(mem_brk, incr)
      <4> DEFINE n == Len(areas)
      <4>1. /\ mem_brk' = mem_brk + ToInt(incr)
            /\ ToInt(incr) \in Nat
            /\ areas' = Append(areas, [lo |-> mem_brk, size |-> ToInt(incr)])
        BY <2>2, <3>2, SbrkStep DEF mem_sbrk, BrkInArena
      <4>2. n \in Nat /\ Len(areas') = n + 1
        BY <4>1 DEF TypeOK
      <4>3. /\ \A j \in 1 .. n : areas'[j] = areas[j]
            /\ areas'[n + 1].lo = mem_brk
            /\ areas'[n + 1].size = ToInt(incr)
        BY <4>1, <4>2 DEF TypeOK
      <4>4. mem_brk \in Nat /\ mem_heap_hi + 1 = mem_brk
        BY DEF TypeOK, mem_heap_hi
      <4>5. mem_heap_hi' + 1 = mem_brk + ToInt(incr)
        BY <4>1, <4>4 DEF mem_heap_hi
      <4>6. ASSUME NEW j \in 1 .. Len(areas')
            PROVE  areas'[j].lo + areas'[j].size =
                     IF j < Len(areas') THEN areas'[j + 1].lo ELSE mem_heap_hi' + 1
        <5>1. CASE j = n + 1
          BY <5>1, <4>2, <4>3, <4>5
        <5>2. CASE j = n /\ n > 0
          BY <5>2, <4>2, <4>3, <4>4 DEF AreasTile
        <5>3. CASE j < n
          BY <5>3, <4>2, <4>3 DEF AreasTile
        <5> QED
          BY <5>1, <5>2, <5>3, <4>2
      <4>7. areas'[1].lo = mem_heap_lo
        <5>1. CASE n = 0
          <6>1. areas = << >>
            BY <5>1 DEF TypeOK
          <6>2. mem_brk = mem_start_brk
            BY <6>1, <4>4, ArenaAssumption DEF AreasTile, mem_heapsize
          <6> QED
            BY <6>2, <5>1, <4>3 DEF mem_heap_lo
        <5>2. CASE n > 0
          <6>1. areas # << >>
            BY <5>2
          <6> QED
            BY <6>1, <5>2, <4>2, <4>3 DEF AreasTile, mem_heap_lo
        <5> QED
          BY <5>1, <5>2, <4>2
      <4>8. areas' # << >>
        BY <4>2
      <4> QED
        BY <4>6, <4>7, <4>8 DEF AreasTile, mem_heap_lo
    <3> QED
      BY <3>1, <3>2
  <2>3. CASE UNCHANGED vars
    BY <2>3 DEF vars, AreasTile, mem_heapsize, mem_heap_hi
  <2> QED
    BY <2>1, <2>2, <2>3 DEF Next
<1> QED
  BY <1>1, <1>2, BrkTypeOK, PTL DEF Spec
=============================================================================
