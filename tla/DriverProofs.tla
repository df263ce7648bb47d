---------------------------- MODULE DriverProofs ----------------------------
(***************************************************************************)
(* Driver's invariants, for every set of traces, heap size and alignment:  *)
(* what holds whatever the package answers.                                *)
(***************************************************************************)
EXTENDS DriverInv, FiniteSetTheorems, SequenceTheorems, TLAPS

\* Every nonempty set of natural numbers has a least element.
LEMMA Least ==
  ASSUME NEW T, T \subseteq Nat, T # {}
  PROVE  \E x \in T : \A y \in T : x <= y
<1> DEFINE R == {ss \in Nat \X Nat : ss[1] < ss[2]}
<1>1. IsWellFoundedOn(R, Nat)
  BY NatLessThanWellFounded DEF OpToRel
<1> HIDE DEF R
<1>2. PICK x \in T : \A y \in T : ~(<<y, x>> \in R)
  BY <1>1, WFMin
<1>3. \A y \in T : ~(y < x)
  BY <1>2 DEF R
<1> QED
  BY <1>3
LEMMA SizesPositive == Sizes \subseteq Nat \ {0}
BY DriverAssumption

-----------------------------------------------------------------------------
\* The list of ranges.

\* A new range is put in front of the others.
LEMMA AddRange ==
  ASSUME NEW rs \in Seq(Extent), NEW lo \in Nat, NEW size \in Nat \ {0},
         NEW new, new = add_range(rs, lo, size)
  PROVE  /\ new \in Seq(Extent) /\ Len(new) = Len(rs) + 1
         /\ new[1] = [lo |-> lo, hi |-> lo + size - 1]
         /\ \A k \in 1 .. Len(rs) : new[k + 1] = rs[k]
<1> DEFINE r == [lo |-> lo, hi |-> lo + size - 1]
<1>1. r \in Extent
  BY DEF Extent
<1> HIDE DEF r
<1>2. <<r>> \in Seq(Extent) /\ Len(<<r>>) = 1 /\ <<r>>[1] = r
  BY <1>1
<1>3. new = <<r>> \o rs
  BY DEF add_range, r
<1>4. Len(rs) \in Nat
  BY LenProperties
<1> QED
  BY <1>2, <1>3, <1>4, ConcatProperties DEF r

\* remove_range takes out the first range that starts at lo, if there is one,
\* and keeps the order of the others.
LEMMA RemoveRange ==
  ASSUME NEW rs \in Seq(Extent), NEW lo, NEW rest, rest = remove_range(rs, lo)
  PROVE  /\ rest \in Seq(Extent)
         /\ \/ rest = rs /\ \A k \in DOMAIN rs : rs[k].lo # lo
            \/ \E k \in DOMAIN rs :
                 /\ rs[k].lo = lo
                 /\ Len(rest) = Len(rs) - 1
                 /\ \A j \in 1 .. Len(rest) : rest[j] = rs[IF j < k THEN j ELSE j + 1]
<1> DEFINE Starts == {k \in DOMAIN rs : rs[k].lo = lo}
           IsFirst(k) == k \in DOMAIN rs /\ rs[k].lo = lo
                         /\ \A j \in 1 .. (k - 1) : rs[j].lo # lo
<1>0. DOMAIN rs = 1 .. Len(rs) /\ Len(rs) \in Nat
  BY LenProperties
<1>1. CASE Starts = {}
  BY <1>1 DEF remove_range
<1>2. CASE Starts # {}
  <2>1. PICK first \in Starts : \A y \in Starts : first <= y
    <3>1. Starts \subseteq Nat
      BY <1>0
    <3> HIDE DEF Starts
    <3> QED
      BY <3>1, <1>2, Least
  <2>2. IsFirst(first)
    BY <1>0, <2>1
  <2> DEFINE k == CHOOSE k \in DOMAIN rs :
                    rs[k].lo = lo /\ \A j \in 1 .. (k - 1) : rs[j].lo # lo
  <2>3. IsFirst(k)
    BY <2>2
  <2>4. rest = SubSeq(rs, 1, k - 1) \o SubSeq(rs, k + 1, Len(rs))
    BY <1>2 DEF remove_range
  <2> HIDE DEF k, Starts
  <2>5. k \in 1 .. Len(rs)
    BY <1>0, <2>3
  <2> DEFINE a == SubSeq(rs, 1, k - 1)
             b == SubSeq(rs, k + 1, Len(rs))
  <2>6. \A j \in 1 .. Len(rs) : rs[j] \in Extent
    BY ElementOfSeq
  <2>7. /\ a \in Seq(Extent) /\ Len(a) = k - 1
        /\ \A j \in 1 .. k - 1 : a[j] = rs[j]
    <3>1. \A j \in 1 .. k - 1 : rs[j] \in Extent
      BY <1>0, <2>5, <2>6
    <3>2. /\ a \in Seq(Extent) /\ Len(a) = (IF 1 <= k - 1 THEN (k - 1) - 1 + 1 ELSE 0)
          /\ \A j \in 1 .. (k - 1) - 1 + 1 : a[j] = rs[1 + j - 1]
      BY <3>1, <2>5, <1>0, SubSeqProperties
    <3> HIDE DEF a
    <3> QED
      BY <3>2, <2>5, <1>0
  <2>8. /\ b \in Seq(Extent) /\ Len(b) = Len(rs) - k
        /\ \A j \in 1 .. Len(rs) - k : b[j] = rs[j + k]
    <3>1. \A j \in k + 1 .. Len(rs) : rs[j] \in Extent
      BY <1>0, <2>5, <2>6
    <3>2. /\ b \in Seq(Extent)
          /\ Len(b) = (IF k + 1 <= Len(rs) THEN Len(rs) - (k + 1) + 1 ELSE 0)
          /\ \A j \in 1 .. Len(rs) - (k + 1) + 1 : b[j] = rs[(k + 1) + j - 1]
      BY <3>1, <2>5, <1>0, SubSeqProperties
    <3> HIDE DEF b
    <3>3. Len(b) = Len(rs) - k
      <4>1. k \in Int /\ Len(rs) \in Int /\ k <= Len(rs)
        BY <2>5, <1>0
      <4>2. Len(b) = (IF k + 1 <= Len(rs) THEN Len(rs) - (k + 1) + 1 ELSE 0)
        BY <3>2
      <4> QED
        BY <4>1, <4>2
    <3>4. ASSUME NEW j \in 1 .. Len(rs) - k
          PROVE  b[j] = rs[j + k]
      <4>1. (k + 1) + j - 1 = j + k /\ j \in 1 .. Len(rs) - (k + 1) + 1
        BY <2>5, <1>0
      <4> QED
        BY <4>1, <3>2
    <3> QED
      BY <3>2, <3>3, <3>4
  <2> HIDE DEF a, b
  <2>9. rest = a \o b
    BY <2>4 DEF a, b
  <2>10. /\ rest \in Seq(Extent) /\ Len(rest) = Len(a) + Len(b)
         /\ \A j \in 1 .. Len(a) + Len(b) : rest[j] = IF j <= Len(a) THEN a[j] ELSE b[j - Len(a)]
    <3>1. a \in Seq(Extent) /\ b \in Seq(Extent)
      BY <2>7, <2>8
    <3>2. /\ a \o b \in Seq(Extent) /\ Len(a \o b) = Len(a) + Len(b)
          /\ \A j \in 1 .. Len(a) + Len(b) :
               (a \o b)[j] = IF j <= Len(a) THEN a[j] ELSE b[j - Len(a)]
      BY <3>1, ConcatProperties, Zenon
    <3> QED
      BY <3>2, <2>9
  <2>11. Len(rest) = Len(rs) - 1
    BY <2>10, <2>7, <2>8, <2>5, <1>0
  <2>12. \A j \in 1 .. Len(rest) : rest[j] = rs[IF j < k THEN j ELSE j + 1]
    BY <2>10, <2>7, <2>8, <2>5, <2>11, <1>0
  <2> QED
    BY <1>0, <2>3, <2>10, <2>11, <2>12
<1> QED
  BY <1>1, <1>2
\* AcceptedRanges, as a predicate of the list and of the heap's size.
Accepted(rs) ==
  \A k \in DOMAIN rs :
    /\ rs[k].lo % ALIGNMENT = 0
    /\ Lo <= rs[k].lo /\ rs[k].lo <= rs[k].hi
    /\ \A old \in DOMAIN rs :
         old > k => \/ rs[k].hi < rs[old].lo
                    \/ rs[old].hi < rs[k].lo
                    \/ rs[k].lo < rs[old].lo /\ rs[old].hi < rs[k].hi

Below(rs, grown) == \A k \in DOMAIN rs : rs[k].hi <= Lo + grown - 1

LEMMA AcceptedSplit ==
  AcceptedRanges <=> Accepted(ranges) /\ (pc = "valid" => Below(ranges, heapsize))
BY DEF AcceptedRanges, Accepted, Below, mem_heap_hi

\* A payload that add_range accepts keeps the list as AcceptedRanges says.
LEMMA AcceptedAdd ==
  ASSUME NEW rs \in Seq(Extent), Accepted(rs), NEW grown \in Nat, Below(rs, grown),
         NEW p \in Nat, NEW size \in Nat \ {0}, range_ok(rs, p, size, grown),
         NEW new, new = add_range(rs, p, size)
  PROVE  new \in Seq(Extent) /\ Accepted(new) /\ Below(new, grown)
<1>0. Lo \in Nat /\ ALIGNMENT \in Nat \ {0}
  BY DriverAssumption
<1>1. /\ new \in Seq(Extent) /\ Len(new) = Len(rs) + 1
      /\ new[1] = [lo |-> p, hi |-> p + size - 1]
      /\ \A k \in 1 .. Len(rs) : new[k + 1] = rs[k]
  BY AddRange
<1>2. /\ DOMAIN rs = 1 .. Len(rs) /\ DOMAIN new = 1 .. Len(rs) + 1 /\ Len(rs) \in Nat
      /\ \A k \in 1 .. Len(rs) : rs[k] \in Extent
  BY <1>1, LenProperties, ElementOfSeq
<1>3. \A k \in DOMAIN new : k = 1 \/ \E j \in 1 .. Len(rs) : k = j + 1 /\ new[k] = rs[j]
  <2>1. ASSUME NEW k \in DOMAIN new, k # 1
        PROVE  \E j \in 1 .. Len(rs) : k = j + 1 /\ new[k] = rs[j]
    <3>1. k - 1 \in 1 .. Len(rs) /\ k = (k - 1) + 1
      BY <2>1, <1>2
    <3> QED
      BY <3>1, <1>1
  <2> QED
    BY <2>1
<1>4. /\ p % ALIGNMENT = 0 /\ Lo <= p /\ p <= p + size - 1 /\ p + size - 1 <= Lo + grown - 1
      /\ \A k \in 1 .. Len(rs) :
           /\ ~(p >= rs[k].lo /\ p <= rs[k].hi)
           /\ ~(p + size - 1 >= rs[k].lo /\ p + size - 1 <= rs[k].hi)
  BY <1>0, <1>2 DEF range_ok
<1>5. \A k \in 1 .. Len(rs) : rs[k].lo \in Nat /\ rs[k].hi \in Nat /\ rs[k].lo <= rs[k].hi
  BY <1>2 DEF Extent, Accepted
<1>6. Below(new, grown)
  <2> SUFFICES ASSUME NEW k \in DOMAIN new
               PROVE  new[k].hi <= Lo + grown - 1
    BY DEF Below
  <2>1. CASE k = 1
    BY <2>1, <1>1, <1>4
  <2>2. CASE k # 1
    BY <2>2, <1>2, <1>3 DEF Below
  <2> QED
    BY <2>1, <2>2
<1>7. ASSUME NEW k \in DOMAIN new
      PROVE  new[k].lo % ALIGNMENT = 0 /\ Lo <= new[k].lo /\ new[k].lo <= new[k].hi
  <2>1. CASE k = 1
    BY <2>1, <1>1, <1>4
  <2>2. CASE k # 1
    BY <2>2, <1>2, <1>3 DEF Accepted
  <2> QED
    BY <2>1, <2>2
<1>8. ASSUME NEW k \in DOMAIN new, NEW old \in DOMAIN new, old > k
      PROVE  \/ new[k].hi < new[old].lo
             \/ new[old].hi < new[k].lo
             \/ new[k].lo < new[old].lo /\ new[old].hi < new[k].hi
  <2>1. PICK j \in 1 .. Len(rs) : old = j + 1 /\ new[old] = rs[j]
    BY <1>2, <1>3, <1>8
  <2>2. CASE k = 1
    <3>1. new[k].lo = p /\ new[k].hi = p + size - 1
      BY <2>2, <1>1
    <3>2. rs[j].lo \in Nat /\ rs[j].hi \in Nat /\ rs[j].lo <= rs[j].hi
      BY <1>5
    <3> QED
      BY <2>1, <3>1, <3>2, <1>4
  <2>3. CASE k # 1
    <3>1. PICK l \in 1 .. Len(rs) : k = l + 1 /\ new[k] = rs[l]
      BY <1>3, <2>3
    <3>2. j > l
      BY <1>8, <2>1, <3>1, <1>2
    <3> QED
      BY <2>1, <3>1, <3>2, <1>2 DEF Accepted
  <2> QED
    BY <2>2, <2>3
<1>9. Accepted(new)
  BY <1>7, <1>8 DEF Accepted
<1> QED
  BY <1>1, <1>6, <1>9

\* So does taking out a range.
LEMMA AcceptedRemove ==
  ASSUME NEW rs \in Seq(Extent), Accepted(rs), NEW lo, NEW rest, rest = remove_range(rs, lo)
  PROVE  /\ rest \in Seq(Extent) /\ Accepted(rest)
         /\ \A grown : Below(rs, grown) => Below(rest, grown)
<1>1. rest \in Seq(Extent)
  BY RemoveRange
<1>2. /\ DOMAIN rs = 1 .. Len(rs) /\ Len(rs) \in Nat
      /\ DOMAIN rest = 1 .. Len(rest) /\ Len(rest) \in Nat
  BY <1>1, LenProperties
<1>3. CASE rest = rs
  BY <1>3
<1>4. CASE \E k \in DOMAIN rs :
             /\ rs[k].lo = lo
             /\ Len(rest) = Len(rs) - 1
             /\ \A j \in 1 .. Len(rest) : rest[j] = rs[IF j < k THEN j ELSE j + 1]
  <2>1. PICK k \in DOMAIN rs :
             /\ Len(rest) = Len(rs) - 1
             /\ \A j \in 1 .. Len(rest) : rest[j] = rs[IF j < k THEN j ELSE j + 1]
    BY <1>4
  <2> DEFINE f(j) == IF j < k THEN j ELSE j + 1
  <2>2. \A j \in DOMAIN rest : f(j) \in DOMAIN rs /\ rest[j] = rs[f(j)]
    BY <2>1, <1>2
  <2>3. \A j, l \in DOMAIN rest : l > j => f(l) > f(j)
    BY <1>2, <2>1
  <2> HIDE DEF f
  <2>4. Accepted(rest)
    BY <2>2, <2>3 DEF Accepted
  <2>5. \A grown : Below(rs, grown) => Below(rest, grown)
    BY <2>2 DEF Below
  <2> QED
    BY <1>1, <2>4, <2>5
<1> QED
  BY <1>1, <1>3, <1>4, RemoveRange
-----------------------------------------------------------------------------
\* The payloads in use.

\* There is always a name that the C library has not given out.
LEMMA LibcName ==
  ASSUME NEW h, IsFiniteSet(DOMAIN h), DOMAIN h \subseteq Nat
  PROVE  libc_malloc(h) \in Nat \ DOMAIN h
<1> DEFINE n == Cardinality(DOMAIN h)
           S == Lo .. (Lo + n)
           T == S \ DOMAIN h
<1>1. n \in Nat /\ Lo \in Nat
  BY FS_CardinalityType, DriverAssumption
<1> HIDE DEF n
<1>2. IsFiniteSet(S) /\ Cardinality(S) = n + 1
  <2>1. /\ IsFiniteSet(Lo .. (Lo + n))
        /\ Cardinality(Lo .. (Lo + n)) = IF Lo > Lo + n THEN 0 ELSE (Lo + n) - Lo + 1
    BY <1>1, FS_Interval
  <2> QED
    BY <2>1, <1>1
<1>3. ~(S \subseteq DOMAIN h)
  <2> SUFFICES ASSUME S \subseteq DOMAIN h
               PROVE  FALSE
    OBVIOUS
  <2> HIDE DEF S
  <2>1. Cardinality(S) <= n
    BY FS_Subset DEF n
  <2> QED
    BY <2>1, <1>1, <1>2
<1>4. T # {} /\ T \subseteq Nat
  BY <1>1, <1>3
<1>5. PICK p \in T : \A q \in T : p <= q
  BY <1>4, Least
<1>6. \A q \in Lo .. (p - 1) : q \in DOMAIN h
  BY <1>1, <1>4, <1>5
<1> QED
  BY <1>1, <1>5, <1>6 DEF libc_malloc, n

-----------------------------------------------------------------------------
\* The parts of Sound: main and its options, the trace, the results, the
\* blocks, the ranges.
MainOK ==
  /\ pc \in {"options", "libc_read", "libc_valid", "libc_speed", "read", "valid", "util",
             "speed", "done", "exit"}
  /\ args \in 0 .. MaxArgs /\ num_tracefiles \in {0, 1, DEFAULT_TRACES}
  /\ libc \in Nat /\ (libc < num_tracefiles \/ libc = 0)
  /\ rep \in 0 .. Reps
  /\ opt \in [tracefiles : BOOLEAN, tracedir : {"traces/", "dir/", "./"},
              team_check : BOOLEAN, run_libc : BOOLEAN]
  /\ pc = "options" => libc = 0
  /\ pc \in {"libc_read", "read"} \union LibcPasses \union Passes => num_tracefiles > 0
  /\ pc \in {"libc_read"} \union LibcPasses => libc < num_tracefiles
  /\ pc \in LibcPasses \union Passes => rep < Reps
  /\ FileOptionWins

TraceOK ==
  /\ i \in 0 .. Len(trace)
  /\ Readable
  /\ refused \in BOOLEAN /\ lost \in BOOLEAN

ResultsOK ==
  /\ errors \in 0 .. num_tracefiles
  /\ valid \in Seq(BOOLEAN) /\ Len(valid) <= num_tracefiles
  /\ pc \in {"options", "libc_read"} \union LibcPasses => errors = 0 /\ valid = << >>
  /\ pc \in {"read"} \union Passes => Len(valid) < num_tracefiles
  /\ ErrorsAreInvalidTraces

BlocksOK ==
  /\ blocks \in [Ids -> Nat] /\ block_sizes \in [Ids -> Sizes \union {0}]
  /\ total_size \in Int /\ max_total_size \in Nat
  /\ heapsize \in 0 .. MAX_HEAP
  /\ HeldTyped

RangesOK == ranges \in Seq(Extent) /\ AcceptedRanges

LEMMA SoundParts == Sound <=> MainOK /\ TraceOK /\ ResultsOK /\ BlocksOK /\ RangesOK
BY DEF Sound, TypeOK, Counted, MainOK, TraceOK, ResultsOK, BlocksOK, RangesOK

LEMMA SoundPartsNext == Sound' <=> MainOK' /\ TraceOK' /\ ResultsOK' /\ BlocksOK' /\ RangesOK'
BY SoundParts, PTL

\* The current request.
LEMMA CurrentOp ==
  ASSUME TraceOK, pc \in LibcPasses \union Passes, i < Len(trace)
  PROVE  /\ op \in OpType /\ op.index \in Ids /\ op.type \in {"a", "r", "f"}
         /\ op.type # "f" => op.size \in Sizes /\ op.size \in Nat \ {0}
         /\ i \in Nat /\ i + 1 \in 1 .. Len(trace)
<1>1. trace \in Seq(OpType) /\ i \in 0 .. Len(trace) /\ Len(trace) \in Nat
  BY LenProperties DEF TraceOK, Readable
<1>2. i + 1 \in 1 .. Len(trace) /\ i + 1 \in DOMAIN trace /\ i \in Nat
  BY <1>1, LenProperties
<1>3. op \in OpType
  BY <1>1, <1>2, ElementOfSeq DEF op
<1>4. op.type \in {"a", "r", "f"} /\ (op.type # "f" => op.size \in Sizes)
  BY <1>2 DEF TraceOK, Readable, op
<1> QED
  BY <1>2, <1>3, <1>4, DriverAssumption DEF OpType

\* main's options and loops.
LEMMA MainNext ==
  ASSUME Sound, Next
  PROVE  MainOK'
<1> USE DEF LibcPasses, Passes
<1>0. MainOK 
  BY SoundParts
<1>1. CASE option
  <2>1. pc = "options" /\ args' \in 0 .. MaxArgs /\ UNCHANGED <<libc, rep>>
    BY <1>1, <1>0, DriverAssumption DEF MainOK, option
  <2>2. CASE /\ opt' = [opt EXCEPT !.tracefiles = TRUE, !.tracedir = "./"]
             /\ num_tracefiles' = 1 /\ UNCHANGED pc
    BY <1>0, <2>1, <2>2 DEF MainOK, FileOptionWins
  <2>3. CASE option_t /\ UNCHANGED <<num_tracefiles, pc>>
    <3>1. CASE num_tracefiles = 1
      <4>1. UNCHANGED opt
        BY <2>3, <3>1 DEF option_t
      <4>2. FileOptionWins'
        BY <1>0, <2>3, <4>1, Zenon DEF MainOK, FileOptionWins
      <4> QED
        BY <1>0, <2>1, <2>3, <4>1, <4>2 DEF MainOK
    <3>2. CASE num_tracefiles # 1
      <4>1. opt' = [opt EXCEPT !.tracedir = "dir/"] /\ ~opt.tracefiles
        BY <1>0, <2>3, <3>2 DEF MainOK, FileOptionWins, option_t
      <4>2. opt' \in [tracefiles : BOOLEAN, tracedir : {"traces/", "dir/", "./"},
                      team_check : BOOLEAN, run_libc : BOOLEAN] /\ ~opt'.tracefiles
        BY <1>0, <4>1 DEF MainOK
      <4>3. FileOptionWins'
        BY <4>2, Zenon DEF FileOptionWins
      <4> QED
        BY <1>0, <2>1, <2>3, <4>2, <4>3 DEF MainOK
    <3> QED
      BY <3>1, <3>2
  <2>4. CASE /\ \/ opt' = [opt EXCEPT !.team_check = FALSE]
                \/ opt' = [opt EXCEPT !.run_libc = TRUE]
             /\ UNCHANGED <<num_tracefiles, pc>>
    <3>1. opt' \in [tracefiles : BOOLEAN, tracedir : {"traces/", "dir/", "./"},
                    team_check : BOOLEAN, run_libc : BOOLEAN]
      BY <1>0, <2>4 DEF MainOK
    <3>2. opt'.tracefiles = opt.tracefiles /\ opt'.tracedir = opt.tracedir
      BY <1>0, <2>4 DEF MainOK
    <3> QED
      BY <1>0, <2>1, <2>4, <3>1, <3>2 DEF MainOK, FileOptionWins
  <2>5. CASE pc' = "exit" /\ UNCHANGED <<opt, num_tracefiles>>
    BY <1>0, <2>1, <2>5 DEF MainOK, FileOptionWins
  <2> QED
    BY <1>1, <2>2, <2>3, <2>4, <2>5 DEF option
<1>2. CASE start
  <2>1. /\ num_tracefiles' \in {1, DEFAULT_TRACES} /\ num_tracefiles' > 0
        /\ pc' \in {"exit", "libc_read", "read"}
    BY <1>2, <1>0, DriverAssumption DEF MainOK, start, FileOptionWins
  <2>2. opt' = NoOptions /\ UNCHANGED <<args, libc, rep>>
    BY <1>2 DEF start
  <2>3. libc = 0
    BY <1>0, <1>2 DEF MainOK, start
  <2> QED
    BY <1>0, <2>1, <2>2, <2>3 DEF MainOK, NoOptions, FileOptionWins
<1>3. CASE libc_read
  BY <1>0, <1>3, DriverAssumption
  DEF MainOK, libc_read, main_vars, Load, FileOptionWins
<1>4. CASE libc_op
  BY <1>0, <1>4
  DEF MainOK, libc_op, main_vars, FileOptionWins
<1>5. CASE begin_libc_speed
  BY <1>0, <1>5
  DEF MainOK, begin_libc_speed, main_vars, FileOptionWins
<1>6. CASE end_libc_speed
  BY <1>0, <1>6, DriverAssumption
  DEF MainOK, end_libc_speed, main_vars, Load, FileOptionWins
<1>7. CASE read_trace
  <2>1. rep' = 0 /\ pc' \in {"exit", "valid", "done", "read"}
    BY <1>7 DEF read_trace, Load, Exit, Invalid, EndTrace
  <2>2. UNCHANGED main_vars /\ num_tracefiles > 0
    BY <1>0, <1>7 DEF MainOK, read_trace
  <2>3. FileOptionWins'
    BY <1>0, <2>2, Zenon DEF MainOK, main_vars, FileOptionWins
  <2> QED
    BY <1>0, <2>1, <2>2, <2>3, DriverAssumption DEF MainOK, main_vars
<1>8. CASE valid_alloc
  BY <1>0, <1>8
  DEF MainOK, valid_alloc, main_vars, Invalid, EndTrace, FileOptionWins
<1>9. CASE valid_realloc
  BY <1>0, <1>9
  DEF MainOK, valid_realloc, main_vars, Invalid, EndTrace, FileOptionWins
<1>10. CASE valid_free
  BY <1>0, <1>10
  DEF MainOK, valid_free, main_vars, FileOptionWins
<1>11. CASE begin_util
  BY <1>0, <1>11
  DEF MainOK, begin_util, main_vars, Exit, Restart, FileOptionWins
<1>12. CASE util_op
  BY <1>0, <1>12
  DEF MainOK, util_op, main_vars, Refuse, Call, Exit, FileOptionWins
<1>13. CASE begin_speed
  BY <1>0, <1>13, DriverAssumption
  DEF MainOK, begin_speed, main_vars, Exit, Restart, FileOptionWins
<1>14. CASE speed_op
  BY <1>0, <1>14
  DEF MainOK, speed_op, main_vars, Refuse, Call, Exit, FileOptionWins
<1>15. CASE end_speed
  <2>1. /\ rep' = rep + 1 /\ rep' \in 0 .. Reps
        /\ pc' \in {"speed", "exit", "done", "read"}
        /\ pc' = "speed" => rep' < Reps
    <3>1. rep \in Nat /\ rep < Reps /\ rep' = rep + 1 /\ Reps \in Nat /\ pc = "speed"
      BY <1>0, <1>15, DriverAssumption DEF MainOK, end_speed
    <3>2. \/ rep' < Reps /\ UNCHANGED pc
          \/ pc' = "exit"
          \/ pc' \in {"done", "read"}
      BY <1>15 DEF end_speed, Exit, EndTrace
    <3> QED
      BY <3>1, <3>2
  <2>2. UNCHANGED main_vars /\ num_tracefiles > 0
    BY <1>0, <1>15 DEF MainOK, end_speed
  <2>3. FileOptionWins'
    BY <1>0, <2>2, Zenon DEF MainOK, main_vars, FileOptionWins
  <2> QED
    BY <1>0, <2>1, <2>2, <2>3 DEF MainOK, main_vars
<1>16. CASE finished
  BY <1>0, <1>16
  DEF MainOK, finished, main_vars, vars, FileOptionWins
<1> QED
  BY <1>1, <1>2, <1>3, <1>4, <1>5, <1>6, <1>7, <1>8, <1>9, <1>10, <1>11, <1>12, <1>13,
     <1>14, <1>15, <1>16 DEF Next

\* A finished or ended trace is left alone.
LEMMA TraceKept ==
  ASSUME TraceOK, UNCHANGED trace, i' \in 0 .. Len(trace),
         refused' \in BOOLEAN, lost' \in BOOLEAN,
         pc' \in LibcPasses \union Passes => pc \in LibcPasses \union Passes
  PROVE  TraceOK'
BY DEF TraceOK, Readable

\* Every pass interprets the ops of its trace from the first to the last.
LEMMA TraceNext ==
  ASSUME Sound, Next
  PROVE  TraceOK'
<1> USE DEF LibcPasses, Passes
<1>0. TraceOK /\ trace \in Seq(OpType) /\ Len(trace) \in Nat /\ i \in 0 .. Len(trace)
  BY SoundParts, LenProperties DEF TraceOK, Readable
<1>a. 0 \in 0 .. Len(trace) /\ (i < Len(trace) => i + 1 \in 0 .. Len(trace))
  BY <1>0
<1>b. refused \in BOOLEAN /\ lost \in BOOLEAN
  BY <1>0 DEF TraceOK
<1> HIDE DEF LibcPasses, Passes
<1>1. CASE option
  BY <1>0, <1>1, TraceKept DEF option, TraceOK, LibcPasses, Passes
<1>2. CASE start
  BY <1>0, <1>b, <1>2, TraceKept DEF start, LibcPasses, Passes
<1>3. CASE libc_read
  <2>1. PICK file \in Files :
          trace' = file.ops /\ pc' = IF read_ok(file) THEN "libc_valid" ELSE "exit"
    BY <1>3 DEF libc_read, Load
  <2>2. i' = 0 /\ UNCHANGED <<refused, lost>>
    BY <1>3 DEF libc_read
  <2>3. trace' \in Seq(OpType) /\ Len(trace') \in Nat
    BY <2>1, FilesAssumption, LenProperties
  <2>4. pc' # "exit" => \A k \in DOMAIN trace' : trace'[k].type \in {"a", "r", "f"}
    BY <2>1 DEF read_ok
  <2>5. Readable'
    BY <2>1, <2>3, <2>4, FilesAssumption DEF Readable, LibcPasses, Passes
  <2> QED
    BY <1>b, <2>1, <2>2, <2>3, <2>5 DEF TraceOK, Passes
<1>4. CASE libc_op
  <2>1. UNCHANGED <<trace, lost>> /\ (i' = i \/ i' = 0 \/ (i < Len(trace) /\ i' = i + 1))
    BY <1>4 DEF libc_op, main_vars
  <2>2. /\ refused' \in BOOLEAN
        /\ pc' \in LibcPasses \union Passes => pc \in LibcPasses \union Passes
    BY <1>b, <1>4 DEF libc_op, LibcPasses, Passes
  <2> QED
    BY <1>0, <1>a, <1>b, <2>1, <2>2, TraceKept
<1>5. CASE begin_libc_speed
  <2>1. UNCHANGED <<trace, lost>> /\ (i' = i \/ i' = 0 \/ (i < Len(trace) /\ i' = i + 1))
    BY <1>5 DEF begin_libc_speed, main_vars
  <2>2. /\ refused' \in BOOLEAN
        /\ pc' \in LibcPasses \union Passes => pc \in LibcPasses \union Passes
    BY <1>b, <1>5 DEF begin_libc_speed, LibcPasses, Passes
  <2> QED
    BY <1>0, <1>a, <1>b, <2>1, <2>2, TraceKept
<1>6. CASE end_libc_speed
  <2>1. UNCHANGED <<refused, lost>> /\ i' = 0
    BY <1>6 DEF end_libc_speed
  <2>2. CASE UNCHANGED <<pc, trace>>
    BY <1>0, <1>a, <1>b, <2>1, <2>2, TraceKept
  <2>3. CASE trace' = << >> /\ pc' \in {"libc_read", "read", "exit"}
    BY <1>b, <2>1, <2>3, EmptySeq DEF TraceOK, Readable, LibcPasses, Passes
  <2> QED
    BY <1>6, <2>2, <2>3 DEF end_libc_speed, Load
<1>7. CASE read_trace
  <2>1. PICK file \in Files :
          /\ trace' = file.ops
          /\ pc' \in Passes => read_ok(file)
          /\ pc' \in {"exit", "read", "done", "valid"}
    BY <1>7 DEF read_trace, Load, Invalid, EndTrace, Exit, Passes
  <2>2. i' = 0 /\ refused' \in BOOLEAN /\ lost' = FALSE
    BY <1>b, <1>7 DEF read_trace, Restart
  <2>3. trace' \in Seq(OpType) /\ Len(trace') \in Nat
    BY <2>1, FilesAssumption, LenProperties
  <2>4. pc' \in Passes => \A k \in DOMAIN trace' : trace'[k].type \in {"a", "r", "f"}
    BY <2>1 DEF read_ok
  <2>5. Readable'
    <3>1. pc' \in LibcPasses => pc' \in Passes
      BY <2>1 DEF LibcPasses
    <3> QED
      BY <2>1, <2>3, <2>4, <3>1, FilesAssumption DEF Readable
  <2>6. i' \in 0 .. Len(trace')
    BY <2>2, <2>3
  <2> QED
    BY <2>2, <2>5, <2>6 DEF TraceOK
<1>8. CASE valid_alloc
  <2>1. UNCHANGED <<trace, lost>> /\ (i' = i \/ i' = 0 \/ (i < Len(trace) /\ i' = i + 1))
    BY <1>8 DEF valid_alloc, Invalid, EndTrace, main_vars
  <2>2. /\ refused' \in BOOLEAN
        /\ pc' \in LibcPasses \union Passes => pc \in LibcPasses \union Passes
    BY <1>b, <1>8 DEF valid_alloc, Invalid, EndTrace, LibcPasses, Passes
  <2> QED
    BY <1>0, <1>a, <1>b, <2>1, <2>2, TraceKept
<1>9. CASE valid_realloc
  <2>1. /\ UNCHANGED trace /\ pc = "valid" /\ i < Len(trace) /\ i' \in {i, i + 1}
        /\ refused' \in BOOLEAN /\ pc' \in {"read", "done", "valid"}
    BY <1>b, <1>9 DEF valid_realloc, Invalid, EndTrace
  <2>2. lost' \in BOOLEAN
    BY <1>b, <1>9 DEF valid_realloc
  <2> QED
    BY <1>0, <1>a, <2>1, <2>2, TraceKept DEF Passes
<1>10. CASE valid_free
  <2>1. UNCHANGED <<trace, lost>> /\ (i' = i \/ i' = 0 \/ (i < Len(trace) /\ i' = i + 1))
    BY <1>10 DEF valid_free, main_vars
  <2>2. /\ refused' \in BOOLEAN
        /\ pc' \in LibcPasses \union Passes => pc \in LibcPasses \union Passes
    BY <1>b, <1>10 DEF valid_free, LibcPasses, Passes
  <2> QED
    BY <1>0, <1>a, <1>b, <2>1, <2>2, TraceKept
<1>11. CASE begin_util
  <2>1. UNCHANGED <<trace, lost>> /\ (i' = i \/ i' = 0 \/ (i < Len(trace) /\ i' = i + 1))
    BY <1>11 DEF begin_util, Restart, Exit, main_vars
  <2>2. /\ refused' \in BOOLEAN
        /\ pc' \in LibcPasses \union Passes => pc \in LibcPasses \union Passes
    BY <1>b, <1>11 DEF begin_util, Restart, Exit, LibcPasses, Passes
  <2> QED
    BY <1>0, <1>a, <1>b, <2>1, <2>2, TraceKept
<1>12. CASE util_op
  <2>1. UNCHANGED <<trace, lost>> /\ (i' = i \/ i' = 0 \/ (i < Len(trace) /\ i' = i + 1))
    BY <1>12 DEF util_op, Refuse, Call, Exit, main_vars
  <2>2. /\ refused' \in BOOLEAN
        /\ pc' \in LibcPasses \union Passes => pc \in LibcPasses \union Passes
    BY <1>b, <1>12 DEF util_op, Refuse, Call, Exit, LibcPasses, Passes
  <2> QED
    BY <1>0, <1>a, <1>b, <2>1, <2>2, TraceKept
<1>13. CASE begin_speed
  <2>1. UNCHANGED <<trace, lost>> /\ (i' = i \/ i' = 0 \/ (i < Len(trace) /\ i' = i + 1))
    BY <1>13 DEF begin_speed, Restart, Exit, main_vars
  <2>2. /\ refused' \in BOOLEAN
        /\ pc' \in LibcPasses \union Passes => pc \in LibcPasses \union Passes
    BY <1>b, <1>13 DEF begin_speed, Restart, Exit, LibcPasses, Passes
  <2> QED
    BY <1>0, <1>a, <1>b, <2>1, <2>2, TraceKept
<1>14. CASE speed_op
  <2>1. UNCHANGED <<trace, lost>> /\ (i' = i \/ i' = 0 \/ (i < Len(trace) /\ i' = i + 1))
    BY <1>14 DEF speed_op, Refuse, Call, Exit, main_vars
  <2>2. /\ refused' \in BOOLEAN
        /\ pc' \in LibcPasses \union Passes => pc \in LibcPasses \union Passes
    BY <1>b, <1>14 DEF speed_op, Refuse, Call, Exit, LibcPasses, Passes
  <2> QED
    BY <1>0, <1>a, <1>b, <2>1, <2>2, TraceKept
<1>15. CASE end_speed
  <2>1. UNCHANGED <<trace, lost>> /\ (i' = i \/ i' = 0 \/ (i < Len(trace) /\ i' = i + 1))
    BY <1>15 DEF end_speed, Restart, Exit, EndTrace, main_vars
  <2>2. /\ refused' \in BOOLEAN
        /\ pc' \in LibcPasses \union Passes => pc \in LibcPasses \union Passes
    BY <1>b, <1>15 DEF end_speed, Restart, Exit, EndTrace, LibcPasses, Passes
  <2> QED
    BY <1>0, <1>a, <1>b, <2>1, <2>2, TraceKept
<1>16. CASE finished
  BY <1>0, <1>b, <1>16, TraceKept DEF finished, vars, main_vars
<1> QED
  BY <1>1, <1>2, <1>3, <1>4, <1>5, <1>6, <1>7, <1>8, <1>9, <1>10, <1>11, <1>12, <1>13,
     <1>14, <1>15, <1>16 DEF Next
-----------------------------------------------------------------------------
\* The results of the traces.

\* How many results of the list v are bad.
Bad(v) == Cardinality({t \in DOMAIN v : ~v[t]})

LEMMA BadCount ==
  ASSUME NEW v \in Seq(BOOLEAN)
  PROVE  /\ IsFiniteSet({t \in DOMAIN v : ~v[t]})
         /\ Bad(v) \in 0 .. Len(v)
<1> DEFINE S == {t \in DOMAIN v : ~v[t]}
<1>1. DOMAIN v = 1 .. Len(v) /\ Len(v) \in Nat
  BY LenProperties
<1>2. IsFiniteSet(1 .. Len(v)) /\ Cardinality(1 .. Len(v)) = Len(v)
  <2>1. /\ IsFiniteSet(1 .. Len(v))
        /\ Cardinality(1 .. Len(v)) = IF 1 > Len(v) THEN 0 ELSE Len(v) - 1 + 1
    BY <1>1, FS_Interval
  <2> QED
    BY <1>1, <2>1
<1>3. S \subseteq 1 .. Len(v)
  BY <1>1
<1> HIDE DEF S
<1>4. IsFiniteSet(S) /\ Cardinality(S) <= Len(v)
  BY <1>2, <1>3, FS_Subset
<1>5. Cardinality(S) \in Nat
  BY <1>4, FS_CardinalityType
<1> QED
  BY <1>1, <1>4, <1>5 DEF Bad, S

LEMMA BadAppend ==
  ASSUME NEW v \in Seq(BOOLEAN), NEW ok \in BOOLEAN
  PROVE  /\ Append(v, ok) \in Seq(BOOLEAN) /\ Len(Append(v, ok)) = Len(v) + 1
         /\ Bad(Append(v, ok)) = IF ok THEN Bad(v) ELSE Bad(v) + 1
<1> DEFINE w == Append(v, ok)
           n == Len(v) + 1
           S == {t \in DOMAIN v : ~v[t]}
<1>1. DOMAIN v = 1 .. Len(v) /\ Len(v) \in Nat
  BY LenProperties
<1>2. w \in Seq(BOOLEAN) /\ Len(w) = n /\ DOMAIN w = 1 .. n
  BY LenProperties
<1>3. w[n] = ok /\ \A t \in 1 .. Len(v) : w[t] = v[t]
  BY <1>1
<1>4. {t \in DOMAIN w : ~w[t]} = IF ok THEN S ELSE S \union {n}
  BY <1>1, <1>2, <1>3
<1>5. n \notin S
  BY <1>1
<1>6. IsFiniteSet(S) /\ Bad(v) = Cardinality(S)
  BY BadCount DEF Bad
<1> HIDE DEF w, S, n
<1>7. Cardinality(S \union {n}) = Cardinality(S) + 1
  BY <1>5, <1>6, FS_AddElement
<1>8. Bad(w) = IF ok THEN Bad(v) ELSE Bad(v) + 1
  BY <1>4, <1>6, <1>7 DEF Bad
<1> QED
  BY <1>2, <1>8 DEF w, n

LEMMA BadEmpty == Bad(<< >>) = 0
BY FS_EmptySet DEF Bad

\* The end of a trace adds its result to the list, and a bad one is counted.
LEMMA ResultAdded ==
  ASSUME ResultsOK, pc \in {"read"} \union Passes, UNCHANGED num_tracefiles,
         num_tracefiles \in Nat, NEW ok \in BOOLEAN, EndTrace(ok),
         errors' = IF ok THEN errors ELSE errors + 1
  PROVE  ResultsOK'
<1>1. /\ valid \in Seq(BOOLEAN) /\ Len(valid) \in Nat /\ Len(valid) < num_tracefiles
      /\ errors = Bad(valid)
  BY LenProperties DEF ResultsOK, ErrorsAreInvalidTraces, Passes, Bad
<1>2. /\ valid' \in Seq(BOOLEAN) /\ Len(valid') = Len(valid) + 1
      /\ errors' = Bad(valid')
  BY <1>1, BadAppend DEF EndTrace
<1>3. errors' \in 0 .. Len(valid')
  BY <1>2, BadCount
<1>4. pc' = (IF Len(valid) + 1 = num_tracefiles THEN "done" ELSE "read")
  BY DEF EndTrace
<1> QED
  BY <1>1, <1>2, <1>3, <1>4
  DEF ResultsOK, ErrorsAreInvalidTraces, Bad, LibcPasses, Passes

\* A step that ends no trace.
LEMMA ResultsKept ==
  ASSUME ResultsOK, UNCHANGED <<errors, valid, num_tracefiles>>,
         pc' = "exit" \/ pc # "exit",
         pc' \in {"options", "libc_read"} \union LibcPasses
           => pc \in {"options", "libc_read"} \union LibcPasses,
         pc' \in {"read"} \union Passes
           => pc \in {"read"} \union Passes \/ (valid = << >> /\ num_tracefiles > 0)
  PROVE  ResultsOK'
BY EmptySeq DEF ResultsOK, ErrorsAreInvalidTraces

\* Every trace gets one result, and every bad one is counted once.
LEMMA ResultsNext ==
  ASSUME Sound, Next
  PROVE  ResultsOK'
<1>0. /\ ResultsOK /\ num_tracefiles \in Nat
      /\ pc \in {"read", "libc_read"} \union LibcPasses \union Passes => num_tracefiles > 0
  BY SoundParts, DriverAssumption DEF MainOK
<1>1. CASE option
  <2>1. UNCHANGED <<errors, valid>> /\ pc = "options" /\ pc' \in {"options", "exit"}
    BY <1>1 DEF option
  <2>2. errors = 0 /\ valid = << >> /\ num_tracefiles' \in Nat
    BY <1>0, <2>1, <1>1 DEF ResultsOK, option
  <2> QED
    BY <2>1, <2>2, EmptySeq, BadEmpty
    DEF ResultsOK, ErrorsAreInvalidTraces, Bad, LibcPasses, Passes
<1>2. CASE start
  <2>1. UNCHANGED <<errors, valid>> /\ pc = "options" /\ pc' \in {"libc_read", "read", "exit"}
    BY <1>2 DEF start
  <2>2. errors = 0 /\ valid = << >> /\ num_tracefiles' \in Nat
    BY <1>0, <2>1, <1>2, DriverAssumption DEF ResultsOK, start
  <2>3. num_tracefiles' > 0 \/ pc' = "exit"
    BY <2>1, MainNext DEF MainOK
  <2> QED
    BY <2>1, <2>2, <2>3, EmptySeq, BadEmpty
    DEF ResultsOK, ErrorsAreInvalidTraces, Bad, LibcPasses, Passes
<1>3. CASE libc_read
  BY <1>0, <1>3, ResultsKept DEF libc_read, main_vars, LibcPasses, Passes
<1>4. CASE libc_op
  <2>1. UNCHANGED <<valid, num_tracefiles>> /\ pc \in LibcPasses
    BY <1>4 DEF libc_op, main_vars, LibcPasses
  <2>2. CASE UNCHANGED <<pc, errors>>
    BY <1>0, <2>1, <2>2, ResultsKept DEF LibcPasses, Passes
  <2>3. CASE pc' = "exit" /\ errors' \in {errors, errors + 1}
    <3>1. errors = 0 /\ valid = << >> /\ num_tracefiles > 0
      BY <1>0, <2>1 DEF ResultsOK
    <3> QED
      BY <1>0, <2>1, <2>3, <3>1, EmptySeq
      DEF ResultsOK, ErrorsAreInvalidTraces, LibcPasses, Passes
  <2> QED
    BY <1>4, <2>2, <2>3 DEF libc_op
<1>5. CASE begin_libc_speed
  BY <1>0, <1>5, ResultsKept DEF begin_libc_speed, main_vars, LibcPasses, Passes
<1>6. CASE end_libc_speed
  <2>1. /\ UNCHANGED <<errors, valid, num_tracefiles>> /\ pc = "libc_speed"
        /\ pc' \in {"libc_speed", "libc_read", "read", "exit"}
    BY <1>6 DEF end_libc_speed
  <2>2. valid = << >> /\ num_tracefiles > 0
    BY <1>0, <2>1 DEF ResultsOK, LibcPasses
  <2> QED
    BY <1>0, <2>1, <2>2, ResultsKept DEF LibcPasses
<1>7. CASE read_trace
  <2>1. UNCHANGED num_tracefiles /\ pc \in {"read"} \union Passes
    BY <1>7 DEF read_trace, main_vars, Passes
  <2>2. CASE Invalid
    BY <1>0, <2>1, <2>2, ResultAdded DEF Invalid
  <2>3. CASE UNCHANGED <<errors, valid>> /\ pc' \in {"exit", "valid"}
    BY <1>0, <2>1, <2>3, ResultsKept DEF LibcPasses, Passes
  <2> QED
    BY <1>7, <2>2, <2>3 DEF read_trace, Exit
<1>8. CASE valid_alloc
  <2>1. UNCHANGED num_tracefiles /\ pc \in {"read"} \union Passes
    BY <1>8 DEF valid_alloc, main_vars, Passes
  <2>2. CASE Invalid
    BY <1>0, <2>1, <2>2, ResultAdded DEF Invalid
  <2>3. CASE UNCHANGED <<errors, valid>> /\ pc' \in {"exit", "valid"}
    BY <1>0, <2>1, <2>3, ResultsKept DEF LibcPasses, Passes
  <2> QED
    BY <1>8, <2>2, <2>3 DEF valid_alloc, Exit
<1>9. CASE valid_realloc
  <2>1. UNCHANGED num_tracefiles /\ pc \in {"read"} \union Passes
    BY <1>9 DEF valid_realloc, main_vars, Passes
  <2>2. CASE Invalid
    BY <1>0, <2>1, <2>2, ResultAdded DEF Invalid
  <2>3. CASE UNCHANGED <<errors, valid>> /\ pc' \in {"exit", "valid"}
    BY <1>0, <2>1, <2>3, ResultsKept DEF LibcPasses, Passes
  <2> QED
    BY <1>9, <2>2, <2>3 DEF valid_realloc, Exit
<1>10. CASE valid_free
  BY <1>0, <1>10, ResultsKept DEF valid_free, main_vars, LibcPasses, Passes
<1>11. CASE begin_util
  BY <1>0, <1>11, ResultsKept DEF begin_util, Exit, main_vars, LibcPasses, Passes
<1>12. CASE util_op
  BY <1>0, <1>12, ResultsKept DEF util_op, Refuse, Call, Exit, main_vars, LibcPasses, Passes
<1>13. CASE begin_speed
  BY <1>0, <1>13, ResultsKept DEF begin_speed, Exit, main_vars, LibcPasses, Passes
<1>14. CASE speed_op
  BY <1>0, <1>14, ResultsKept DEF speed_op, Refuse, Call, Exit, main_vars, LibcPasses, Passes
<1>15. CASE end_speed
  <2>1. UNCHANGED num_tracefiles /\ pc = "speed" /\ pc \in {"read"} \union Passes
    BY <1>15 DEF end_speed, main_vars, Passes
  <2>2. CASE EndTrace(TRUE) /\ UNCHANGED errors
    BY <1>0, <2>1, <2>2, ResultAdded
  <2>3. CASE UNCHANGED <<errors, valid>> /\ pc' \in {"exit", "speed"}
    BY <1>0, <2>1, <2>3, ResultsKept DEF LibcPasses, Passes
  <2> QED
    BY <1>15, <2>1, <2>2, <2>3 DEF end_speed, Exit
<1>16. CASE finished
  BY <1>0, <1>16 DEF finished, vars, main_vars, ResultsOK, ErrorsAreInvalidTraces
<1> QED
  BY <1>1, <1>2, <1>3, <1>4, <1>5, <1>6, <1>7, <1>8, <1>9, <1>10, <1>11, <1>12, <1>13,
     <1>14, <1>15, <1>16 DEF Next
-----------------------------------------------------------------------------
\* The blocks and the payloads.

\* HeldTyped, as a predicate of the payloads.
HeldOK(h) ==
  /\ IsFiniteSet(DOMAIN h) /\ DOMAIN h \subseteq Nat
  /\ \A p \in DOMAIN h : h[p].size \in Sizes

LEMMA HeldLess ==
  ASSUME NEW h, HeldOK(h), NEW p, NEW w, w = Pkg!Without(h, p)
  PROVE  HeldOK(w)
<1>1. IsFiniteSet(DOMAIN h \ {p})
  BY FS_RemoveElement DEF HeldOK
<1>2. DOMAIN w = DOMAIN h \ {p} /\ \A q \in DOMAIN w : w[q] = h[q]
  BY DEF Pkg!Without
<1> QED
  BY <1>1, <1>2 DEF HeldOK

LEMMA HeldMore ==
  ASSUME NEW h, HeldOK(h), NEW p \in Nat, NEW what, what.size \in Sizes,
         NEW w, w = Pkg!With(h, p, what)
  PROVE  HeldOK(w)
<1>1. /\ DOMAIN w = DOMAIN h \union {p} /\ w[p] = what
      /\ \A q \in DOMAIN h \ {p} : w[q] = h[q]
  BY DEF Pkg!With
<1>2. IsFiniteSet(DOMAIN h \union {p})
  BY FS_AddElement DEF HeldOK
<1>3. \A q \in DOMAIN w : w[q].size \in Sizes
  BY <1>1 DEF HeldOK
<1>4. DOMAIN w \subseteq Nat
  BY <1>1 DEF HeldOK
<1> QED
  BY <1>1, <1>2, <1>3, <1>4 DEF HeldOK

LEMMA HeldChanges ==
  /\ HeldTyped <=> HeldOK(held)
  /\ HeldOK(NoBlocks)
  /\ \A h, p : HeldOK(h) => HeldOK(Pkg!Without(h, p))
  /\ \A h, p, what : HeldOK(h) /\ p \in Nat /\ what.size \in Sizes
                     => HeldOK(Pkg!With(h, p, what))
<1>1. HeldTyped <=> HeldOK(held)
  BY DEF HeldTyped, HeldOK
<1>2. HeldOK(NoBlocks)
  BY FS_EmptySet DEF HeldOK, NoBlocks
<1> QED
  BY <1>1, <1>2, HeldLess, HeldMore

\* BlocksOK but for the payloads.
BlocksTyped ==
  /\ blocks \in [Ids -> Nat] /\ block_sizes \in [Ids -> Sizes \union {0}]
  /\ total_size \in Int /\ max_total_size \in Nat
  /\ heapsize \in 0 .. MAX_HEAP

LEMMA BlocksSplit == BlocksOK <=> BlocksTyped /\ HeldOK(held)
BY HeldChanges DEF BlocksOK, BlocksTyped

LEMMA BlocksSplitNext == BlocksOK' <=> BlocksTyped' /\ HeldOK(held)'
BY BlocksSplit, PTL

\* An answer of the package, or of the C library, is a natural number.
LEMMA AnswersAreNat ==
  /\ Addresses \subseteq Nat
  /\ \A h : HeldOK(h) => libc_malloc(h) \in Nat
BY DriverAssumption, LibcName DEF Addresses, HeldOK

\* What a call made for the current request does to the payloads.
LEMMA CallTyped ==
  ASSUME BlocksOK, TraceOK, pc \in LibcPasses \union Passes, i < Len(trace)
  PROVE  /\ Free => HeldOK(held') /\ blocks' \in [Ids -> Nat]
         /\ HeldOK(InUse)
         /\ \A p \in Nat : Answer(p) => HeldOK(held') /\ blocks' \in [Ids -> Nat]
<1>1. HeldOK(held) /\ blocks \in [Ids -> Nat]
  BY HeldChanges DEF BlocksOK
<1>2. op.index \in Ids /\ (op.type # "f" => op.size \in Sizes)
  BY CurrentOp
<1>3. HeldOK(InUse)
  BY <1>1, HeldChanges DEF InUse
<1>4. Free => HeldOK(held') /\ blocks' \in [Ids -> Nat]
  BY <1>1, HeldChanges DEF Free
<1>5. ASSUME NEW p \in Nat, Answer(p)
      PROVE  HeldOK(held') /\ blocks' \in [Ids -> Nat]
  <2> DEFINE what == [size |-> op.size, kept |-> 0, data |-> {}]
  <2>1. held' = Pkg!With(InUse, p, what) /\ blocks' = [blocks EXCEPT ![op.index] = p]
    BY <1>5 DEF Answer
  <2>2. what.size \in Sizes
    BY <1>2, <1>5 DEF Answer
  <2> HIDE DEF what
  <2>3. HeldOK(held')
    BY <1>3, <2>1, <2>2, HeldChanges
  <2> QED
    BY <1>1, <1>2, <2>1, <2>3
<1> QED
  BY <1>3, <1>4, <1>5

LEMMA CallHeap ==
  ASSUME BlocksOK, TraceOK, pc \in Passes, i < Len(trace), Call
  PROVE  HeldOK(held') /\ blocks' \in [Ids -> Nat] /\ heapsize' \in 0 .. MAX_HEAP
<1>1. heapsize \in 0 .. MAX_HEAP /\ MAX_HEAP \in Nat
  BY DriverAssumption DEF BlocksOK
<1>2. CASE Free /\ UNCHANGED heapsize
  BY <1>1, <1>2, CallTyped
<1>3. CASE \E p \in Addresses, grown \in heapsize .. MAX_HEAP : heapsize' = grown /\ Answer(p)
  <2>1. PICK p \in Addresses, grown \in heapsize .. MAX_HEAP : heapsize' = grown /\ Answer(p)
    BY <1>3
  <2>2. p \in Nat /\ heapsize' \in 0 .. MAX_HEAP
    BY <1>1, <2>1, AnswersAreNat
  <2> QED
    BY <2>1, <2>2, CallTyped
<1> QED
  BY <1>2, <1>3 DEF Call

\* The same for the calls of eval_mm_valid, which stores sizes too.
LEMMA FillTyped ==
  ASSUME TraceOK, pc = "valid", i < Len(trace), op.type # "f",
         NEW h, HeldOK(h), NEW p \in Nat, held' = Pkg!With(h, p, Filled(op))
  PROVE  HeldOK(held')
<1>1. op.size \in Sizes
  BY CurrentOp DEF Passes
<1>2. Filled(op).size \in Sizes
  BY <1>1 DEF Filled
<1> QED
  BY <1>2, HeldChanges

LEMMA RememberTyped ==
  ASSUME TraceOK, pc = "valid", i < Len(trace), op.type # "f", BlocksTyped,
         NEW p \in Nat, Remember(op, p) \/ UNCHANGED <<blocks, block_sizes>>
  PROVE  blocks' \in [Ids -> Nat] /\ block_sizes' \in [Ids -> Sizes \union {0}]
<1>1. op.size \in Sizes /\ op.index \in Ids
  BY CurrentOp DEF Passes
<1> QED
  BY <1>1 DEF Remember, BlocksTyped

\* trace->blocks, the package's payloads and eval_mm_util's totals keep their
\* types.
LEMMA BlocksNext ==
  ASSUME Sound, Next
  PROVE  BlocksOK'
<1>0. /\ TraceOK /\ BlocksOK /\ BlocksTyped /\ HeldOK(held)
      /\ 0 \in 0 .. MAX_HEAP /\ heapsize \in 0 .. MAX_HEAP /\ MAX_HEAP \in Nat
  BY SoundParts, HeldChanges, DriverAssumption DEF BlocksOK, BlocksTyped
<1>a. BlocksOK' <=> BlocksTyped' /\ HeldOK(held')
  BY BlocksSplitNext
<1>b. HeldOK(NoBlocks)
  BY HeldChanges
<1>c. \A ops : Load(ops) => blocks' \in [Ids -> Nat] /\ block_sizes' \in [Ids -> Sizes \union {0}]
  BY DEF Load, NULL
<1> USE <1>a
<1>1. CASE option
  BY <1>0, <1>1 DEF option, BlocksTyped
<1>2. CASE start
  BY <1>0, <1>2 DEF start, BlocksTyped
<1>3. CASE libc_read
  BY <1>0, <1>c, <1>3 DEF libc_read, BlocksTyped
<1>4. CASE libc_op
  <2>1. UNCHANGED <<block_sizes, total_size, max_total_size, heapsize>>
        /\ pc \in LibcPasses /\ i < Len(trace)
    BY <1>4 DEF libc_op, LibcPasses
  <2>2. CASE Free \/ Answer(libc_malloc(InUse))
    <3>1. libc_malloc(InUse) \in Nat
      BY <1>0, <2>1, CallTyped, AnswersAreNat
    <3>2. HeldOK(held') /\ blocks' \in [Ids -> Nat]
      BY <1>0, <2>1, <2>2, <3>1, CallTyped
    <3> QED
      BY <1>0, <2>1, <3>2 DEF BlocksTyped
  <2>3. CASE UNCHANGED <<held, blocks>>
    BY <1>0, <2>1, <2>3 DEF BlocksTyped
  <2> QED
    BY <1>4, <2>2, <2>3 DEF libc_op
<1>5. CASE begin_libc_speed
  BY <1>0, <1>5 DEF begin_libc_speed, BlocksTyped
<1>6. CASE end_libc_speed
  <2>1. UNCHANGED <<total_size, max_total_size, heapsize>>
    BY <1>6 DEF end_libc_speed
  <2>2. \/ UNCHANGED <<blocks, block_sizes, held>>
        \/ Load(<< >>) /\ held' = NoBlocks
    BY <1>6 DEF end_libc_speed
  <2> QED
    BY <1>0, <1>b, <1>c, <2>1, <2>2 DEF BlocksTyped
<1>7. CASE read_trace
  <2>1. /\ UNCHANGED <<total_size, max_total_size>>
        /\ \E file \in Files : Load(file.ops)
        /\ UNCHANGED <<held, heapsize>> \/ Restart
    BY <1>7 DEF read_trace
  <2> QED
    BY <1>0, <1>b, <1>c, <2>1 DEF BlocksTyped, Restart
<1>8. CASE valid_alloc
  <2>1. /\ UNCHANGED <<total_size, max_total_size>>
        /\ pc = "valid" /\ i < Len(trace) /\ op.type = "a"
    BY <1>8 DEF valid_alloc
  <2>2. CASE UNCHANGED <<blocks, block_sizes, held, heapsize>>
    BY <1>0, <2>1, <2>2 DEF BlocksTyped
  <2>3. CASE \E p \in Addresses, grown \in heapsize .. MAX_HEAP :
               /\ heapsize' = grown
               /\ held' = Pkg!With(held, p, Filled(op))
               /\ Remember(op, p) \/ UNCHANGED <<blocks, block_sizes>>
    <3>1. PICK p \in Addresses, grown \in heapsize .. MAX_HEAP :
               /\ heapsize' = grown
               /\ held' = Pkg!With(held, p, Filled(op))
               /\ Remember(op, p) \/ UNCHANGED <<blocks, block_sizes>>
      BY <2>3
    <3>2. p \in Nat /\ heapsize' \in 0 .. MAX_HEAP
      BY <1>0, <3>1, AnswersAreNat
    <3>3. HeldOK(held')
      BY <1>0, <2>1, <3>1, <3>2, FillTyped
    <3>4. blocks' \in [Ids -> Nat] /\ block_sizes' \in [Ids -> Sizes \union {0}]
      BY <1>0, <2>1, <3>1, <3>2, RememberTyped
    <3> QED
      BY <1>0, <2>1, <3>2, <3>3, <3>4 DEF BlocksTyped
  <2> QED
    BY <1>8, <2>2, <2>3 DEF valid_alloc
<1>9. CASE valid_realloc
  <2>1. /\ UNCHANGED <<total_size, max_total_size>>
        /\ pc = "valid" /\ i < Len(trace) /\ op.type = "r"
    BY <1>9 DEF valid_realloc
  <2>2. CASE UNCHANGED <<blocks, block_sizes, held, heapsize>>
    BY <1>0, <2>1, <2>2 DEF BlocksTyped
  <2>3. CASE \E p \in Addresses, grown \in heapsize .. MAX_HEAP :
               /\ heapsize' = grown
               /\ held' = Pkg!With(Pkg!Without(held, blocks[op.index]), p, Filled(op))
               /\ Remember(op, p) \/ UNCHANGED <<blocks, block_sizes>>
    <3>1. PICK p \in Addresses, grown \in heapsize .. MAX_HEAP :
               /\ heapsize' = grown
               /\ held' = Pkg!With(Pkg!Without(held, blocks[op.index]), p, Filled(op))
               /\ Remember(op, p) \/ UNCHANGED <<blocks, block_sizes>>
      BY <2>3
    <3>2. p \in Nat /\ heapsize' \in 0 .. MAX_HEAP
      BY <1>0, <3>1, AnswersAreNat
    <3>3. HeldOK(Pkg!Without(held, blocks[op.index]))
      BY <1>0, HeldChanges
    <3>4. HeldOK(held')
      BY <1>0, <2>1, <3>1, <3>2, <3>3, FillTyped
    <3>5. blocks' \in [Ids -> Nat] /\ block_sizes' \in [Ids -> Sizes \union {0}]
      BY <1>0, <2>1, <3>1, <3>2, RememberTyped
    <3> QED
      BY <1>0, <2>1, <3>2, <3>4, <3>5 DEF BlocksTyped
  <2> QED
    BY <1>9, <2>2, <2>3 DEF valid_realloc
<1>10. CASE valid_free
  <2>1. /\ UNCHANGED <<blocks, block_sizes, total_size, max_total_size, heapsize>>
        /\ held' = Pkg!Without(held, blocks[op.index])
    BY <1>10 DEF valid_free
  <2> QED
    BY <1>0, <2>1, HeldChanges DEF BlocksTyped
<1>11. CASE begin_util
  <2>1. /\ UNCHANGED <<blocks, block_sizes>> /\ total_size' = 0 /\ max_total_size' = 0
        /\ UNCHANGED <<held, heapsize>> \/ Restart
    BY <1>11 DEF begin_util
  <2> QED
    BY <1>0, <1>b, <2>1 DEF BlocksTyped, Restart
<1>12. CASE util_op
  <2>1. pc = "util" /\ i < Len(trace)
    BY <1>12 DEF util_op
  <2>2. CASE Refuse /\ UNCHANGED <<block_sizes, total_size, max_total_size>>
    BY <1>0, <2>2 DEF Refuse, BlocksTyped
  <2>3. CASE Call /\ total_size' = total_size + Growth
    <3>0. /\ op.index \in Ids /\ op.type \in {"a", "r", "f"}
          /\ op.type # "f" => op.size \in Sizes /\ op.size \in Nat
      BY <1>0, <2>1, CurrentOp DEF Passes
    <3>1. HeldOK(held') /\ blocks' \in [Ids -> Nat] /\ heapsize' \in 0 .. MAX_HEAP
      BY <1>0, <2>1, <2>3, CallHeap DEF Passes
    <3>2. total_size' \in Int
      <4>1. block_sizes[op.index] \in Sizes \union {0} /\ total_size \in Int
        BY <1>0, <3>0 DEF BlocksTyped
      <4>2. block_sizes[op.index] \in Nat
        <5>1. \A x \in Sizes \union {0} : x \in Nat
          BY SizesPositive
        <5> QED
          BY <4>1, <5>1
      <4> QED
        BY <2>3, <3>0, <4>1, <4>2 DEF Growth
    <3>3. block_sizes' \in [Ids -> Sizes \union {0}]
      BY <1>0, <2>1, <1>12, <3>0 DEF util_op, BlocksTyped, Refuse
    <3>4. max_total_size' \in Nat
      <4>1. max_total_size \in Nat
        BY <1>0 DEF BlocksTyped
      <4>2. \/ max_total_size' = max_total_size
            \/ max_total_size' = Larger(total_size', max_total_size)
        BY <1>12 DEF util_op, Refuse
      <4> QED
        BY <3>2, <4>1, <4>2 DEF Larger
    <3> QED
      BY <3>1, <3>2, <3>3, <3>4 DEF BlocksTyped
  <2> QED
    BY <1>12, <2>2, <2>3 DEF util_op, Refuse
<1>13. CASE begin_speed
  <2>1. /\ UNCHANGED <<blocks, block_sizes, total_size, max_total_size>>
        /\ UNCHANGED <<held, heapsize>> \/ Restart
    BY <1>13 DEF begin_speed
  <2> QED
    BY <1>0, <1>b, <2>1 DEF BlocksTyped, Restart
<1>14. CASE speed_op
  <2>1. pc = "speed" /\ i < Len(trace)
        /\ UNCHANGED <<block_sizes, total_size, max_total_size>>
    BY <1>14 DEF speed_op, Refuse
  <2>2. CASE Refuse
    BY <1>0, <2>1, <2>2 DEF Refuse, BlocksTyped
  <2>3. CASE Call
    <3>1. HeldOK(held') /\ blocks' \in [Ids -> Nat] /\ heapsize' \in 0 .. MAX_HEAP
      BY <1>0, <2>1, <2>3, CallHeap DEF Passes
    <3> QED
      BY <1>0, <2>1, <3>1 DEF BlocksTyped
  <2> QED
    BY <1>14, <2>2, <2>3 DEF speed_op
<1>15. CASE end_speed
  <2>1. /\ UNCHANGED <<blocks, block_sizes, total_size, max_total_size>>
        /\ UNCHANGED <<held, heapsize>> \/ Restart
    BY <1>15 DEF end_speed
  <2> QED
    BY <1>0, <1>b, <2>1 DEF BlocksTyped, Restart
<1>16. CASE finished
  BY <1>0, <1>16 DEF finished, vars, BlocksTyped
<1> QED
  BY <1>1, <1>2, <1>3, <1>4, <1>5, <1>6, <1>7, <1>8, <1>9, <1>10, <1>11, <1>12, <1>13,
     <1>14, <1>15, <1>16 DEF Next
-----------------------------------------------------------------------------
\* The range list, whatever the package answers.

LEMMA AcceptedSplitNext ==
  AcceptedRanges' <=> (Accepted(ranges) /\ (pc = "valid" => Below(ranges, heapsize)))'
BY AcceptedSplit, PTL

LEMMA RangesOKNext ==
  RangesOK' <=> /\ ranges' \in Seq(Extent) /\ Accepted(ranges')
                /\ pc' = "valid" => Below(ranges', heapsize')
BY AcceptedSplitNext DEF RangesOK, Accepted, Below

LEMMA BelowMore ==
  ASSUME NEW rs \in Seq(Extent), NEW small \in Nat, Below(rs, small), NEW large \in Nat, small <= large
  PROVE  Below(rs, large)
<1>0. \A k \in DOMAIN rs : rs[k] \in Extent
  BY LenProperties, ElementOfSeq
<1>1. \A k \in DOMAIN rs : rs[k].hi \in Nat
  BY <1>0 DEF Extent
<1>2. Lo \in Nat
  BY DriverAssumption
<1> QED
  BY <1>1, <1>2 DEF Below

\* What add_range accepts is in the heap, aligned, and does not begin or end
\* inside an older range.
LEMMA RangesNext ==
  ASSUME Sound, Next
  PROVE  RangesOK'
<1>0. /\ TraceOK /\ ranges \in Seq(Extent) /\ Accepted(ranges)
      /\ pc = "valid" => Below(ranges, heapsize)
      /\ heapsize \in 0 .. MAX_HEAP /\ MAX_HEAP \in Nat
  BY SoundParts, AcceptedSplit, DriverAssumption DEF RangesOK, BlocksOK
<1> USE RangesOKNext
<1>1. CASE UNCHANGED ranges /\ (pc' = "valid" => pc = "valid" /\ UNCHANGED heapsize)
  BY <1>0, <1>1
<1>2. CASE option \/ start
  BY <1>1, <1>2 DEF option, start
<1>3. CASE libc_read \/ libc_op \/ begin_libc_speed \/ end_libc_speed
  BY <1>1, <1>3 DEF libc_read, libc_op, begin_libc_speed, end_libc_speed
<1>4. CASE read_trace
  <2>1. CASE ranges' = << >>
    <3>1. << >> \in Seq(Extent) /\ DOMAIN << >> = {}
      BY EmptySeq
    <3> QED
      BY <2>1, <3>1 DEF Accepted, Below
  <2>2. CASE UNCHANGED ranges /\ pc' = "exit"
    BY <1>1, <2>2
  <2> QED
    BY <1>4, <2>1, <2>2 DEF read_trace, Exit
<1>5. CASE valid_alloc
  <2>1. pc = "valid" /\ i < Len(trace) /\ op.type = "a"
    BY <1>5 DEF valid_alloc
  <2>2. CASE UNCHANGED ranges /\ pc' # "valid"
    BY <1>1, <2>2
  <2>3. CASE \E p \in Addresses, grown \in heapsize .. MAX_HEAP :
               /\ heapsize' = grown /\ range_ok(ranges, p, op.size, grown)
               /\ ranges' = add_range(ranges, p, op.size)
    <3>1. PICK p \in Addresses, grown \in heapsize .. MAX_HEAP :
               /\ heapsize' = grown /\ range_ok(ranges, p, op.size, grown)
               /\ ranges' = add_range(ranges, p, op.size)
      BY <2>3
    <3>2. p \in Nat /\ op.size \in Nat \ {0} /\ grown \in Nat /\ heapsize <= grown /\ heapsize \in Nat
      BY <1>0, <2>1, AnswersAreNat, CurrentOp DEF Passes
    <3>3. Below(ranges, grown)
      BY <1>0, <2>1, <3>2, BelowMore
    <3> QED
      BY <1>0, <3>1, <3>2, <3>3, AcceptedAdd
  <2> QED
    BY <1>5, <2>2, <2>3 DEF valid_alloc, Invalid, EndTrace
<1>6. CASE valid_realloc
  <2>1. pc = "valid" /\ i < Len(trace) /\ op.type = "r"
    BY <1>6 DEF valid_realloc
  <2> DEFINE rest == remove_range(ranges, blocks[op.index])
  <2>2. /\ rest \in Seq(Extent) /\ Accepted(rest)
        /\ \A grown : Below(ranges, grown) => Below(rest, grown)
    BY <1>0, AcceptedRemove
  <2>3. CASE UNCHANGED ranges /\ pc' # "valid"
    BY <1>1, <2>3
  <2>4. CASE ranges' = rest /\ pc' # "valid"
    BY <2>2, <2>4
  <2>5. CASE \E p \in Addresses, grown \in heapsize .. MAX_HEAP :
               /\ heapsize' = grown /\ range_ok(rest, p, op.size, grown)
               /\ ranges' = add_range(rest, p, op.size)
    <3>1. PICK p \in Addresses, grown \in heapsize .. MAX_HEAP :
               /\ heapsize' = grown /\ range_ok(rest, p, op.size, grown)
               /\ ranges' = add_range(rest, p, op.size)
      BY <2>5
    <3>2. p \in Nat /\ op.size \in Nat \ {0} /\ grown \in Nat /\ heapsize <= grown /\ heapsize \in Nat
      BY <1>0, <2>1, AnswersAreNat, CurrentOp DEF Passes
    <3>3. Below(ranges, grown)
      BY <1>0, <2>1, <3>2, BelowMore
    <3> HIDE DEF rest
    <3> QED
      BY <2>2, <3>1, <3>2, <3>3, AcceptedAdd
  <2> QED
    BY <1>6, <2>3, <2>4, <2>5 DEF valid_realloc, Invalid, EndTrace
<1>7. CASE valid_free
  <2> DEFINE rest == remove_range(ranges, blocks[op.index])
  <2>1. /\ rest \in Seq(Extent) /\ Accepted(rest)
        /\ \A grown : Below(ranges, grown) => Below(rest, grown)
    BY <1>0, AcceptedRemove
  <2>2. ranges' = rest /\ UNCHANGED heapsize /\ pc = "valid"
    BY <1>7 DEF valid_free
  <2> QED
    BY <1>0, <2>1, <2>2
<1>8. CASE begin_util \/ util_op \/ begin_speed \/ speed_op
  BY <1>1, <1>8 DEF begin_util, util_op, begin_speed, speed_op, Refuse, Call, Exit
<1>9. CASE end_speed
  BY <1>1, <1>9 DEF end_speed, Exit, EndTrace
<1>10. CASE finished
  BY <1>1, <1>10 DEF finished, vars
<1> QED
  BY <1>2, <1>3, <1>4, <1>5, <1>6, <1>7, <1>8, <1>9, <1>10 DEF Next
-----------------------------------------------------------------------------
\* What holds whatever the package answers.

LEMMA SoundInit == Init => Sound
<1> SUFFICES ASSUME Init
             PROVE  Sound
  OBVIOUS
<1>1. DOMAIN << >> = {} /\ << >> \in Seq(Extent) /\ << >> \in Seq(OpType)
      /\ << >> \in Seq(BOOLEAN) /\ Len(<< >>) = 0
  BY EmptySeq
<1>2. MainOK
  BY DriverAssumption DEF Init, MainOK, NoOptions, FileOptionWins, LibcPasses, Passes
<1>3. TraceOK
  <2>1. trace = << >> /\ i = 0 /\ pc = "options" /\ refused = FALSE /\ lost = FALSE
    BY DEF Init
  <2>2. i \in 0 .. Len(trace)
    BY <1>1, <2>1
  <2> QED
    BY <1>1, <2>1, <2>2 DEF TraceOK, Readable, LibcPasses, Passes
<1>4. ResultsOK
  BY <1>1, BadEmpty DEF Init, ResultsOK, ErrorsAreInvalidTraces, Bad, Passes
<1>5. BlocksOK
  <2>1. BlocksTyped
    BY DriverAssumption DEF Init, BlocksTyped, NULL
  <2>2. HeldOK(held)
    BY HeldChanges DEF Init
  <2> QED
    BY <2>1, <2>2, BlocksSplit
<1>6. RangesOK
  BY <1>1 DEF Init, RangesOK, AcceptedRanges
<1> QED
  BY <1>2, <1>3, <1>4, <1>5, <1>6, SoundParts

LEMMA SoundNext == Sound /\ [Next]_vars => Sound'
<1>1. ASSUME Sound, Next
      PROVE  Sound'
  BY <1>1, MainNext, TraceNext, ResultsNext, BlocksNext, RangesNext, SoundPartsNext
<1>2. ASSUME Sound, UNCHANGED vars
      PROVE  Sound'
  <2>1. MainOK' /\ TraceOK' /\ ResultsOK' /\ BlocksOK' /\ RangesOK'
    BY <1>2, SoundParts
    DEF vars, main_vars, MainOK, TraceOK, ResultsOK, BlocksOK, RangesOK, FileOptionWins,
        Readable, ErrorsAreInvalidTraces, HeldTyped, AcceptedRanges, mem_heap_hi
  <2> QED
    BY <2>1, SoundPartsNext
<1> QED
  BY <1>1, <1>2

\* Whatever the package answers, the driver's own state is as it should be.
THEOREM AlwaysSound == Spec => []Sound
BY SoundInit, SoundNext, PTL DEF Spec

\* The driver's state is well typed, and counts of results and of errors stay
\* within the number of traces.
THEOREM DriverTypes == Spec => []TypeOK
<1>1. Sound => TypeOK
  BY DEF Sound
<1> QED
  BY <1>1, AlwaysSound, PTL

\* However often a pass is left in the middle, the errors counted are the
\* traces reported as invalid.
THEOREM ErrorsCounted == Spec => []ErrorsAreInvalidTraces
<1>1. Sound => ErrorsAreInvalidTraces
  BY DEF Sound
<1> QED
  BY <1>1, AlwaysSound, PTL

\* In whatever order the options come, -f decides which file is run.
THEOREM FileWins == Spec => []FileOptionWins
<1>1. Sound => FileOptionWins
  BY DEF Sound
<1> QED
  BY <1>1, AlwaysSound, PTL

\* What add_range guarantees of the answers of any package, for every heap
\* size and alignment.
THEOREM RangesAccepted == Spec => []AcceptedRanges
<1>1. Sound => AcceptedRanges
  BY DEF Sound
<1> QED
  BY <1>1, AlwaysSound, PTL
=============================================================================
