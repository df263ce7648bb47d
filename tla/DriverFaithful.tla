--------------------------- MODULE DriverFaithful ---------------------------
(***************************************************************************)
(* The driver on ordinary traces.  Whatever the package answers, the range *)
(* list is exact and lost data is found.  A package that keeps its         *)
(* promises sees no false alarm, no utilisation above 1 and no call that   *)
(* it does not expect.                                                     *)
(***************************************************************************)
EXTENDS DriverProofs

-----------------------------------------------------------------------------
\* Payloads that do not overlap.

\* A payload fits where none is.
LEMMA FitsFree ==
  ASSUME NEW h, HeldOK(h), NEW p \in Int, NEW size \in Nat \ {0}, Pkg!Fits(h, p, size)
  PROVE  p \notin DOMAIN h
<1>1. \A q \in DOMAIN h : q \in Nat /\ h[q].size \in Nat \ {0}
  BY SizesPositive DEF HeldOK
<1> QED
  BY <1>1 DEF Pkg!Fits

LEMMA LaidMore ==
  ASSUME NEW h, HeldOK(h), NEW size \in Nat, Laid(h, size), NEW grown \in Nat, size <= grown,
         NEW p \in Int, NEW what, what.size \in Sizes, Pkg!Fits(h, p, what.size),
         p + what.size <= Lo + grown,
         NEW w, w = Pkg!With(h, p, what)
  PROVE  Laid(w, grown)
<1>0. Lo \in Nat /\ what.size \in Nat \ {0}
  BY SizesPositive, DriverAssumption
<1>1. \A q \in DOMAIN h : q \in Nat /\ h[q].size \in Nat \ {0}
  BY SizesPositive DEF HeldOK
<1>2. /\ DOMAIN w = DOMAIN h \union {p} /\ w[p] = what
      /\ \A q \in DOMAIN h \ {p} : w[q] = h[q]
  BY DEF Pkg!With
<1>3. p \notin DOMAIN h
  BY <1>0, FitsFree
<1>4. /\ p % ALIGNMENT = 0 /\ Lo <= p
      /\ \A q \in DOMAIN h : p + what.size <= q \/ q + h[q].size <= p
  BY DEF Pkg!Fits
<1>5. \A q \in DOMAIN w : q % ALIGNMENT = 0 /\ Lo <= q /\ q + w[q].size <= Lo + grown
  BY <1>0, <1>1, <1>2, <1>3, <1>4 DEF Laid
<1>6. ASSUME NEW q \in DOMAIN w, NEW r \in DOMAIN w, q < r
      PROVE  q + w[q].size <= r
  <2>1. CASE q = p
    BY <1>0, <1>1, <1>2, <1>3, <1>4, <1>6, <2>1
  <2>2. CASE q # p /\ r = p
    BY <1>0, <1>1, <1>2, <1>3, <1>4, <1>6, <2>2
  <2>3. CASE q # p /\ r # p
    BY <1>2, <1>6, <2>3 DEF Laid
  <2> QED
    BY <2>1, <2>2, <2>3
<1> QED
  BY <1>5, <1>6 DEF Laid

LEMMA LaidLess ==
  ASSUME NEW h, NEW size, Laid(h, size), NEW p, NEW w, w = Pkg!Without(h, p)
  PROVE  Laid(w, size)
<1>1. DOMAIN w = DOMAIN h \ {p} /\ \A q \in DOMAIN w : w[q] = h[q]
  BY DEF Pkg!Without
<1> QED
  BY <1>1 DEF Laid
-----------------------------------------------------------------------------
\* The bytes in use.

\* A payload of size bytes has size bytes.
LEMMA PayloadBytes ==
  ASSUME NEW p \in Int, NEW size \in Nat \ {0}
  PROVE  IsFiniteSet(p .. (p + size - 1)) /\ Cardinality(p .. (p + size - 1)) = size
<1>1. p + size - 1 \in Int /\ ~(p > p + size - 1) /\ (p + size - 1) - p + 1 = size
  OBVIOUS
<1> DEFINE q == p + size - 1
<1>2. q \in Int /\ ~(p > q) /\ q - p + 1 = size
  BY <1>1
<1> HIDE DEF q
<1>3. IsFiniteSet(p .. q) /\ Cardinality(p .. q) = IF p > q THEN 0 ELSE q - p + 1
  BY <1>2, FS_Interval
<1>4. IsFiniteSet(p .. q) /\ Cardinality(p .. q) = size
  BY <1>2, <1>3
<1> QED
  BY <1>4 DEF q

\* There are no more bytes in use than the heap has.
LEMMA BytesBound ==
  ASSUME NEW h, HeldOK(h), NEW size \in Nat, Laid(h, size)
  PROVE  /\ IsFiniteSet(Bytes(h))
         /\ Cardinality(Bytes(h)) \in Nat /\ Cardinality(Bytes(h)) <= size
<1>0. Lo \in Nat
  BY DriverAssumption
<1>1. \A q \in DOMAIN h : q \in Nat /\ h[q].size \in Nat \ {0} /\ Lo <= q /\ q + h[q].size <= Lo + size
  BY SizesPositive DEF HeldOK, Laid
<1>2. Bytes(h) \subseteq Lo .. (Lo + size - 1)
  <2>1. ASSUME NEW x \in Bytes(h)
        PROVE  x \in Lo .. (Lo + size - 1)
    <3>1. PICK q \in DOMAIN h : x \in q .. (q + h[q].size - 1)
      BY DEF Bytes
    <3> QED
      BY <1>0, <1>1, <3>1
  <2> QED
    BY <2>1
<1>3. IsFiniteSet(Lo .. (Lo + size - 1)) /\ Cardinality(Lo .. (Lo + size - 1)) <= size
  <2> DEFINE hi == Lo + size - 1
  <2>1. hi \in Int /\ (Lo > hi => size = 0) /\ hi - Lo + 1 = size
    BY <1>0
  <2> HIDE DEF hi
  <2>2. IsFiniteSet(Lo .. hi) /\ Cardinality(Lo .. hi) = IF Lo > hi THEN 0 ELSE hi - Lo + 1
    BY <1>0, <2>1, FS_Interval
  <2>3. IsFiniteSet(Lo .. hi) /\ Cardinality(Lo .. hi) <= size
    BY <2>1, <2>2
  <2> QED
    BY <2>3 DEF hi
<1>4. IsFiniteSet(Bytes(h)) /\ Cardinality(Bytes(h)) <= Cardinality(Lo .. (Lo + size - 1))
  BY <1>2, <1>3, FS_Subset
<1> QED
  BY <1>3, <1>4, FS_CardinalityType

\* Two sets of bytes that do not meet.
LEMMA DisjointUnion ==
  ASSUME NEW S, IsFiniteSet(S), NEW T, IsFiniteSet(T), S \intersect T = {}
  PROVE  Cardinality(S \union T) = Cardinality(S) + Cardinality(T)
<1>1. Cardinality(S \union T) = Cardinality(S) + Cardinality(T) - Cardinality(S \intersect T)
  BY FS_Union
<1>2. Cardinality(S \intersect T) = 0
  BY FS_EmptySet
<1>3. Cardinality(S) \in Nat /\ Cardinality(T) \in Nat
  BY FS_CardinalityType
<1> QED
  BY <1>1, <1>2, <1>3

\* A payload more means its bytes more.
LEMMA BytesMore ==
  ASSUME NEW h, HeldOK(h), NEW size \in Nat, Laid(h, size),
         NEW p \in Int, NEW what, what.size \in Sizes, Pkg!Fits(h, p, what.size),
         NEW w, w = Pkg!With(h, p, what)
  PROVE  Cardinality(Bytes(w)) = Cardinality(Bytes(h)) + what.size
<1> DEFINE T == p .. (p + what.size - 1)
<1>0. what.size \in Nat \ {0}
  BY SizesPositive
<1>1. /\ DOMAIN w = DOMAIN h \union {p} /\ w[p] = what
      /\ \A q \in DOMAIN h \ {p} : w[q] = h[q]
  BY DEF Pkg!With
<1>2. p \notin DOMAIN h
  BY <1>0, FitsFree
<1>3. IsFiniteSet(Bytes(h))
  BY BytesBound
<1>4. IsFiniteSet(T) /\ Cardinality(T) = what.size
  BY <1>0, PayloadBytes
<1>5. Bytes(w) = Bytes(h) \union T
  BY <1>1, <1>2 DEF Bytes
<1>6. Bytes(h) \intersect T = {}
  <2>1. \A q \in DOMAIN h : q \in Nat /\ h[q].size \in Nat \ {0}
    BY SizesPositive DEF HeldOK
  <2>2. \A q \in DOMAIN h : p + what.size <= q \/ q + h[q].size <= p
    BY DEF Pkg!Fits
  <2> QED
    BY <1>0, <2>1, <2>2 DEF Bytes
<1> HIDE DEF T
<1> QED
  BY <1>3, <1>4, <1>5, <1>6, DisjointUnion

\* A payload less means its bytes less.
LEMMA BytesLess ==
  ASSUME NEW h, HeldOK(h), NEW size \in Nat, Laid(h, size),
         NEW p \in DOMAIN h, NEW n, n = h[p].size, NEW w, w = Pkg!Without(h, p)
  PROVE  Cardinality(Bytes(h)) = Cardinality(Bytes(w)) + n
<1> DEFINE T == p .. (p + n - 1)
<1>a. n \in Nat \ {0} /\ p \in Nat
  BY SizesPositive DEF HeldOK
<1>0. n \in Nat \ {0} /\ p \in Nat /\ p \in Int
  BY <1>a
<1>1. DOMAIN w = DOMAIN h \ {p} /\ \A q \in DOMAIN w : w[q] = h[q]
  BY DEF Pkg!Without
<1>2. IsFiniteSet(Bytes(w))
  BY HeldLess, LaidLess, BytesBound
<1>3. IsFiniteSet(T) /\ Cardinality(T) = n
  BY <1>0, PayloadBytes
<1>4. Bytes(h) = Bytes(w) \union T
  BY <1>1 DEF Bytes
<1>5. Bytes(w) \intersect T = {}
  <2>1. \A q \in DOMAIN w : q \in Nat /\ w[q].size \in Nat \ {0} /\ q # p
    BY <1>1, SizesPositive DEF HeldOK
  <2>2. \A q \in DOMAIN w : p + n <= q \/ q + w[q].size <= p
    BY <1>0, <1>1, <2>1 DEF Laid
  <2> QED
    BY <1>0, <2>1, <2>2 DEF Bytes
<1> HIDE DEF T
<1> QED
  BY <1>2, <1>3, <1>4, <1>5, DisjointUnion

LEMMA BytesNone == Cardinality(Bytes(NoBlocks)) = 0 /\ \A size : Laid(NoBlocks, size)
<1>1. Bytes(NoBlocks) = {}
  BY DEF Bytes, NoBlocks
<1> QED
  BY <1>1, FS_EmptySet DEF Laid, NoBlocks
-----------------------------------------------------------------------------
\* The range list follows the payloads.

LEMMA CoversNone == Covers(<< >>, NoBlocks)
BY FS_EmptySet DEF Covers, NoBlocks

\* add_range after a payload has been obtained.
LEMMA CoversMore ==
  ASSUME NEW h, HeldOK(h), NEW rs \in Seq(Extent), Covers(rs, h),
         NEW p \in Nat, p \notin DOMAIN h, NEW size \in Nat \ {0},
         NEW what, what.size = size, NEW w, w = Pkg!With(h, p, what),
         NEW new, new = add_range(rs, p, size)
  PROVE  Covers(new, w)
<1>1. /\ new \in Seq(Extent) /\ Len(new) = Len(rs) + 1
      /\ new[1] = [lo |-> p, hi |-> p + size - 1]
      /\ \A k \in 1 .. Len(rs) : new[k + 1] = rs[k]
  BY AddRange
<1>2. /\ DOMAIN rs = 1 .. Len(rs) /\ Len(rs) \in Nat
      /\ DOMAIN new = 1 .. Len(rs) + 1
  BY <1>1, LenProperties
<1>3. \A k \in DOMAIN new : k = 1 \/ \E j \in DOMAIN rs : k = j + 1 /\ new[k] = rs[j]
  <2>1. ASSUME NEW k \in DOMAIN new, k # 1
        PROVE  \E j \in DOMAIN rs : k = j + 1 /\ new[k] = rs[j]
    <3>1. k - 1 \in 1 .. Len(rs) /\ k = (k - 1) + 1
      BY <2>1, <1>2
    <3> QED
      BY <3>1, <1>1, <1>2
  <2> QED
    BY <2>1
<1>4. /\ DOMAIN w = DOMAIN h \union {p} /\ w[p] = what
      /\ \A q \in DOMAIN h : w[q] = h[q]
  BY DEF Pkg!With
<1>5. /\ \A k \in DOMAIN rs : rs[k].lo \in DOMAIN h /\ rs[k].lo # p
                              /\ rs[k].hi - rs[k].lo + 1 = h[rs[k].lo].size
      /\ \A q \in DOMAIN h : \E k \in DOMAIN rs : rs[k].lo = q
      /\ \A j, k \in DOMAIN rs : rs[j].lo = rs[k].lo => j = k
      /\ Len(rs) = Cardinality(DOMAIN h)
  BY DEF Covers
<1>6. new[1].lo = p /\ new[1].hi - new[1].lo + 1 = size
  BY <1>1
<1>7. ASSUME NEW k \in DOMAIN new
      PROVE  new[k].lo \in DOMAIN w /\ new[k].hi - new[k].lo + 1 = w[new[k].lo].size
  <2>1. CASE k = 1
    BY <1>4, <1>6, <2>1
  <2>2. CASE k # 1
    BY <1>3, <1>4, <1>5, <2>2
  <2> QED
    BY <2>1, <2>2
<1>8. ASSUME NEW q \in DOMAIN w
      PROVE  \E k \in DOMAIN new : new[k].lo = q
  <2>1. CASE q = p
    <3>1. 1 \in DOMAIN new
      BY <1>2
    <3> QED
      BY <1>6, <2>1, <3>1
  <2>2. CASE q # p
    <3>1. PICK k \in DOMAIN rs : rs[k].lo = q
      BY <1>4, <1>5, <2>2
    <3>2. k + 1 \in DOMAIN new /\ new[k + 1] = rs[k]
      BY <1>1, <1>2
    <3> QED
      BY <3>1, <3>2
  <2> QED
    BY <2>1, <2>2
<1>9. ASSUME NEW j \in DOMAIN new, NEW k \in DOMAIN new, new[j].lo = new[k].lo
      PROVE  j = k
  BY <1>3, <1>5, <1>6, <1>9
<1>10. Len(new) = Cardinality(DOMAIN w)
  <2>1. Cardinality(DOMAIN h \union {p}) = Cardinality(DOMAIN h) + 1
    BY FS_AddElement DEF HeldOK
  <2> QED
    BY <1>1, <1>4, <1>5, <2>1
<1> QED
  BY <1>7, <1>8, <1>9, <1>10 DEF Covers

\* remove_range, when a payload is given back.
LEMMA CoversLess ==
  ASSUME NEW h, HeldOK(h), NEW rs \in Seq(Extent), Covers(rs, h),
         NEW p \in DOMAIN h, NEW w, w = Pkg!Without(h, p),
         NEW rest, rest = remove_range(rs, p)
  PROVE  rest \in Seq(Extent) /\ Covers(rest, w)
<1>1. /\ \A k \in DOMAIN rs : rs[k].lo \in DOMAIN h
                              /\ rs[k].hi - rs[k].lo + 1 = h[rs[k].lo].size
      /\ \A q \in DOMAIN h : \E k \in DOMAIN rs : rs[k].lo = q
      /\ \A j, k \in DOMAIN rs : rs[j].lo = rs[k].lo => j = k
      /\ Len(rs) = Cardinality(DOMAIN h)
  BY DEF Covers
<1>2. DOMAIN w = DOMAIN h \ {p} /\ \A q \in DOMAIN w : w[q] = h[q]
  BY DEF Pkg!Without
<1>3. rest \in Seq(Extent)
  BY RemoveRange
<1>4. ~ \A k \in DOMAIN rs : rs[k].lo # p
  BY <1>1
<1>5. PICK k \in DOMAIN rs :
        /\ rs[k].lo = p
        /\ Len(rest) = Len(rs) - 1
        /\ \A j \in 1 .. Len(rest) : rest[j] = rs[IF j < k THEN j ELSE j + 1]
  BY <1>4, RemoveRange
<1>6. /\ DOMAIN rs = 1 .. Len(rs) /\ Len(rs) \in Nat
      /\ DOMAIN rest = 1 .. Len(rest) /\ Len(rest) \in Nat
  BY <1>3, LenProperties
<1> DEFINE f(j) == IF j < k THEN j ELSE j + 1
<1>7. \A j \in DOMAIN rest : f(j) \in DOMAIN rs /\ f(j) # k /\ rest[j] = rs[f(j)]
  BY <1>5, <1>6
<1>8. \A j, l \in DOMAIN rest : f(j) = f(l) => j = l
  BY <1>5, <1>6
<1>9. \A m \in DOMAIN rs : m # k => \E j \in DOMAIN rest : f(j) = m
  <2>1. ASSUME NEW m \in DOMAIN rs, m # k
        PROVE  \E j \in DOMAIN rest : f(j) = m
    <3>1. CASE m < k
      <4>1. m \in DOMAIN rest /\ f(m) = m
        BY <1>5, <1>6, <3>1
      <4> QED
        BY <4>1
    <3>2. CASE m > k
      <4>1. m - 1 \in DOMAIN rest /\ f(m - 1) = m
        BY <1>5, <1>6, <3>2
      <4> QED
        BY <4>1
    <3> QED
      BY <1>6, <2>1, <3>1, <3>2
  <2> QED
    BY <2>1
<1> HIDE DEF f
<1>10. \A j \in DOMAIN rest : /\ rest[j].lo \in DOMAIN w
                              /\ rest[j].hi - rest[j].lo + 1 = w[rest[j].lo].size
  BY <1>1, <1>2, <1>5, <1>7
<1>11. \A q \in DOMAIN w : \E j \in DOMAIN rest : rest[j].lo = q
  <2>1. ASSUME NEW q \in DOMAIN w
        PROVE  \E j \in DOMAIN rest : rest[j].lo = q
    <3>1. PICK m \in DOMAIN rs : rs[m].lo = q
      BY <1>1, <1>2
    <3>2. m # k
      BY <1>2, <1>5, <3>1
    <3> QED
      BY <1>7, <1>9, <3>1, <3>2
  <2> QED
    BY <2>1
<1>12. \A j, l \in DOMAIN rest : rest[j].lo = rest[l].lo => j = l
  BY <1>1, <1>7, <1>8
<1>13. Len(rest) = Cardinality(DOMAIN w)
  <2>1. Cardinality(DOMAIN h \ {p}) = Cardinality(DOMAIN h) - 1
    BY FS_RemoveElement DEF HeldOK
  <2> QED
    BY <1>1, <1>2, <1>5, <2>1
<1> QED
  BY <1>3, <1>10, <1>11, <1>12, <1>13 DEF Covers

\* add_range accepts a payload that fits.
LEMMA RangeOk ==
  ASSUME NEW h, HeldOK(h), NEW rs \in Seq(Extent), Covers(rs, h),
         NEW p \in Nat, NEW size \in Nat \ {0}, Pkg!Fits(h, p, size),
         NEW grown \in Nat, p + size <= Lo + grown
  PROVE  range_ok(rs, p, size, grown)
<1>0. Lo \in Nat
  BY DriverAssumption
<1>1. \A q \in DOMAIN h : q \in Nat /\ h[q].size \in Nat \ {0}
  BY SizesPositive DEF HeldOK
<1>2. /\ p % ALIGNMENT = 0 /\ Lo <= p
      /\ \A q \in DOMAIN h : p + size <= q \/ q + h[q].size <= p
  BY DEF Pkg!Fits
<1>3. ASSUME NEW k \in DOMAIN rs
      PROVE  ~ \/ p >= rs[k].lo /\ p <= rs[k].hi
               \/ p + size - 1 >= rs[k].lo /\ p + size - 1 <= rs[k].hi
  <2>1. rs[k].lo \in Nat /\ rs[k].hi \in Nat
    <3>1. rs[k] \in Extent
      BY ElementOfSeq, LenProperties
    <3> QED
      BY <3>1 DEF Extent
  <2>a. PICK q \in DOMAIN h : rs[k].lo = q /\ rs[k].hi - q + 1 = h[q].size
    BY DEF Covers
  <2>b. PICK n : n = h[q].size
    OBVIOUS
  <2>2. /\ q \in Nat /\ n \in Nat \ {0}
        /\ rs[k].lo = q /\ rs[k].hi - q + 1 = n
        /\ (p + size <= q \/ q + n <= p)
    BY <1>1, <1>2, <2>a, <2>b
  <2> QED
    BY <2>1, <2>2
<1> QED
  BY <1>0, <1>2, <1>3 DEF range_ok

\* add_range rejects a payload that starts where another one does.
LEMMA NotListed ==
  ASSUME NEW h, HeldOK(h), NEW rs \in Seq(Extent), Covers(rs, h),
         NEW p \in Nat, NEW size, NEW grown, range_ok(rs, p, size, grown)
  PROVE  p \notin DOMAIN h
<1> SUFFICES ASSUME p \in DOMAIN h
             PROVE  FALSE
  OBVIOUS
<1>1. PICK k \in DOMAIN rs : rs[k].lo = p
  BY DEF Covers
<1>2. rs[k].lo \in Nat /\ rs[k].hi \in Nat
  <2>1. rs[k] \in Extent
    BY ElementOfSeq, LenProperties
  <2> QED
    BY <2>1 DEF Extent
<1>3. rs[k].hi - rs[k].lo + 1 = h[p].size /\ h[p].size \in Nat \ {0}
  BY <1>1, SizesPositive DEF Covers, HeldOK
<1>4. p >= rs[k].lo /\ p <= rs[k].hi
  BY <1>1, <1>2, <1>3
<1> QED
  BY <1>4 DEF range_ok

\* A list that covers the payloads is RangesExact's list of them.
LEMMA CoversExact ==
  ASSUME Covers(ranges, held)
  PROVE  /\ {<<ranges[k].lo, ranges[k].hi - ranges[k].lo + 1>> : k \in DOMAIN ranges}
              = {<<p, held[p].size>> : p \in DOMAIN held}
         /\ Len(ranges) = Cardinality(DOMAIN held)
<1>1. \A k \in DOMAIN ranges : /\ ranges[k].lo \in DOMAIN held
                               /\ ranges[k].hi - ranges[k].lo + 1 = held[ranges[k].lo].size
  BY DEF Covers
<1>2. \A p \in DOMAIN held : \E k \in DOMAIN ranges : ranges[k].lo = p
  BY DEF Covers
<1>3. Len(ranges) = Cardinality(DOMAIN held)
  BY DEF Covers
<1> QED
  BY <1>1, <1>2, <1>3
-----------------------------------------------------------------------------
\* The ids that are allocated, and the payloads they name.

\* What a well-formed trace says of the current request.
LEMMA OrdinaryOp ==
  ASSUME TraceOK, pc \in LibcPasses \union Passes, i < Len(trace), WellFormed(trace)
  PROVE  /\ op.type = "a" <=> ~\E j \in 1 .. i : trace[j].index = op.index /\ trace[j].type = "a"
         /\ \A j \in 1 .. i : ~(trace[j].index = op.index /\ trace[j].type = "f")
<1>1. i \in Nat /\ i + 1 \in DOMAIN trace /\ (i + 1) - 1 = i
  <2>1. Len(trace) \in Nat /\ DOMAIN trace = 1 .. Len(trace)
    BY LenProperties DEF TraceOK, Readable
  <2> QED
    BY <2>1, CurrentOp
<1> DEFINE before(k, types) == \E j \in 1 .. (k - 1) :
                                 trace[j].index = trace[k].index /\ trace[j].type \in types
<1>2. \A k \in DOMAIN trace : /\ trace[k].type = "a" <=> ~before(k, {"a"})
                              /\ ~before(k, {"f"})
  BY DEF WellFormed
<1>3. /\ trace[i + 1].type = "a" <=> ~before(i + 1, {"a"})
      /\ ~before(i + 1, {"f"})
  BY <1>1, <1>2
<1> QED
  BY <1>1, <1>3 DEF op

\* How the current request changes the set of allocated ids.
LEMMA AliveStep ==
  ASSUME TraceOK, pc \in LibcPasses \union Passes, i < Len(trace), WellFormed(trace),
         UNCHANGED trace, i' = i + 1
  PROVE  /\ Alive \subseteq Ids
         /\ op.type = "a" => op.index \notin Alive /\ Alive' = Alive \union {op.index}
         /\ op.type = "r" => op.index \in Alive /\ Alive' = Alive
         /\ op.type = "f" => op.index \in Alive /\ Alive' = Alive \ {op.index}
<1>1. op.index \in Ids /\ op.type \in {"a", "r", "f"} /\ i \in Nat
  BY CurrentOp
<1>2. op.type = "a" <=> ~\E j \in 1 .. i : trace[j].index = op.index /\ trace[j].type = "a"
  BY OrdinaryOp
<1>3. \A j \in 1 .. i : ~(trace[j].index = op.index /\ trace[j].type = "f")
  BY OrdinaryOp
<1> DEFINE Had(d, n, type) == \E j \in 1 .. n : trace[j].index = d /\ trace[j].type = type
<1>4. \A d \in Ids : d \in Alive <=> Had(d, i, "a") /\ ~Had(d, i, "f")
  BY DEF Alive
<1>5. \A d \in Ids : d \in Alive' <=> Had(d, i + 1, "a") /\ ~Had(d, i + 1, "f")
  BY DEF Alive
<1>6. \A d, type : Had(d, i + 1, type) <=> Had(d, i, type) \/ (op.index = d /\ op.type = type)
  <2>1. 1 .. (i + 1) = (1 .. i) \union {i + 1}
    BY <1>1
  <2> QED
    BY <2>1 DEF op
<1>7. (op.type = "a" <=> ~Had(op.index, i, "a")) /\ ~Had(op.index, i, "f")
  BY <1>2, <1>3
<1>8. Alive \subseteq Ids /\ Alive' \subseteq Ids
  BY DEF Alive
<1> HIDE DEF Had
<1>9. CASE op.type = "a"
  <2>1. \A d \in Ids : d \in Alive' <=> d \in Alive \/ d = op.index
    BY <1>4, <1>5, <1>6, <1>7, <1>9
  <2> QED
    BY <1>1, <1>4, <1>7, <1>8, <1>9, <2>1
<1>10. CASE op.type = "r"
  <2>1. \A d \in Ids : d \in Alive' <=> d \in Alive
    BY <1>4, <1>5, <1>6, <1>7, <1>10
  <2> QED
    BY <1>1, <1>4, <1>7, <1>8, <1>10, <2>1
<1>11. CASE op.type = "f"
  <2>1. \A d \in Ids : d \in Alive' <=> d \in Alive /\ d # op.index
    BY <1>4, <1>5, <1>6, <1>7, <1>11
  <2> QED
    BY <1>1, <1>4, <1>7, <1>8, <1>11, <2>1
<1> QED
  BY <1>1, <1>8, <1>9, <1>10, <1>11

\* No id is allocated before the first request.
LEMMA AliveNone == ASSUME i = 0 PROVE Alive = {}
BY DEF Alive

LEMMA AliveNoneNext == i' = 0 => Alive' = {}
BY DEF Alive

\* Id x gives its payload back.
LEMMA NamedFree ==
  ASSUME NEW D, NEW bl, NEW h, Named(D, bl, h),
         NEW x \in D, NEW w, w = Pkg!Without(h, bl[x])
  PROVE  Named(D \ {x}, bl, w) /\ \A d \in D \ {x} : w[bl[d]] = h[bl[d]]
<1>1. DOMAIN w = DOMAIN h \ {bl[x]} /\ \A q \in DOMAIN w : w[q] = h[q]
  BY DEF Pkg!Without
<1>2. \A d \in D \ {x} : bl[d] \in DOMAIN w
  BY <1>1 DEF Named
<1> QED
  BY <1>1, <1>2 DEF Named
-----------------------------------------------------------------------------
\* The calls that the driver makes for the current request.

\* The pass goes on to the next request.
Serving == /\ TraceOK /\ BlocksOK
           /\ pc \in LibcPasses \union Passes /\ i < Len(trace) /\ WellFormed(trace)
           /\ Named(Alive, blocks, held)
           /\ UNCHANGED trace /\ i' = i + 1

LEMMA ServingFacts ==
  ASSUME Serving
  PROVE  /\ HeldOK(held) /\ HeldOK(InUse) /\ blocks \in [Ids -> Nat]
         /\ op.index \in Ids /\ op.type \in {"a", "r", "f"}
         /\ op.type # "f" => op.size \in Sizes /\ op.size \in Nat \ {0}
         /\ op.type # "a" => op.index \in Alive /\ blocks[op.index] \in DOMAIN held
         /\ op.type = "a" => InUse = held
         /\ op.type = "r" => InUse = Pkg!Without(held, blocks[op.index])
<1>1. HeldOK(held) /\ HeldOK(InUse) /\ blocks \in [Ids -> Nat]
  BY CallTyped, HeldChanges DEF Serving, BlocksOK
<1>2. /\ op.index \in Ids /\ op.type \in {"a", "r", "f"}
      /\ op.type # "f" => op.size \in Sizes /\ op.size \in Nat \ {0}
  BY CurrentOp DEF Serving
<1>3. op.type # "a" => op.index \in Alive
  BY <1>2, AliveStep DEF Serving
<1>4. op.type # "a" => blocks[op.index] \in DOMAIN held
  BY <1>3 DEF Serving, Named
<1> QED
  BY <1>1, <1>2, <1>3, <1>4 DEF InUse

\* The payload of the request is given back.
LEMMA FreeNamed ==
  ASSUME Serving, op.type = "f", held' = Pkg!Without(held, blocks[op.index]), UNCHANGED blocks
  PROVE  /\ Named(Alive', blocks', held')
         /\ \A d \in Alive' : d \in Alive /\ held'[blocks'[d]] = held[blocks[d]]
<1>1. op.index \in Alive /\ Alive' = Alive \ {op.index}
  BY AliveStep DEF Serving
<1>2. /\ Named(Alive \ {op.index}, blocks, held')
      /\ \A d \in Alive \ {op.index} : held'[blocks[d]] = held[blocks[d]]
  <2> DEFINE D == Alive
             x == op.index
             w == held'
  <2>1. x \in D /\ w = Pkg!Without(held, blocks[x]) /\ Named(D, blocks, held)
    BY <1>1 DEF Serving
  <2> HIDE DEF D, x, w
  <2>2. Named(D \ {x}, blocks, w) /\ \A d \in D \ {x} : w[blocks[d]] = held[blocks[d]]
    BY <2>1, NamedFree
  <2> QED
    BY <2>2 DEF D, x, w
<1> QED
  BY <1>1, <1>2 DEF Named

\* The request is answered with p, which gets the contents what.
Answered(p, what) ==
  /\ op.type \in {"a", "r"} /\ p \notin DOMAIN InUse
  /\ held' = Pkg!With(InUse, p, what) /\ blocks' = [blocks EXCEPT ![op.index] = p]

LEMMA AnswerNamed ==
  ASSUME Serving, NEW p, NEW what, Answered(p, what)
  PROVE  /\ Named(Alive', blocks', held')
         /\ blocks'[op.index] = p /\ held'[p] = what
         /\ \A d \in Alive' : d # op.index => /\ d \in Alive /\ blocks'[d] = blocks[d]
                                              /\ held'[blocks[d]] = held[blocks[d]]
<1> DEFINE x == op.index
           D == Alive \ {x}
           g == InUse
           bl2 == blocks'
           w == held'
<1>1. /\ Alive \subseteq Ids /\ x \in Ids /\ blocks \in [Ids -> Nat]
      /\ Named(Alive, blocks, held) /\ Alive' = D \union {x}
  BY ServingFacts, AliveStep DEF Serving, Answered
<1>2. Named(D, blocks, g) /\ \A d \in D : g[blocks[d]] = held[blocks[d]]
  <2>1. CASE op.type = "a"
    <3>1. g = held /\ D = Alive
      BY <2>1, ServingFacts, AliveStep DEF Serving
    <3> QED
      BY <1>1, <3>1
  <2>2. CASE op.type = "r"
    <3>1. g = Pkg!Without(held, blocks[x]) /\ x \in Alive /\ D = Alive \ {x}
      BY <2>2, ServingFacts
    <3> HIDE DEF g, x
    <3>2. DOMAIN g = DOMAIN held \ {blocks[x]} /\ \A q \in DOMAIN g : g[q] = held[q]
      BY <3>1 DEF Pkg!Without
    <3>3. \A d \in D : blocks[d] \in DOMAIN g
      BY <1>1, <3>1, <3>2 DEF Named
    <3> QED
      BY <1>1, <3>2, <3>3 DEF Named
  <2> QED
    BY <2>1, <2>2 DEF Answered
<1>3. /\ D \subseteq Ids /\ x \notin D /\ p \notin DOMAIN g
      /\ w = Pkg!With(g, p, what) /\ bl2[x] = p /\ \A d \in D : bl2[d] = blocks[d]
  BY <1>1 DEF Answered
<1> HIDE DEF x, D, g, bl2, w
<1>4. /\ Named(D \union {x}, bl2, w) /\ w[p] = what
      /\ \A d \in D : w[blocks[d]] = g[blocks[d]]
  <2>1. DOMAIN w = DOMAIN g \union {p} /\ w[p] = what /\ \A q \in DOMAIN g : w[q] = g[q]
    BY <1>3 DEF Pkg!With
  <2>2. \A d \in D : bl2[d] \in DOMAIN w /\ w[blocks[d]] = g[blocks[d]] /\ bl2[d] # p
    BY <1>2, <1>3, <2>1 DEF Named
  <2>3. \A d, e \in D \union {x} : bl2[d] = bl2[e] => d = e
    BY <1>2, <1>3, <2>2 DEF Named
  <2>4. \A d \in D \union {x} : bl2[d] \in DOMAIN w
    BY <1>3, <2>1, <2>2
  <2> QED
    BY <2>1, <2>2, <2>3, <2>4 DEF Named
<1>5. \A d \in Alive' : d # x => /\ d \in Alive /\ bl2[d] = blocks[d]
                                 /\ w[blocks[d]] = held[blocks[d]]
  BY <1>1, <1>2, <1>3, <1>4 DEF D
<1> QED
  BY <1>1, <1>3, <1>4, <1>5 DEF x, bl2, w

\* What a package that keeps its promises answers, and what that does to the
\* heap.
LEMMA AnswerFits ==
  ASSUME Serving, Faithful, Laid(held, heapsize), op.type \in {"a", "r"},
         NEW p \in Addresses, NEW grown \in heapsize .. MAX_HEAP,
         CanGrant(InUse, p, op.size, grown),
         NEW what, what.size = op.size, held' = Pkg!With(InUse, p, what)
  PROVE  /\ p \in Nat /\ p \notin DOMAIN InUse
         /\ grown \in Nat /\ heapsize \in Nat /\ heapsize <= grown
         /\ Pkg!Fits(InUse, p, op.size) /\ p + op.size <= Lo + grown
         /\ Laid(held', grown)
         /\ Cardinality(Bytes(held')) = Cardinality(Bytes(InUse)) + op.size
<1>1. p \in Nat /\ p \in Int /\ grown \in Nat /\ heapsize \in Nat /\ heapsize <= grown
  BY AnswersAreNat, DriverAssumption DEF Serving, BlocksOK
<1>2. Pkg!Fits(InUse, p, op.size) /\ p + op.size <= Lo + grown
  BY DEF CanGrant
<1>3. HeldOK(InUse) /\ op.size \in Nat \ {0} /\ op.size \in Sizes
  BY ServingFacts
<1>4. p \notin DOMAIN InUse
  BY <1>1, <1>2, <1>3, FitsFree
<1>5. Laid(InUse, heapsize)
  BY LaidLess DEF InUse
<1> DEFINE g == InUse
           n == op.size
           w == held'
<1>6. /\ HeldOK(g) /\ Laid(g, heapsize) /\ n \in Sizes /\ Pkg!Fits(g, p, n) /\ p + n <= Lo + grown
      /\ what.size = n /\ w = Pkg!With(g, p, what)
  BY <1>2, <1>3, <1>5
<1> HIDE DEF g, n, w
<1>7. Laid(w, grown)
  BY <1>1, <1>6, LaidMore
<1>8. Cardinality(Bytes(w)) = Cardinality(Bytes(g)) + n
  BY <1>1, <1>6, BytesMore
<1> QED
  BY <1>1, <1>2, <1>4, <1>7, <1>8 DEF g, n, w

\* The bytes that a free or the first half of a realloc gives up.
LEMMA GivenUp ==
  ASSUME Serving, Laid(held, heapsize), op.type # "a"
  PROVE  LET less == Pkg!Without(held, blocks[op.index])
         IN  /\ Laid(less, heapsize)
             /\ Cardinality(Bytes(held)) = Cardinality(Bytes(less)) + held[blocks[op.index]].size
<1> DEFINE p == blocks[op.index]
<1>1. p \in DOMAIN held /\ HeldOK(held) /\ heapsize \in Nat
  BY ServingFacts DEF Serving, BlocksOK
<1> HIDE DEF p
<1>2. /\ Laid(Pkg!Without(held, p), heapsize)
      /\ Cardinality(Bytes(held)) = Cardinality(Bytes(Pkg!Without(held, p))) + held[p].size
  BY <1>1, LaidLess, BytesLess
<1> QED
  BY <1>2 DEF p
-----------------------------------------------------------------------------
\* The bytes that eval_mm_valid compares.

\* What mm_realloc may return, as bytes.
LEMMA ContentsTyped ==
  ASSUME NEW n \in Nat, NEW data \in Contents(n)
  PROVE  DOMAIN data = 1 .. n /\ \A j \in 1 .. n : data[j] \in 0 .. (BYTE - 1)
<1>1. PICK most \in 0 .. (BYTE - 1), at \in 1 .. n, byte \in 0 .. (BYTE - 1) :
        data = [[j \in 1 .. n |-> most] EXCEPT ![at] = byte]
  BY DEF Contents
<1> DEFINE alike == [j \in 1 .. n |-> most]
<1>2. DOMAIN alike = 1 .. n /\ \A j \in 1 .. n : alike[j] = most
  OBVIOUS
<1>3. DOMAIN data = DOMAIN alike /\ \A j \in DOMAIN alike : data[j] = IF j = at THEN byte ELSE alike[j]
  BY <1>1
<1> HIDE DEF alike
<1> QED
  BY <1>2, <1>3

\* A char that compares equal to the low byte of an id is that byte.
LEMMA ByteExact ==
  ASSUME NEW byte \in 0 .. (BYTE - 1), NEW index \in Nat, AsInt(byte) = LowByte(index)
  PROVE  byte = LowByte(index)
<1>1. BYTE \in Nat \ {0}
  BY DriverAssumption
<1>2. LowByte(index) \in Nat
  BY <1>1 DEF LowByte
<1>3. AsInt(byte) = byte \/ AsInt(byte) < 0
  BY <1>1 DEF AsInt
<1> QED
  BY <1>2, <1>3

\* How much of an allocated id's payload is to be kept.
LEMMA OldSize ==
  ASSUME BlocksOK, Recorded, op.index \in Alive, op.size \in Nat
  PROVE  /\ op.index \in Nat
         /\ oldsize(op) \in Nat /\ oldsize(op) <= op.size
         /\ held[blocks[op.index]].kept \in Nat
         /\ held[blocks[op.index]].data = {LowByte(op.index)}
         /\ \A j \in 1 .. op.size : j <= oldsize(op) <=> j <= held[blocks[op.index]].kept
<1>1. op.index \in Ids
  BY DEF Alive
<1>2. op.index \in Nat
  BY <1>1, DriverAssumption
<1>3. block_sizes[op.index] \in Nat
  <2>1. block_sizes[op.index] \in Sizes \union {0}
    BY <1>1 DEF BlocksOK
  <2>2. \A n \in Sizes \union {0} : n \in Nat
    BY SizesPositive
  <2> QED
    BY <2>1, <2>2
<1>4. /\ held[blocks[op.index]].kept = block_sizes[op.index]
      /\ held[blocks[op.index]].data = {LowByte(op.index)}
  <2> DEFINE d == op.index
  <2>1. d \in Alive
    OBVIOUS
  <2> HIDE DEF d
  <2>2. held[blocks[d]] = [size |-> block_sizes[d], kept |-> block_sizes[d], data |-> {LowByte(d)}]
    BY <2>1 DEF Recorded
  <2>3. held[blocks[d]].kept = block_sizes[d] /\ held[blocks[d]].data = {LowByte(d)}
    BY <2>2
  <2> QED
    BY <2>3 DEF d
<1> QED
  BY <1>2, <1>3, <1>4 DEF oldsize

\* The bytes that are compared are those that the payload had and that fit.
LEMMA DataExact ==
  ASSUME BlocksOK, Recorded, op.index \in Alive, op.size \in Nat,
         NEW data \in Contents(op.size), data_ok(data, op)
  PROVE  Preserved(blocks[op.index], data)
<1> SUFFICES ASSUME NEW j \in DOMAIN data, j <= held[blocks[op.index]].kept
             PROVE  data[j] \in held[blocks[op.index]].data
  BY DEF Preserved
<1>1. op.index \in Nat
  BY OldSize
<1>2. j \in 1 .. op.size /\ data[j] \in 0 .. (BYTE - 1)
  BY ContentsTyped
<1>3. j \in 1 .. oldsize(op)
  BY <1>2, OldSize
<1>4. AsInt(data[j]) = LowByte(op.index)
  BY <1>3 DEF data_ok
<1>5. data[j] = LowByte(op.index)
  BY <1>1, <1>2, <1>4, ByteExact
<1> QED
  BY <1>5, OldSize

\* What mm_realloc has kept passes the comparison, if the id is small.
LEMMA DataOk ==
  ASSUME LowIds, BlocksOK, Recorded, op.index \in Alive, op.size \in Nat,
         NEW data \in Contents(op.size), Preserved(blocks[op.index], data)
  PROVE  data_ok(data, op)
<1> SUFFICES ASSUME NEW j \in 1 .. oldsize(op)
             PROVE  AsInt(data[j]) = LowByte(op.index)
  BY DEF data_ok
<1>1. oldsize(op) \in Nat /\ oldsize(op) <= op.size
  BY OldSize
<1>2. j \in 1 .. op.size
  BY <1>1
<1>3. j \in DOMAIN data
  BY <1>2, ContentsTyped
<1>4. data[j] = LowByte(op.index)
  BY <1>2, <1>3, OldSize DEF Preserved
<1>5. op.index \in Ids
  BY DEF Alive
<1> QED
  BY <1>4, <1>5 DEF LowIds, AsInt
-----------------------------------------------------------------------------
\* The parts of the inductive invariant, Tracked for every package and Kept
\* for one that keeps its promises.

\* Outside the passes there is nothing to keep.
LEMMA NotInPass == ASSUME pc' \notin LibcPasses \union Passes PROVE Tracked' /\ Kept'
BY DEF Tracked, Kept, UtilAtMostOne, LibcPasses, Passes

\* A pass starts with nothing allocated.
LEMMA PassStarts ==
  ASSUME WellFormed(trace'), i' = 0, pc' \in Passes => held' = NoBlocks /\ ~lost',
         pc' = "valid" => ranges' = << >>,
         pc' = "util" => total_size' = 0 /\ max_total_size' = 0 /\ heapsize' \in Nat
  PROVE  Tracked' /\ Kept'
<1>1. Alive' = {}
  BY AliveNoneNext
<1>2. Named(Alive', blocks', held') /\ Recorded'
  BY <1>1 DEF Recorded, Named
<1>3. pc' \in Passes => Laid(held', heapsize')
  BY BytesNone
<1>4. pc' = "valid" => Covers(ranges', held')
  BY CoversNone DEF Passes
<1>5. pc' = "util" => /\ total_size' = Cardinality(Bytes(held'))
                      /\ total_size' <= max_total_size' /\ max_total_size' <= heapsize'
  BY BytesNone DEF Passes
<1>6. Tracked'
  BY <1>2, <1>4 DEF Tracked
<1>7. Kept'
  BY <1>1, <1>2, <1>3, <1>5 DEF Kept, UtilAtMostOne
<1> QED
  BY <1>6, <1>7

\* An iteration of a pass over the C library's malloc.
LEMMA LibcTracked ==
  ASSUME Sound, Tracked, libc_op
  PROVE  Tracked' /\ Kept'
<1>1. pc \in LibcPasses /\ i < Len(trace) /\ UNCHANGED <<trace>>
  BY DEF libc_op, LibcPasses
<1>2. CASE pc' = "exit"
  BY <1>2, NotInPass DEF LibcPasses, Passes
<1>3. CASE (Free \/ Answer(libc_malloc(InUse))) /\ i' = i + 1 /\ UNCHANGED pc
  <2>1. Serving /\ WellFormed(trace')
    BY <1>1, <1>3, SoundParts DEF Tracked, Serving
  <2>2. Named(Alive', blocks', held')
    <3>1. CASE Free
      BY <2>1, <3>1, FreeNamed DEF Free
    <3>2. CASE Answer(libc_malloc(InUse))
      <4> DEFINE p == libc_malloc(InUse)
      <4>1. p \notin DOMAIN InUse
        BY <2>1, ServingFacts, LibcName DEF HeldOK
      <4> HIDE DEF p
      <4>2. Answered(p, [size |-> op.size, kept |-> 0, data |-> {}])
        BY <3>2, <4>1 DEF Answer, Answered, p
      <4> QED
        BY <2>1, <4>2, AnswerNamed
    <3> QED
      BY <1>3, <3>1, <3>2
  <2>3. pc' \in LibcPasses /\ pc' \notin Passes /\ pc' # "valid" /\ pc' \notin {"util", "speed"}
    BY <1>1, <1>3 DEF LibcPasses, Passes
  <2> QED
    BY <2>1, <2>2, <2>3 DEF Tracked, Kept, UtilAtMostOne
<1> QED
  BY <1>2, <1>3 DEF libc_op

\* eval_mm_valid goes on to the next request.
LEMMA ServingValid ==
  ASSUME Sound, Tracked, pc = "valid", i < Len(trace), UNCHANGED trace, i' = i + 1
  PROVE  /\ Serving /\ WellFormed(trace') /\ Recorded
         /\ ranges \in Seq(Extent) /\ Covers(ranges, held) /\ ~lost
BY SoundParts DEF Tracked, Serving, RangesOK, Passes

\* A pass over the package goes on to the next request.
LEMMA ServingPackage ==
  ASSUME Sound, Tracked, Kept, pc \in Passes, i < Len(trace), UNCHANGED trace, i' = i + 1
  PROVE  Serving /\ WellFormed(trace') /\ Laid(held, heapsize) /\ heapsize \in Nat
BY SoundParts, DriverAssumption DEF Tracked, Kept, Serving, BlocksOK, Passes

\* eval_mm_valid frees a payload.
LEMMA FreeTracked ==
  ASSUME Sound, Tracked, valid_free
  PROVE  Tracked' /\ (Kept => Kept')
<1>1. /\ pc = "valid" /\ pc' = "valid" /\ pc \in Passes /\ i < Len(trace) /\ op.type = "f"
      /\ UNCHANGED <<trace, blocks, block_sizes, heapsize, lost>> /\ i' = i + 1
      /\ held' = Pkg!Without(held, blocks[op.index])
      /\ ranges' = remove_range(ranges, blocks[op.index])
  BY DEF valid_free, Passes
<1>2. /\ Serving /\ WellFormed(trace') /\ Recorded
      /\ ranges \in Seq(Extent) /\ Covers(ranges, held) /\ ~lost
  BY <1>1, ServingValid
<1>3. /\ Named(Alive', blocks', held')
      /\ \A d \in Alive' : d \in Alive /\ held'[blocks'[d]] = held[blocks[d]]
  BY <1>1, <1>2, FreeNamed
<1>4. Covers(ranges', held')
  <2> DEFINE p == blocks[op.index]
             w == held'
             rest == ranges'
  <2>1. /\ p \in DOMAIN held /\ HeldOK(held)
        /\ w = Pkg!Without(held, p) /\ rest = remove_range(ranges, p)
    BY <1>1, <1>2, ServingFacts
  <2> HIDE DEF p, w, rest
  <2>2. Covers(rest, w)
    BY <1>2, <2>1, CoversLess
  <2> QED
    BY <2>2 DEF w, rest
<1>5. Recorded'
  BY <1>1, <1>2, <1>3 DEF Recorded
<1>6. Tracked'
  BY <1>1, <1>2, <1>3, <1>4, <1>5 DEF Tracked, LibcPasses
<1>7. ASSUME Kept
      PROVE  Kept'
  <2>1. Laid(held', heapsize')
    BY <1>1, <1>2, <1>7, GivenUp DEF Kept
  <2> QED
    BY <1>1, <2>1 DEF Kept, UtilAtMostOne
<1> QED
  BY <1>6, <1>7

\* eval_mm_valid obtains a payload and puts it on the list, next to the ranges
\* that are left of the others.
LEMMA FilledTracked ==
  ASSUME Sound, Tracked, pc = "valid", i < Len(trace), op.type \in {"a", "r"},
         UNCHANGED <<pc, trace>>, i' = i + 1, ~lost',
         NEW p \in Addresses, NEW grown \in heapsize .. MAX_HEAP, heapsize' = grown,
         held' = Pkg!With(InUse, p, Filled(op)), Remember(op, p),
         NEW rest \in Seq(Extent), Covers(rest, InUse), range_ok(rest, p, op.size, grown),
         ranges' = add_range(rest, p, op.size)
  PROVE  Tracked'
<1>1. pc' = "valid" /\ pc \in Passes
  BY DEF Passes
<1>2. /\ Serving /\ WellFormed(trace') /\ Recorded
      /\ heapsize \in 0 .. MAX_HEAP /\ MAX_HEAP \in Nat
  BY <1>1, ServingValid, DriverAssumption DEF Serving, BlocksOK
<1>3. /\ op.index \in Ids /\ op.size \in Nat \ {0} /\ HeldOK(InUse)
      /\ Filled(op) = [size |-> op.size, kept |-> op.size, data |-> {LowByte(op.index)}]
  BY <1>2, ServingFacts DEF Filled
<1>4. p \in Nat /\ p \notin DOMAIN InUse
  <2>1. p \in Nat
    BY <1>2, AnswersAreNat
  <2> QED
    BY <1>3, <2>1, NotListed
<1>5. Answered(p, Filled(op))
  BY <1>4 DEF Answered, Remember
<1>6. /\ Named(Alive', blocks', held')
      /\ blocks'[op.index] = p /\ held'[p] = Filled(op)
      /\ \A d \in Alive' : d # op.index => /\ d \in Alive /\ blocks'[d] = blocks[d]
                                           /\ held'[blocks[d]] = held[blocks[d]]
  BY <1>2, <1>5, AnswerNamed
<1>7. Recorded'
  <2>1. block_sizes'[op.index] = op.size /\ \A d \in Ids : d # op.index => block_sizes'[d] = block_sizes[d]
    BY <1>3, SoundParts DEF Remember, BlocksOK
  <2>2. Alive' \subseteq Ids
    BY DEF Alive
  <2>3. ASSUME NEW d \in Alive'
        PROVE  held'[blocks'[d]] = [size |-> block_sizes'[d], kept |-> block_sizes'[d],
                                    data |-> {LowByte(d)}]
    <3>1. CASE d = op.index
      BY <1>3, <1>6, <2>1, <3>1
    <3>2. CASE d # op.index
      BY <1>2, <1>6, <2>1, <2>2, <3>2 DEF Recorded
    <3> QED
      BY <3>1, <3>2
  <2> QED
    BY <2>3 DEF Recorded
<1>8. Covers(ranges', held')
  <2> DEFINE g == InUse
             n == op.size
             what == Filled(op)
             w == held'
             new == ranges'
  <2>1. /\ HeldOK(g) /\ Covers(rest, g) /\ p \notin DOMAIN g /\ n \in Nat \ {0}
        /\ what.size = n /\ w = Pkg!With(g, p, what) /\ new = add_range(rest, p, n)
    BY <1>3, <1>4
  <2> HIDE DEF g, n, what, w, new
  <2>2. Covers(new, w)
    BY <1>4, <2>1, CoversMore
  <2> QED
    BY <2>2 DEF w, new
<1> QED
  BY <1>1, <1>2, <1>6, <1>7, <1>8 DEF Tracked, LibcPasses

\* The payload is where a package that keeps its promises puts it.
LEMMA FilledKept ==
  ASSUME Sound, Tracked, Kept, Faithful, pc = "valid", i < Len(trace), op.type \in {"a", "r"},
         UNCHANGED <<pc, trace>>, i' = i + 1,
         NEW p \in Addresses, NEW grown \in heapsize .. MAX_HEAP,
         CanGrant(InUse, p, op.size, grown), heapsize' = grown,
         held' = Pkg!With(InUse, p, Filled(op))
  PROVE  Kept'
<1>1. pc' = "valid" /\ pc \in Passes
  BY DEF Passes
<1>2. Serving /\ Laid(held, heapsize)
  BY <1>1, ServingPackage
<1>3. Filled(op).size = op.size
  BY DEF Filled
<1>4. Laid(held', grown)
  BY <1>2, <1>3, AnswerFits
<1> QED
  BY <1>1, <1>4 DEF Kept, UtilAtMostOne

LEMMA AllocTracked ==
  ASSUME Sound, Tracked, valid_alloc
  PROVE  Tracked' /\ (Faithful /\ Kept => Kept')
<1>1. pc = "valid" /\ i < Len(trace) /\ op.type = "a" /\ UNCHANGED <<trace, lost>>
  BY DEF valid_alloc
<1>2. CASE Invalid
  BY <1>2, NotInPass DEF Invalid, EndTrace, LibcPasses, Passes
<1>3. CASE \E p \in Addresses, grown \in heapsize .. MAX_HEAP :
             /\ CanGrant(held, p, op.size, grown) /\ heapsize' = grown
             /\ held' = Pkg!With(held, p, Filled(op))
             /\ range_ok(ranges, p, op.size, grown)
             /\ ranges' = add_range(ranges, p, op.size) /\ Remember(op, p)
             /\ i' = i + 1 /\ UNCHANGED pc
  <2>1. InUse = held
    BY <1>1 DEF InUse
  <2>2. ranges \in Seq(Extent) /\ Covers(ranges, held) /\ ~lost'
    BY <1>1, <1>3, ServingValid
  <2>3. PICK p \in Addresses, grown \in heapsize .. MAX_HEAP :
             /\ CanGrant(InUse, p, op.size, grown) /\ heapsize' = grown
             /\ held' = Pkg!With(InUse, p, Filled(op))
             /\ range_ok(ranges, p, op.size, grown)
             /\ ranges' = add_range(ranges, p, op.size) /\ Remember(op, p)
             /\ i' = i + 1 /\ UNCHANGED pc
    BY <1>3, <2>1
  <2>4. Covers(ranges, InUse)
    BY <2>1, <2>2
  <2>5. Tracked'
    BY <1>1, <2>2, <2>3, <2>4, FilledTracked
  <2>6. Faithful /\ Kept => Kept'
    BY <1>1, <2>3, FilledKept
  <2> QED
    BY <2>5, <2>6
<1> QED
  BY <1>2, <1>3 DEF valid_alloc

LEMMA ReallocTracked ==
  ASSUME Sound, Tracked, valid_realloc
  PROVE  Tracked' /\ (Faithful /\ Kept => Kept')
<1> DEFINE rest == remove_range(ranges, blocks[op.index])
<1>1. pc = "valid" /\ i < Len(trace) /\ op.type = "r" /\ UNCHANGED trace
  BY DEF valid_realloc
<1>2. CASE Invalid
  BY <1>2, NotInPass DEF Invalid, EndTrace, LibcPasses, Passes
<1>3. CASE \E p \in Addresses, grown \in heapsize .. MAX_HEAP, data \in Contents(op.size) :
             /\ CanGrant(Pkg!Without(held, blocks[op.index]), p, op.size, grown)
             /\ heapsize' = grown
             /\ held' = Pkg!With(Pkg!Without(held, blocks[op.index]), p, Filled(op))
             /\ lost' = (lost \/ ~Preserved(blocks[op.index], data))
             /\ range_ok(rest, p, op.size, grown) /\ data_ok(data, op)
             /\ ranges' = add_range(rest, p, op.size) /\ Remember(op, p)
             /\ i' = i + 1 /\ UNCHANGED pc
  <2>1. InUse = Pkg!Without(held, blocks[op.index])
    BY <1>1 DEF InUse
  <2>2. ranges \in Seq(Extent) /\ Covers(ranges, held) /\ Serving /\ Recorded /\ ~lost
    BY <1>1, <1>3, ServingValid
  <2>3. /\ HeldOK(held) /\ blocks[op.index] \in DOMAIN held
        /\ op.index \in Alive /\ op.size \in Nat
    BY <1>1, <2>2, ServingFacts
  <2>4. rest \in Seq(Extent) /\ Covers(rest, InUse)
    <3> DEFINE p == blocks[op.index]
    <3> HIDE DEF p
    <3>1. /\ remove_range(ranges, p) \in Seq(Extent)
          /\ Covers(remove_range(ranges, p), Pkg!Without(held, p))
      <4>1. p \in DOMAIN held
        BY <2>3 DEF p
      <4> QED
        BY <2>2, <2>3, <4>1, CoversLess
    <3> QED
      BY <2>1, <3>1 DEF p
  <2>5. PICK p \in Addresses, grown \in heapsize .. MAX_HEAP, data \in Contents(op.size) :
             /\ CanGrant(InUse, p, op.size, grown) /\ heapsize' = grown
             /\ held' = Pkg!With(InUse, p, Filled(op))
             /\ lost' = (lost \/ ~Preserved(blocks[op.index], data))
             /\ range_ok(rest, p, op.size, grown) /\ data_ok(data, op)
             /\ ranges' = add_range(rest, p, op.size) /\ Remember(op, p)
             /\ i' = i + 1 /\ UNCHANGED pc
    BY <1>3, <2>1
  <2>6. ~lost'
    BY <2>2, <2>3, <2>5, DataExact DEF Serving
  <2> HIDE DEF rest
  <2>7. Tracked'
    BY <1>1, <2>4, <2>5, <2>6, FilledTracked
  <2>8. Faithful /\ Kept => Kept'
    BY <1>1, <2>5, FilledKept
  <2> QED
    BY <2>7, <2>8
<1> QED
  BY <1>2, <1>3 DEF valid_realloc

\* A call of eval_mm_util or eval_mm_speed.
LEMMA CallKept ==
  ASSUME Sound, Tracked, Kept, Faithful, pc \in Passes, i < Len(trace), UNCHANGED trace, Call
  PROVE  /\ Serving /\ WellFormed(trace') /\ pc' = pc
         /\ Named(Alive', blocks', held')
         /\ heapsize \in Nat /\ heapsize' \in Nat /\ heapsize <= heapsize'
         /\ HeldOK(held') /\ Laid(held', heapsize')
         /\ \A d \in Alive' : d # op.index => d \in Alive /\ held'[blocks'[d]] = held[blocks[d]]
         /\ op.type = "f" => op.index \notin Alive'
         /\ op.type # "f" => held'[blocks'[op.index]].size = op.size
         /\ Cardinality(Bytes(held')) =
              Cardinality(Bytes(held)) + (IF op.type = "f" THEN 0 ELSE op.size)
                - (IF op.type = "a" THEN 0 ELSE held[blocks[op.index]].size)
<1>0. i' = i + 1 /\ pc' = pc
  BY DEF Call
<1>1. Serving /\ WellFormed(trace') /\ Laid(held, heapsize) /\ heapsize \in Nat
  BY <1>0, ServingPackage
<1>2. /\ HeldOK(held) /\ HeldOK(held') /\ heapsize' \in Nat
      /\ op.index \in Ids /\ op.type \in {"a", "r", "f"}
  BY <1>1, CallHeap, ServingFacts, SoundParts DEF Serving
<1>3. /\ op.type # "f" => op.size \in Sizes /\ op.size \in Nat
      /\ op.type # "a" => held[blocks[op.index]].size \in Nat
  BY <1>1, <1>2, ServingFacts, SizesPositive DEF HeldOK
<1>4. Cardinality(Bytes(held)) \in Nat /\ Cardinality(Bytes(InUse)) \in Nat
  <2>1. HeldOK(InUse) /\ Laid(InUse, heapsize)
    BY <1>1, ServingFacts, LaidLess DEF InUse
  <2> QED
    BY <1>1, <1>2, <2>1, BytesBound
<1>5. CASE Free /\ UNCHANGED heapsize
  <2>1. op.type = "f" /\ held' = Pkg!Without(held, blocks[op.index]) /\ UNCHANGED blocks
    BY <1>5 DEF Free
  <2>2. /\ Named(Alive', blocks', held')
        /\ \A d \in Alive' : d \in Alive /\ held'[blocks'[d]] = held[blocks[d]]
    BY <1>1, <2>1, FreeNamed
  <2>3. /\ Laid(held', heapsize)
        /\ Cardinality(Bytes(held)) = Cardinality(Bytes(held')) + held[blocks[op.index]].size
    BY <1>1, <2>1, GivenUp
  <2>4. Cardinality(Bytes(held')) \in Nat
    BY <1>1, <1>2, <2>3, BytesBound
  <2>5. op.index \notin Alive'
    BY <2>1, <1>1, AliveStep DEF Serving
  <2>6. /\ held[blocks[op.index]].size \in Nat
    BY <1>3, <2>1
  <2>7. Cardinality(Bytes(held')) = Cardinality(Bytes(held)) + 0 - held[blocks[op.index]].size
    BY <1>4, <2>3, <2>4, <2>6
  <2> QED
    BY <1>0, <1>1, <1>2, <1>5, <2>1, <2>2, <2>3, <2>5, <2>7
<1>6. CASE \E p \in Addresses, grown \in heapsize .. MAX_HEAP :
             CanGrant(InUse, p, op.size, grown) /\ heapsize' = grown /\ Answer(p)
  <2> DEFINE what == [size |-> op.size, kept |-> 0, data |-> {}]
  <2>1. PICK p \in Addresses, grown \in heapsize .. MAX_HEAP :
             CanGrant(InUse, p, op.size, grown) /\ heapsize' = grown /\ Answer(p)
    BY <1>6
  <2>2. /\ op.type \in {"a", "r"} /\ what.size = op.size
        /\ held' = Pkg!With(InUse, p, what) /\ blocks' = [blocks EXCEPT ![op.index] = p]
    BY <2>1 DEF Answer
  <2> HIDE DEF what
  <2>3. /\ p \notin DOMAIN InUse /\ heapsize <= grown
        /\ Laid(held', grown)
        /\ Cardinality(Bytes(held')) = Cardinality(Bytes(InUse)) + op.size
    BY <1>1, <2>1, <2>2, AnswerFits
  <2>4. Answered(p, what)
    BY <2>2, <2>3 DEF Answered
  <2>5. /\ Named(Alive', blocks', held')
        /\ blocks'[op.index] = p /\ held'[p] = what
        /\ \A d \in Alive' : d # op.index => /\ d \in Alive /\ blocks'[d] = blocks[d]
                                             /\ held'[blocks[d]] = held[blocks[d]]
    BY <1>1, <2>4, AnswerNamed
  <2>6. op.type = "a" => Cardinality(Bytes(held)) = Cardinality(Bytes(InUse))
    BY DEF InUse
  <2>7. op.type = "r" =>
          Cardinality(Bytes(held)) = Cardinality(Bytes(InUse)) + held[blocks[op.index]].size
    BY <1>1, GivenUp, ServingFacts
  <2>8. Cardinality(Bytes(held')) = Cardinality(Bytes(held)) + op.size
                - (IF op.type = "a" THEN 0 ELSE held[blocks[op.index]].size)
    BY <1>3, <1>4, <2>2, <2>3, <2>6, <2>7
  <2> QED
    BY <1>0, <1>1, <1>2, <2>1, <2>2, <2>3, <2>5, <2>8
<1> QED
  BY <1>5, <1>6 DEF Call

LEMMA UtilKept ==
  ASSUME Sound, Tracked, Kept, Faithful, util_op
  PROVE  Kept'
<1>1. pc = "util" /\ pc \in Passes /\ i < Len(trace) /\ UNCHANGED trace
  BY DEF util_op, Passes
<1>2. CASE Refuse
  BY <1>2, NotInPass DEF Refuse, Exit, LibcPasses, Passes
<1>3. CASE /\ Call /\ total_size' = total_size + Growth
           /\ IF op.type = "f"
              THEN UNCHANGED <<block_sizes, max_total_size>>
              ELSE /\ block_sizes' = [block_sizes EXCEPT ![op.index] = op.size]
                   /\ max_total_size' = Larger(total_size', max_total_size)
  <2>0. /\ Serving /\ WellFormed(trace') /\ pc' = "util" /\ pc' \in Passes
        /\ Named(Alive', blocks', held')
        /\ heapsize \in Nat /\ heapsize' \in Nat /\ heapsize <= heapsize'
        /\ HeldOK(held') /\ Laid(held', heapsize')
        /\ \A d \in Alive' : d # op.index => d \in Alive /\ held'[blocks'[d]] = held[blocks[d]]
        /\ op.type = "f" => op.index \notin Alive'
        /\ op.type # "f" => held'[blocks'[op.index]].size = op.size
    BY <1>1, <1>3, CallKept
  <2>1. Cardinality(Bytes(held')) =
              Cardinality(Bytes(held)) + (IF op.type = "f" THEN 0 ELSE op.size)
                - (IF op.type = "a" THEN 0 ELSE held[blocks[op.index]].size)
    BY <1>1, <1>3, CallKept
  <2>2. /\ \A d \in Alive : block_sizes[d] = held[blocks[d]].size
        /\ block_sizes \in [Ids -> Sizes \union {0}]
        /\ total_size \in Int /\ max_total_size \in Nat
        /\ total_size = Cardinality(Bytes(held))
        /\ total_size <= max_total_size /\ max_total_size <= heapsize
    BY <1>1, SoundParts DEF Kept, UtilAtMostOne, BlocksOK
  <2>3. /\ op.index \in Ids /\ op.type \in {"a", "r", "f"}
        /\ op.type # "f" => op.size \in Nat
        /\ op.type # "a" => op.index \in Alive /\ blocks[op.index] \in DOMAIN held
        /\ HeldOK(held)
    BY <2>0, ServingFacts
  <2>4. op.type # "a" => /\ block_sizes[op.index] = held[blocks[op.index]].size
                         /\ held[blocks[op.index]].size \in Nat
    BY <2>2, <2>3, SizesPositive DEF HeldOK
  <2>5. total_size' = Cardinality(Bytes(held'))
    BY <1>3, <2>1, <2>2, <2>3, <2>4 DEF Growth
  <2>6. total_size' \in Nat /\ total_size' <= heapsize'
    BY <2>0, <2>5, BytesBound
  <2>7. total_size' <= max_total_size' /\ max_total_size' <= heapsize'
    <3>1. CASE op.type = "f"
      <4>1. total_size' <= total_size
        BY <1>3, <2>2, <2>4, <3>1 DEF Growth
      <4> QED
        BY <1>3, <2>0, <2>2, <2>6, <3>1, <4>1
    <3>2. CASE op.type # "f"
      BY <1>3, <2>0, <2>2, <2>6, <3>2 DEF Larger
    <3> QED
      BY <3>1, <3>2
  <2>8. \A d \in Alive' : block_sizes'[d] = held'[blocks'[d]].size
    <3>0. Alive' \subseteq Ids
      BY DEF Alive
    <3>1. CASE op.type = "f"
      BY <1>3, <2>0, <2>2, <3>1
    <3>2. CASE op.type # "f"
      <4>1. /\ block_sizes'[op.index] = op.size
            /\ \A d \in Ids : d # op.index => block_sizes'[d] = block_sizes[d]
        BY <1>3, <2>2, <2>3, <3>2
      <4> QED
        BY <2>0, <2>2, <3>0, <3>2, <4>1
    <3> QED
      BY <3>1, <3>2
  <2> QED
    BY <2>0, <2>5, <2>7, <2>8 DEF Kept, UtilAtMostOne
<1> QED
  BY <1>2, <1>3 DEF util_op

LEMMA SpeedKept ==
  ASSUME Sound, Tracked, Kept, Faithful, speed_op
  PROVE  Kept'
<1>1. pc = "speed" /\ pc \in Passes /\ i < Len(trace) /\ UNCHANGED trace
  BY DEF speed_op, Passes
<1>2. CASE Refuse
  BY <1>2, NotInPass DEF Refuse, Exit, LibcPasses, Passes
<1>3. CASE Call
  <2>1. pc' = "speed" /\ Named(Alive', blocks', held') /\ Laid(held', heapsize')
    BY <1>1, <1>3, CallKept
  <2> QED
    BY <2>1 DEF Kept, UtilAtMostOne
<1> QED
  BY <1>2, <1>3 DEF speed_op

\* The passes that do not check leave Tracked nothing but the trace.
LEMMA CallTracked ==
  ASSUME Tracked, util_op \/ speed_op
  PROVE  Tracked'
<1>1. pc \in {"util", "speed"} /\ UNCHANGED <<trace, lost>> /\ (pc' = pc \/ pc' = "exit")
  BY DEF util_op, speed_op, Refuse, Call, Exit
<1> QED
  BY <1>1 DEF Tracked, LibcPasses, Passes

\* Every step keeps what holds on ordinary traces, and what holds of a package
\* that keeps its promises.
LEMMA TrackedNext ==
  ASSUME Sound, Tracked, OrdinaryTraces, Next
  PROVE  Tracked' /\ (Faithful /\ Kept => Kept')
<1> USE DEF LibcPasses, Passes
<1>0. /\ heapsize \in Nat
      /\ pc \in LibcPasses \union Passes => WellFormed(trace)
      /\ pc \in Passes => ~lost
  BY SoundParts, DriverAssumption DEF BlocksOK, Tracked
<1>a. CASE pc' \notin LibcPasses \union Passes
  BY <1>a, NotInPass
<1>b. CASE pc' \in LibcPasses \union Passes
  <2>1. CASE option \/ start
    BY <1>b, <2>1 DEF option, start
  <2>2. CASE libc_read
    <3>1. WellFormed(trace') /\ i' = 0 /\ pc' = "libc_valid"
      BY <1>b, <2>2 DEF libc_read, Load, OrdinaryTraces
    <3> QED
      BY <3>1, PassStarts
  <2>3. CASE libc_op
    BY <2>3, LibcTracked
  <2>4. CASE begin_libc_speed
    BY <1>0, <2>4, PassStarts DEF begin_libc_speed
  <2>5. CASE end_libc_speed
    BY <1>0, <1>b, <2>5, PassStarts DEF end_libc_speed
  <2>6. CASE read_trace
    <3>1. /\ WellFormed(trace') /\ i' = 0 /\ pc' = "valid"
          /\ held' = NoBlocks /\ ranges' = << >> /\ ~lost'
      BY <1>b, <2>6 DEF read_trace, Load, Restart, Exit, Invalid, EndTrace, OrdinaryTraces
    <3> QED
      BY <3>1, PassStarts
  <2>7. CASE valid_alloc
    BY <2>7, AllocTracked
  <2>8. CASE valid_realloc
    BY <2>8, ReallocTracked
  <2>9. CASE valid_free
    BY <2>9, FreeTracked
  <2>10. CASE begin_util
    <3>1. /\ WellFormed(trace') /\ i' = 0 /\ pc' = "util" /\ held' = NoBlocks /\ ~lost'
          /\ total_size' = 0 /\ max_total_size' = 0 /\ heapsize' = 0
      BY <1>0, <1>b, <2>10 DEF begin_util, Restart, Exit
    <3> QED
      BY <3>1, PassStarts
  <2>11. CASE util_op
    BY <2>11, CallTracked, UtilKept
  <2>12. CASE begin_speed
    <3>1. WellFormed(trace') /\ i' = 0 /\ pc' = "speed" /\ held' = NoBlocks /\ ~lost'
      BY <1>0, <1>b, <2>12 DEF begin_speed, Restart, Exit
    <3> QED
      BY <3>1, PassStarts
  <2>13. CASE speed_op
    BY <2>13, CallTracked, SpeedKept
  <2>14. CASE end_speed
    <3>1. WellFormed(trace') /\ i' = 0 /\ pc' = "speed" /\ held' = NoBlocks /\ ~lost'
      BY <1>0, <1>b, <2>14 DEF end_speed, Restart, Exit, EndTrace
    <3> QED
      BY <3>1, PassStarts
  <2>15. CASE finished
    BY <1>b, <2>15 DEF finished, vars
  <2> QED
    BY <2>1, <2>2, <2>3, <2>4, <2>5, <2>6, <2>7, <2>8, <2>9, <2>10, <2>11, <2>12, <2>13,
       <2>14, <2>15 DEF Next
<1> QED
  BY <1>a, <1>b

LEMMA TrackedUnchanged ==
  ASSUME Tracked, UNCHANGED vars
  PROVE  Tracked' /\ (Kept => Kept')
<1>1. Alive' = Alive
  BY DEF vars, Alive
<1>2. Recorded' <=> Recorded
  BY <1>1 DEF vars, Recorded
<1>3. Tracked'
  BY <1>1, <1>2 DEF vars, Tracked
<1>4. Kept => Kept'
  BY <1>1 DEF vars, Kept, UtilAtMostOne
<1> QED
  BY <1>3, <1>4

LEMMA IInvInit == Init => IInv
<1> SUFFICES ASSUME Init
             PROVE  IInv
  OBVIOUS
<1>1. Tracked /\ Kept
  BY DEF Init, Tracked, Kept, UtilAtMostOne, LibcPasses, Passes
<1> QED
  BY <1>1, SoundInit DEF IInv

LEMMA IInvNext ==
  ASSUME OrdinaryTraces
  PROVE  IInv /\ [Next]_vars => IInv'
<1>1. ASSUME IInv, [Next]_vars
      PROVE  Sound' /\ Tracked' /\ (Faithful => Kept')
  <2>1. Sound'
    BY <1>1, SoundNext DEF IInv
  <2>2. Tracked' /\ (Faithful /\ Kept => Kept')
    BY <1>1, TrackedNext, TrackedUnchanged DEF IInv
  <2> QED
    BY <1>1, <2>1, <2>2 DEF IInv
<1> QED
  BY <1>1 DEF IInv

\* On ordinary traces the driver's bookkeeping is that of the package, in
\* eval_mm_valid whatever the package answers, and pass after pass if it keeps
\* its promises.
THEOREM AlwaysKept ==
  ASSUME OrdinaryTraces
  PROVE  Spec => []IInv
BY IInvInit, IInvNext, PTL DEF Spec

\* The range list is exact whenever eval_mm_valid looks at it, whatever the
\* package answers.
THEOREM RangesAlwaysExact ==
  ASSUME OrdinaryTraces
  PROVE  Spec => []RangesExact
<1>1. IInv => RangesExact
  BY CoversExact DEF IInv, Tracked, RangesExact
<1> QED
  BY <1>1, AlwaysKept, PTL

\* No package that loses a byte of a payload in mm_realloc gets to be timed:
\* the sizes that eval_mm_valid stores are such that its comparison misses no
\* byte that was to be kept.
THEOREM LossAlwaysFound ==
  ASSUME OrdinaryTraces
  PROVE  Spec => []LossFound
<1>1. IInv => LossFound
  BY DEF IInv, Tracked, LossFound, Passes
<1> QED
  BY <1>1, AlwaysKept, PTL

\* The utilisation that eval_mm_util reports is at most 1, and is that of the
\* payloads in use.
THEOREM UtilisationAtMostOne ==
  ASSUME OrdinaryTraces, Faithful
  PROVE  Spec => []UtilAtMostOne
<1>1. IInv => UtilAtMostOne
  BY DEF IInv, Kept
<1> QED
  BY <1>1, AlwaysKept, PTL

\* The driver frees and reallocates payloads in use only.
THEOREM ContractKept ==
  ASSUME OrdinaryTraces, Faithful
  PROVE  Spec => []CallerKeepsContract
<1>1. IInv => CallerKeepsContract
  <2> SUFFICES ASSUME IInv, pc \in LibcPasses \union Passes, i < Len(trace), op.type \in {"f", "r"}
               PROVE  blocks[op.index] \in DOMAIN held
    BY DEF CallerKeepsContract, LibcPasses, Passes
  <2>1. TraceOK /\ WellFormed(trace) /\ Named(Alive, blocks, held)
    BY SoundParts DEF IInv, Tracked, Kept, LibcPasses, Passes
  <2>2. op.index \in Ids /\ i \in Nat
    BY <2>1, CurrentOp
  <2>3. op.index \in Alive
    BY <2>1, <2>2, OrdinaryOp DEF Alive
  <2> QED
    BY <2>1, <2>3 DEF Named
<1> QED
  BY <1>1, AlwaysKept, PTL
-----------------------------------------------------------------------------
\* No false alarm.

LEMMA NoAlarmNext ==
  ASSUME Sound, Tracked, Faithful, LowIds, NoFalseAlarm, Next
  PROVE  NoFalseAlarm'
<1>1. CASE UNCHANGED errors /\ (refused => refused')
  BY <1>1 DEF NoFalseAlarm
<1>2. CASE refused'
  BY <1>2 DEF NoFalseAlarm
<1>3. CASE option \/ start \/ libc_read \/ begin_libc_speed \/ end_libc_speed \/ finished
  BY <1>1, <1>3 DEF option, start, libc_read, begin_libc_speed, end_libc_speed, finished, vars
<1>4. CASE libc_op
  BY <1>1, <1>2, <1>4 DEF libc_op
<1>5. CASE read_trace
  BY <1>1, <1>2, <1>5 DEF read_trace, Exit
<1>6. CASE valid_alloc
  <2>1. /\ pc = "valid" /\ pc \in Passes /\ i < Len(trace) /\ op.type = "a"
    BY <1>6 DEF valid_alloc, Passes
  <2>2. /\ TraceOK /\ HeldOK(held) /\ ranges \in Seq(Extent) /\ Covers(ranges, held)
        /\ heapsize \in 0 .. MAX_HEAP /\ MAX_HEAP \in Nat
    BY <2>1, SoundParts, HeldChanges, DriverAssumption DEF Tracked, RangesOK, BlocksOK
  <2>3. op.size \in Nat \ {0}
    BY <2>1, <2>2, CurrentOp
  <2>4. ASSUME NEW p \in Addresses, NEW grown \in heapsize .. MAX_HEAP,
               CanGrant(held, p, op.size, grown)
        PROVE  range_ok(ranges, p, op.size, grown)
    <3>1. p \in Nat /\ grown \in Nat
      BY <2>2, AnswersAreNat
    <3>2. Pkg!Fits(held, p, op.size) /\ p + op.size <= Lo + grown
      BY <2>4 DEF CanGrant
    <3> QED
      BY <2>2, <2>3, <3>1, <3>2, RangeOk
  <2> QED
    BY <1>1, <1>2, <1>6, <2>4 DEF valid_alloc
<1>7. CASE valid_realloc
  <2> DEFINE oldp == blocks[op.index]
             rest == remove_range(ranges, oldp)
             inuse == Pkg!Without(held, oldp)
  <2>1. /\ pc = "valid" /\ pc \in Passes /\ i < Len(trace) /\ op.type = "r"
    BY <1>7 DEF valid_realloc, Passes
  <2>2. /\ TraceOK /\ BlocksOK /\ HeldOK(held) /\ ranges \in Seq(Extent) /\ Covers(ranges, held)
        /\ heapsize \in 0 .. MAX_HEAP /\ MAX_HEAP \in Nat
        /\ WellFormed(trace) /\ Named(Alive, blocks, held) /\ Recorded
    BY <2>1, SoundParts, HeldChanges, DriverAssumption DEF Tracked, RangesOK, BlocksOK
  <2>3. op.size \in Nat \ {0} /\ op.index \in Ids /\ i \in Nat
    BY <2>1, <2>2, CurrentOp
  <2>4. op.index \in Alive
    BY <2>1, <2>2, <2>3, OrdinaryOp DEF Alive
  <2>5. oldp \in DOMAIN held
    BY <2>2, <2>4 DEF Named
  <2>6. rest \in Seq(Extent) /\ Covers(rest, inuse) /\ HeldOK(inuse)
    <3> HIDE DEF oldp
    <3> QED
      BY <2>2, <2>5, CoversLess, HeldLess
  <2>7. ASSUME NEW newp \in Addresses, NEW grown \in heapsize .. MAX_HEAP,
               CanGrant(inuse, newp, op.size, grown)
        PROVE  range_ok(rest, newp, op.size, grown)
    <3>1. newp \in Nat /\ grown \in Nat
      BY <2>2, AnswersAreNat
    <3>2. Pkg!Fits(inuse, newp, op.size) /\ newp + op.size <= Lo + grown
      BY <2>7 DEF CanGrant
    <3> HIDE DEF inuse, rest
    <3> QED
      BY <2>3, <2>6, <3>1, <3>2, RangeOk
  <2>8. ASSUME NEW data \in Contents(op.size), CanKeep(oldp, data)
        PROVE  data_ok(data, op)
    BY <2>2, <2>3, <2>4, <2>8, DataOk DEF CanKeep
  <2> QED
    BY <1>1, <1>2, <1>7, <2>7, <2>8 DEF valid_realloc
<1>8. CASE valid_free
  BY <1>1, <1>8 DEF valid_free
<1>9. CASE begin_util
  BY <1>1, <1>2, <1>9 DEF begin_util, Exit
<1>10. CASE util_op \/ speed_op
  BY <1>1, <1>2, <1>10 DEF util_op, speed_op, Refuse, Call
<1>11. CASE begin_speed
  BY <1>1, <1>2, <1>11 DEF begin_speed, Exit
<1>12. CASE end_speed
  BY <1>1, <1>2, <1>12 DEF end_speed, Exit
<1> QED
  BY <1>3, <1>4, <1>5, <1>6, <1>7, <1>8, <1>9, <1>10, <1>11, <1>12 DEF Next

\* A package that keeps its promises and never refuses a request is never
\* reported, whatever it does with addresses and with its heap, if ids are
\* small enough for the comparison of a signed char with the id's low byte.
THEOREM NoFalseAlarms ==
  ASSUME OrdinaryTraces, Faithful, LowIds
  PROVE  Spec => []NoFalseAlarm
<1>1. Init => NoFalseAlarm
  BY DEF Init, NoFalseAlarm
<1>2. IInv /\ NoFalseAlarm /\ [Next]_vars => NoFalseAlarm'
  <2>1. ASSUME IInv, NoFalseAlarm, Next
        PROVE  NoFalseAlarm'
    BY <2>1, NoAlarmNext DEF IInv
  <2>2. ASSUME NoFalseAlarm, UNCHANGED vars
        PROVE  NoFalseAlarm'
    BY <2>2 DEF vars, NoFalseAlarm
  <2> QED
    BY <2>1, <2>2
<1> QED
  BY <1>1, <1>2, AlwaysKept, PTL DEF Spec
=============================================================================
