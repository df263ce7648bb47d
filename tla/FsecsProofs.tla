---------------------------- MODULE FsecsProofs ----------------------------
(***************************************************************************)
(* The timing package's properties, for every width of a counter word,     *)
(* clock rate, calibration thresholds, parameters of the sampler and       *)
(* lengths of the timed function.                                          *)
(***************************************************************************)
EXTENDS FsecsInv, FiniteSetTheorems, TLAPS

-----------------------------------------------------------------------------
\* Arithmetic.

\* Division and remainder.
LEMMA Division ==
  ASSUME NEW n \in Int, NEW k \in Nat \ {0}
  PROVE  /\ n \div k \in Int /\ n % k \in 0 .. (k - 1)
         /\ n % k = n - k * (n \div k)
         /\ n \in Nat => n \div k \in Nat
<1>1. n \div k \in Int
  OBVIOUS
<1>2. n % k \in 0 .. (k - 1)
  OBVIOUS
<1>3. n % k = n - k * (n \div k)
  OBVIOUS
<1>4. n \in Nat => n \div k \in Nat
  OBVIOUS
<1> QED
  BY <1>1, <1>2, <1>3, <1>4

\* A quotient and a remainder in range are those of the division.
LEMMA Quotient ==
  ASSUME NEW n \in Int, NEW k \in Nat \ {0}, NEW q \in Int, NEW r \in 0 .. (k - 1),
         n = k * q + r
  PROVE  n \div k = q /\ n % k = r
<1>1. n \div k \in Int /\ n % k \in 0 .. (k - 1) /\ n % k = n - k * (n \div k)
  BY Division
<1> DEFINE a == n \div k
           b == n % k
<1> HIDE DEF a, b
<1>2. k * (a - q) = r - b
  BY <1>1 DEF a, b
<1>3. a - q = 0
  <2>1. ASSUME a - q >= 1 PROVE FALSE
    <3>1. k * (a - q) >= k
      BY <2>1, <1>1 DEF a, b
    <3> QED
      BY <3>1, <1>2, <1>1 DEF a, b
  <2>2. ASSUME a - q <= -1 PROVE FALSE
    <3>1. k * (a - q) <= -k
      BY <2>2, <1>1 DEF a, b
    <3> QED
      BY <3>1, <1>2, <1>1 DEF a, b
  <2> QED
    BY <2>1, <2>2, <1>1 DEF a, b
<1> QED
  BY <1>1, <1>2, <1>3 DEF a, b

\* Nothing smaller than one more than the quotient times the divisor.
LEMMA DivideBound ==
  ASSUME NEW n \in Int, NEW k \in Nat \ {0}, NEW m \in Int, k * m <= n
  PROVE  m <= n \div k
<1> DEFINE q == n \div k
           r == n % k
<1>1. q \in Int /\ r \in 0 .. (k - 1) /\ r = n - k * q
  BY Division
<1> HIDE DEF q, r
<1>2. k * (m - q) <= r
  BY <1>1
<1>3. ASSUME m - q >= 1 PROVE FALSE
  <2>1. k * (m - q) >= k
    BY <1>3, <1>1
  <2> QED
    BY <2>1, <1>2, <1>1
<1> QED
  BY <1>3, <1>1 DEF q

\* Products are monotonic.
LEMMA Product ==
  ASSUME NEW a \in Int, NEW b \in Int, NEW k \in Nat, a <= b
  PROVE  a * k <= b * k /\ k * a <= k * b /\ a * k \in Int /\ k * a \in Int
OBVIOUS


-----------------------------------------------------------------------------
\* The counter.

\* A reading of the counter is a number that two words can hold.
LEMMA CounterType ==
  ASSUME NEW a \in Nat, NEW b \in Nat, NEW c \in Nat, NEW d \in Nat
  PROVE  SubtractWords(<<a, b>>, <<c, d>>) \in Nat
<1> DEFINE lo == (b - d) % W
           borrow == IF lo > b THEN 1 ELSE 0
           hi == (a - c - borrow) % W
<1>1. W \in Nat \ {0}
  BY ClockAssumption
<1>2. lo \in 0 .. (W - 1)
  BY <1>1, Division
<1>3. borrow \in Int
  OBVIOUS
<1> HIDE DEF lo, borrow
<1>4. hi \in Nat
  BY <1>1, <1>3, Division
<1>5. SubtractWords(<<a, b>>, <<c, d>>) = hi * W + lo
  BY DEF SubtractWords, lo, borrow
<1> HIDE DEF hi
<1> QED
  BY <1>1, <1>2, <1>4, <1>5

\* The borrow makes up for a low word that has wrapped.
LEMMA LowWords ==
  ASSUME NEW ln \in 0 .. (W - 1), NEW lm \in 0 .. (W - 1)
  PROVE  LET lo == (ln - lm) % W
             borrow == IF lo > ln THEN 1 ELSE 0
         IN  /\ lo \in 0 .. (W - 1)
             /\ borrow = IF ln < lm THEN 1 ELSE 0
             /\ lo = ln - lm + W * borrow
<1>1. W \in Nat \ {0}
  BY ClockAssumption
<1>2. CASE ln < lm
  <2>1. ln - lm + W \in 0 .. (W - 1) /\ ln - lm = W * (-1) + (ln - lm + W)
    BY <1>1, <1>2
  <2>2. (ln - lm) % W = ln - lm + W
    BY <1>1, <2>1, Quotient
  <2> QED
    BY <1>1, <1>2, <2>2
<1>3. CASE ~(ln < lm)
  <2>1. ln - lm \in 0 .. (W - 1) /\ ln - lm = W * 0 + (ln - lm)
    BY <1>1, <1>3
  <2>2. (ln - lm) % W = ln - lm
    BY <1>1, <2>1, Quotient
  <2> QED
    BY <1>1, <1>3, <2>2
<1> QED
  BY <1>2, <1>3

\* The difference of two readings is the time between them, if that is less
\* than all the values of two words.
LEMMA ReadingExact ==
  ASSUME NEW n \in Nat, NEW m \in Nat, m <= n, n - m < W * W
  PROVE  SubtractWords(access_counter(n), <<(m \div W) % W, m % W>>) = n - m
<1>1. W \in Nat \ {0}
  BY ClockAssumption
<1> DEFINE dn == n \div W
           dm == m \div W
           hn == dn % W
           hm == dm % W
           ln == n % W
           lm == m % W
           qn == dn \div W
           qm == dm \div W
           lo == (ln - lm) % W
           borrow == IF lo > ln THEN 1 ELSE 0
           x == hn - hm - borrow
           p == x \div W
           r == x % W
           E == W * (qn - qm) + x
<1>2. dn \in Nat /\ ln \in 0 .. (W - 1) /\ ln = n - W * dn
  BY <1>1
<1>3. dm \in Nat /\ lm \in 0 .. (W - 1) /\ lm = m - W * dm
  BY <1>1
<1>6. SubtractWords(access_counter(n), <<(m \div W) % W, m % W>>) = r * W + lo
  BY DEF SubtractWords, access_counter
<1>7. lo \in 0 .. (W - 1) /\ borrow \in {0, 1} /\ lo = ln - lm + W * borrow
  <2> HIDE DEF ln, lm
  <2> QED
    BY <1>2, <1>3, LowWords
<1> HIDE DEF dn, dm, lo, borrow
<1>4. qn \in Nat /\ hn \in 0 .. (W - 1) /\ hn = dn - W * qn
  BY <1>1, <1>2
<1>5. qm \in Nat /\ hm \in 0 .. (W - 1) /\ hm = dm - W * qm
  BY <1>1, <1>3
<1>8. x \in Int
  BY <1>4, <1>5, <1>7
<1> HIDE DEF x
<1>9. p \in Int /\ r \in 0 .. (W - 1) /\ r = x - W * p
  BY <1>1, <1>8
<1> HIDE DEF p, r
<1>13. x = hn - hm - borrow
  BY DEF x
<1> HIDE DEF hn, hm, ln, lm, qn, qm
<1>14. E \in Int /\ E = dn - dm - borrow
  <2>1. W * (qn - qm) = W * qn - W * qm
    BY <1>1, <1>4, <1>5
  <2>2. W * qn \in Int /\ W * qm \in Int /\ W * qn = dn - hn /\ W * qm = dm - hm
    BY <1>1, <1>2, <1>3, <1>4, <1>5
  <2> QED
    BY <2>1, <2>2, <1>2, <1>3, <1>4, <1>5, <1>7, <1>13
<1>15. n - m = W * E + lo
  BY <1>1, <1>2, <1>3, <1>7, <1>14
<1>16. E = W * (qn - qm + p) + r
  BY <1>1, <1>4, <1>5, <1>8, <1>9
<1> DEFINE k == qn - qm + p
<1>17. k \in Int
  BY <1>4, <1>5, <1>9
<1> HIDE DEF E, k
<1>18. E >= 0
  <2>1. ASSUME E <= -1 PROVE FALSE
    <3>1. W * E <= -W
      BY <1>1, <1>14, <2>1
    <3> QED
      BY <3>1, <1>1, <1>7, <1>14, <1>15
  <2> QED
    BY <2>1, <1>14
<1>19. E < W
  <2>1. ASSUME E >= W PROVE FALSE
    <3>1. W * E >= W * W
      BY <1>1, <1>14, <2>1
    <3> QED
      BY <3>1, <1>1, <1>7, <1>14, <1>15
  <2> QED
    BY <2>1, <1>1, <1>14
<1>20. E = W * 0 + E
  BY <1>1, <1>14
<1>21. E % W = E
  BY <1>1, <1>14, <1>18, <1>19, <1>20, Quotient
<1>22. E % W = r
  BY <1>1, <1>9, <1>14, <1>16, <1>17, Quotient DEF k
<1> QED
  BY <1>1, <1>6, <1>7, <1>9, <1>14, <1>15, <1>21, <1>22

-----------------------------------------------------------------------------
\* Seconds and microseconds.

\* The seconds and microseconds of a timeval are its number of microseconds.
LEMMA Timeval ==
  ASSUME NEW us \in Int
  PROVE  /\ timeval(us).tv_sec \in Int /\ timeval(us).tv_usec \in 0 .. (USEC - 1)
         /\ USEC * timeval(us).tv_sec = us - timeval(us).tv_usec
<1>1. USEC \in Nat \ {0}
  BY FTimerAssumption
<1> DEFINE q == us \div USEC
           r == us % USEC
<1>2. q \in Int /\ r \in 0 .. (USEC - 1) /\ r = us - USEC * q
  BY <1>1
<1>3. timeval(us).tv_sec = q /\ timeval(us).tv_usec = r
  BY DEF timeval
<1> HIDE DEF q, r
<1> QED
  BY <1>1, <1>2, <1>3

\* The interval timer tells the time since it was set.
LEMMA EtimeExact ==
  ASSUME NEW n \in Nat, armed \in Nat
  PROVE  get_etime(n) = n - armed
<1>1. USEC \in Nat \ {0} /\ MAX_ETIME \in Nat
  BY FTimerAssumption
<1> DEFINE left == MAX_ETIME * USEC - (n - armed)
           s == timeval(left).tv_sec
           u == timeval(left).tv_usec
<1>2. left \in Int
  BY <1>1
<1>3. get_etime(n) = USEC * (MAX_ETIME - s) + (0 - u)
  BY DEF get_etime, getitimer
<1> HIDE DEF left
<1>4. s \in Int /\ u \in Int /\ USEC * s = left - u
  BY <1>1, <1>2, Timeval
<1> HIDE DEF s, u
<1>5. USEC * (MAX_ETIME - s) = USEC * MAX_ETIME - USEC * s
  BY <1>1, <1>4
<1>6. USEC * MAX_ETIME = MAX_ETIME * USEC /\ USEC * MAX_ETIME \in Nat
  BY <1>1
<1> QED
  BY <1>1, <1>2, <1>3, <1>4, <1>5, <1>6 DEF left

\* So does the difference of two times of day, whatever seconds began in
\* between.
LEMMA TodExact ==
  ASSUME NEW n \in Nat, NEW m \in Nat, stv = timeval(m)
  PROVE  tod_diff(timeval(n)) = n - m
<1>1. USEC \in Nat \ {0}
  BY FTimerAssumption
<1> DEFINE s == timeval(n).tv_sec
           u == timeval(n).tv_usec
           s0 == timeval(m).tv_sec
           u0 == timeval(m).tv_usec
<1>2. s \in Int /\ u \in Int /\ USEC * s = n - u
  BY <1>1, Timeval
<1>3. s0 \in Int /\ u0 \in Int /\ USEC * s0 = m - u0
  BY <1>1, Timeval
<1>4. tod_diff(timeval(n)) = USEC * (s - s0) + (u - u0)
  BY DEF tod_diff
<1> HIDE DEF s, u, s0, u0
<1>5. USEC * (s - s0) = USEC * s - USEC * s0
  BY <1>1, <1>2, <1>3
<1> QED
  BY <1>2, <1>3, <1>4, <1>5

-----------------------------------------------------------------------------
\* The clocks.

\* Work brings the clocks forward, and every interrupt by TICK more.
LEMMA AfterLater ==
  ASSUME NEW c \in Clocks, NEW d \in Nat
  PROVE  /\ After(c, d) \in Clocks /\ Later(c, After(c, d), d)
         /\ After(c, d).now >= c.now + d /\ After(c, d).utime >= c.utime
<1>1. PERIOD \in Nat \ {0} /\ TICK \in Nat
  BY ClockAssumption
<1>2. c.now \in Nat /\ c.utime \in Nat /\ c.quiet \in 0 .. (PERIOD - 1)
  BY DEF Clocks
<1> DEFINE w == c.quiet + d
           t == w \div PERIOD
           r == w % PERIOD
<1>3. w \in Nat
  BY <1>1, <1>2
<1>4. After(c, d) = [now |-> c.now + d + t * TICK, utime |-> c.utime + t, quiet |-> r]
  BY DEF After
<1> HIDE DEF w
<1>5. t \in Nat /\ r \in 0 .. (PERIOD - 1) /\ r = w - PERIOD * t
  BY <1>1, <1>3
<1> HIDE DEF t, r
<1>6. t * TICK \in Nat /\ (c.utime + t) - c.utime = t /\ PERIOD * t = t * PERIOD /\ t * PERIOD \in Nat
  BY <1>1, <1>2, <1>5
<1> QED
  BY <1>1, <1>2, <1>3, <1>4, <1>5, <1>6 DEF Clocks, Later, w

\* A later time of a later time is a later time.
LEMMA LaterStill ==
  ASSUME NEW c \in Clocks, NEW c2 \in Clocks, NEW c3 \in Clocks, NEW w \in Nat, NEW w2 \in Nat,
         Later(c, c2, w), Later(c2, c3, w2)
  PROVE  Later(c, c3, w + w2)
<1>1. PERIOD \in Nat /\ TICK \in Nat
  BY ClockAssumption
<1> DEFINE t == c2.utime - c.utime
           t2 == c3.utime - c2.utime
<1>2. /\ c.utime \in Nat /\ c2.utime \in Nat /\ c3.utime \in Nat
      /\ c.now \in Nat /\ c2.now \in Nat /\ c3.now \in Nat
      /\ c.quiet \in Nat /\ c2.quiet \in Nat /\ c3.quiet \in Nat
  BY <1>1 DEF Clocks
<1>3. t \in Nat /\ t2 \in Nat /\ c3.utime - c.utime = t + t2
  BY <1>2 DEF Later
<1>4. /\ c2.now = c.now + w + t * TICK /\ c2.quiet + t * PERIOD = c.quiet + w
      /\ c3.now = c2.now + w2 + t2 * TICK /\ c3.quiet + t2 * PERIOD = c2.quiet + w2
  BY DEF Later
<1> HIDE DEF t, t2
<1>5. (t + t2) * TICK = t * TICK + t2 * TICK /\ (t + t2) * PERIOD = t * PERIOD + t2 * PERIOD
  BY <1>1, <1>3
<1>6. t * TICK \in Nat /\ t2 * TICK \in Nat /\ t * PERIOD \in Nat /\ t2 * PERIOD \in Nat
  BY <1>1, <1>3
<1>7. c3.now = c.now + (w + w2) + (t + t2) * TICK
  BY <1>2, <1>4, <1>5, <1>6
<1>8. c3.quiet + (t + t2) * PERIOD = c.quiet + (w + w2)
  BY <1>2, <1>4, <1>5, <1>6
<1> QED
  BY <1>2, <1>3, <1>7, <1>8 DEF Later

\* No work, no time.
LEMMA LaterNow ==
  ASSUME NEW c \in Clocks
  PROVE  Later(c, c, 0)
<1>1. PERIOD \in Nat /\ TICK \in Nat
  BY ClockAssumption
<1>2. c.now \in Nat /\ c.utime \in Nat /\ c.quiet \in Nat
  BY <1>1 DEF Clocks
<1>3. c.utime - c.utime = 0 /\ 0 * TICK = 0 /\ 0 * PERIOD = 0
  BY <1>1, <1>2
<1> QED
  BY <1>2, <1>3 DEF Later

\* Time passes no slower than work is done.
LEMMA LaterWork ==
  ASSUME NEW c \in Clocks, NEW c2 \in Clocks, NEW w \in Nat, Later(c, c2, w)
  PROVE  /\ w <= c2.now - c.now
         /\ c2.utime = c.utime => c2.now - c.now = w
         /\ c2.utime = c.utime + 1 => c2.now - c.now = w + TICK
<1>1. TICK \in Nat
  BY ClockAssumption
<1>2. PICK t \in Nat : t = c2.utime - c.utime
  BY DEF Clocks, Later
<1>3. c2.now = c.now + w + t * TICK
  BY <1>2 DEF Later
<1>4. t * TICK \in Nat /\ (t = 0 => t * TICK = 0) /\ (t = 1 => t * TICK = TICK)
  BY <1>1, <1>2
<1> QED
  BY <1>1, <1>2, <1>3, <1>4 DEF Clocks

\* At most one interrupt falls into PERIOD cycles of work.
LEMMA OneTick ==
  ASSUME NEW c \in Clocks, NEW c2 \in Clocks, NEW w \in Nat, Later(c, c2, w), w <= PERIOD
  PROVE  c2.utime = c.utime \/ c2.utime = c.utime + 1
<1>1. PERIOD \in Nat \ {0}
  BY ClockAssumption
<1>2. PICK t \in Nat : t = c2.utime - c.utime
  BY DEF Clocks, Later
<1>3. c2.quiet + t * PERIOD = c.quiet + w
  BY <1>2 DEF Later
<1>4. c.quiet \in 0 .. (PERIOD - 1) /\ c2.quiet \in 0 .. (PERIOD - 1)
  BY DEF Clocks
<1>5. ASSUME t >= 2 PROVE FALSE
  <2>1. t * PERIOD >= 2 * PERIOD
    BY <1>1, <1>2, <1>5
  <2>2. t * PERIOD \in Nat
    BY <1>1
  <2> QED
    BY <2>1, <2>2, <1>1, <1>3, <1>4
<1>6. t = 0 \/ t = 1
  BY <1>5
<1> QED
  BY <1>2, <1>6 DEF Clocks

-----------------------------------------------------------------------------
\* The sampler.

\* Every nonempty set of natural numbers has a least element.
LEMMA Least ==
  ASSUME NEW T, T \subseteq Nat, T # {}
  PROVE  \E x \in T : \A y \in T : x <= y
<1> DEFINE R == {ss \in Nat \X Nat : ss[1] < ss[2]}
<1>1. IsWellFoundedOn(R, Nat)
  BY NatLessThanWellFounded DEF OpToRel
<1> HIDE DEF R
<1>2. PICK x \in T : \A y \in T : ~(<<y, x>> \in R)
  BY <1>1, WFMin
<1>3. \A y \in T : ~(y < x)
  BY <1>2 DEF R
<1> QED
  BY <1>3

\* The samples no larger than v are finitely many.
LEMMA AtMostType ==
  ASSUME NEW samples \in Seq(Sample), NEW v \in Int
  PROVE  /\ IsFiniteSet({j \in DOMAIN samples : samples[j].val <= v})
         /\ AtMost(samples, v) \in Nat /\ AtMost(samples, v) <= Len(samples)
<1> DEFINE T == {j \in DOMAIN samples : samples[j].val <= v}
           n == Len(samples)
<1>1. n \in Nat /\ T \subseteq 1 .. n
  OBVIOUS
<1> HIDE DEF n, T
<1>2. IsFiniteSet(1 .. n) /\ Cardinality(1 .. n) = n
  <2>1. /\ IsFiniteSet(1 .. n)
        /\ Cardinality(1 .. n) = IF 1 > n THEN 0 ELSE n - 1 + 1
    BY <1>1, FS_Interval
  <2> QED
    BY <2>1, <1>1
<1>3. IsFiniteSet(T) /\ Cardinality(T) <= n
  BY <1>1, <1>2, FS_Subset
<1>4. Cardinality(T) \in Nat
  BY <1>3, FS_CardinalityType
<1> QED
  BY <1>3, <1>4 DEF AtMost, T, n

\* The larger v is, the more samples are no larger.
LEMMA AtMostMonotonic ==
  ASSUME NEW samples \in Seq(Sample), NEW u \in Int, NEW v \in Int, u <= v
  PROVE  AtMost(samples, u) <= AtMost(samples, v)
<1> DEFINE T(w) == {j \in DOMAIN samples : samples[j].val <= w}
<1>1. IsFiniteSet(T(v))
  BY AtMostType
<1>2. \A j \in DOMAIN samples : samples[j].val \in Int
  <2>1. \A j \in DOMAIN samples : samples[j] \in Sample
    OBVIOUS
  <2> QED
    BY <2>1 DEF Sample
<1>3. T(u) \subseteq T(v)
  BY <1>2
<1> HIDE DEF T
<1>4. Cardinality(T(u)) <= Cardinality(T(v))
  BY <1>1, <1>3, FS_Subset
<1> QED
  BY <1>4 DEF AtMost, T

\* A new sample counts where it is no larger.
LEMMA AtMostAppend ==
  ASSUME NEW samples \in Seq(Sample), NEW x \in Sample, NEW v \in Int
  PROVE  AtMost(Append(samples, x), v) = AtMost(samples, v) + IF x.val <= v THEN 1 ELSE 0
<1> DEFINE T(ss) == {j \in DOMAIN ss : ss[j].val <= v}
           new == Append(samples, x)
           n == Len(samples)
<1>1. n \in Nat /\ DOMAIN samples = 1 .. n /\ DOMAIN new = 1 .. (n + 1)
  OBVIOUS
<1>2. new[n + 1] = x /\ \A j \in 1 .. n : new[j] = samples[j]
  OBVIOUS
<1>3. IsFiniteSet(T(samples)) /\ Cardinality(T(samples)) \in Nat
  BY AtMostType DEF AtMost
<1> HIDE DEF new, n
<1>4. CASE x.val <= v
  <2>1. T(new) = T(samples) \union {n + 1} /\ n + 1 \notin T(samples)
    BY <1>1, <1>2, <1>4
  <2> HIDE DEF T
  <2>2. Cardinality(T(new)) = Cardinality(T(samples)) + 1
    BY <2>1, <1>3, FS_AddElement
  <2> QED
    BY <2>2, <1>4 DEF AtMost, T, new
<1>5. CASE ~(x.val <= v)
  <2>1. T(new) = T(samples)
    BY <1>1, <1>2, <1>5
  <2> HIDE DEF T
  <2>2. Cardinality(T(new)) = Cardinality(T(samples)) + 0
    BY <2>1, <1>3
  <2> QED
    BY <2>2, <1>5 DEF AtMost, T, new
<1> QED
  BY <1>4, <1>5

\* The value at pos moves to q, below those that are larger.
Sunk(v, new, q, pos, k) ==
  /\ \A j \in q .. (pos - 1) : v[j] > v[pos]
  /\ q > 0 => v[q - 1] <= v[pos]
  /\ \A j \in 0 .. (k - 1) :
       new[j] = IF j = q THEN v[pos] ELSE IF j > q /\ j <= pos THEN v[j - 1] ELSE v[j]

\* So it does in SiftDown.
LEMMA SiftsDown ==
  ASSUME NEW k \in Nat, NEW v \in [0 .. (k - 1) -> Int], NEW pos \in 0 .. (k - 1)
  PROVE  /\ SiftDown(v, pos) \in [0 .. (k - 1) -> Int]
         /\ \E q \in 0 .. pos : Sunk(v, SiftDown(v, pos), q, pos, k)
<1> DEFINE new == SiftDown(v, pos)
           Above(q) == \A j \in q .. (pos - 1) : v[j] > v[pos]
           G == {q \in 0 .. pos : Above(q)}
           to == CHOOSE q \in 0 .. pos : Above(q) /\ (q > 0 => v[q - 1] <= v[pos])
<1>1. G \subseteq Nat /\ pos \in G
  OBVIOUS
<1>2. PICK least \in G : \A q \in G : least <= q
  <2> HIDE DEF G
  <2> QED
    BY <1>1, Least
<1>3. least > 0 => v[least - 1] <= v[pos]
  <2>1. ASSUME least > 0, v[least - 1] > v[pos] PROVE FALSE
    <3>1. least - 1 \in 0 .. pos
      BY <1>2, <2>1
    <3>2. Above(least - 1)
      <4> TAKE j \in (least - 1) .. (pos - 1)
      <4>1. j = least - 1 \/ j \in least .. (pos - 1)
        BY <1>2
      <4> QED
        BY <4>1, <1>2, <2>1
    <3>3. least - 1 \in G
      BY <3>1, <3>2
    <3> HIDE DEF G
    <3>4. least \in Nat /\ least <= least - 1
      BY <3>3, <1>1, <1>2
    <3> QED
      BY <3>4
  <2>2. least > 0 => v[least - 1] \in Int /\ v[pos] \in Int
    BY <1>2
  <2> QED
    BY <2>1, <2>2
<1>4. to \in 0 .. pos /\ Above(to) /\ (to > 0 => v[to - 1] <= v[pos])
  BY <1>2, <1>3
<1>5. new = [j \in 0 .. (k - 1) |-> CASE j = to -> v[pos]
                                    [] j > to /\ j <= pos -> v[j - 1]
                                    [] OTHER -> v[j]]
  BY DEF SiftDown
<1> HIDE DEF to, new
<1>6. \A j \in 0 .. (k - 1) :
        new[j] = IF j = to THEN v[pos] ELSE IF j > to /\ j <= pos THEN v[j - 1] ELSE v[j]
  <2> TAKE j \in 0 .. (k - 1)
  <2>1. new[j] = CASE j = to -> v[pos]
                   [] j > to /\ j <= pos -> v[j - 1]
                   [] OTHER -> v[j]
    BY <1>5
  <2>2. CASE j = to
    BY <2>1, <2>2, <1>4
  <2>3. CASE j > to /\ j <= pos
    BY <2>1, <2>3, <1>4
  <2>4. CASE j # to /\ ~(j > to /\ j <= pos)
    BY <2>1, <2>4, <1>4
  <2> QED
    BY <2>2, <2>3, <2>4
<1>7. \A j \in 0 .. (k - 1) : new[j] \in Int
  <2> TAKE j \in 0 .. (k - 1)
  <2>1. j > to => j - 1 \in 0 .. (k - 1)
    BY <1>4
  <2> QED
    BY <1>6, <2>1
<1>8. new \in [0 .. (k - 1) -> Int]
  <2>1. DOMAIN new = 0 .. (k - 1) /\ new = [j \in 0 .. (k - 1) |-> new[j]]
    BY <1>5
  <2> QED
    BY <2>1, <1>7
<1>9. Sunk(v, new, to, pos, k)
  BY <1>4, <1>6 DEF Sunk
<1> QED
  BY <1>4, <1>8, <1>9 DEF new

\* A sample that is no smaller than w leaves the rank of w as it is.
LEMMA RankBelow ==
  ASSUME NEW samples \in Seq(Sample), NEW x \in Sample, NEW w \in Int, NEW j \in Nat,
         w <= x.val, Rank(w, j, samples)
  PROVE  Rank(w, j, Append(samples, x))
<1>1. PICK val \in Int : val = x.val
  BY DEF Sample
<1>2. w - 1 \in Int /\ ~(val <= w - 1)
  BY <1>1
<1>3. AtMost(Append(samples, x), w - 1) = AtMost(samples, w - 1) + IF val <= w - 1 THEN 1 ELSE 0
  BY <1>1, <1>2, AtMostAppend
<1>4. AtMost(Append(samples, x), w) = AtMost(samples, w) + IF val <= w THEN 1 ELSE 0
  BY <1>1, AtMostAppend
<1>5. AtMost(samples, w) \in Nat /\ AtMost(samples, w - 1) \in Nat
  BY <1>2, AtMostType
<1>6. AtMost(samples, w - 1) <= j /\ AtMost(samples, w) > j
  BY DEF Rank, Below
<1> QED
  BY <1>2, <1>3, <1>4, <1>5, <1>6 DEF Rank, Below

\* One that is smaller raises it by one.
LEMMA RankAbove ==
  ASSUME NEW samples \in Seq(Sample), NEW x \in Sample, NEW w \in Int, NEW j \in Nat,
         w > x.val, Rank(w, j, samples)
  PROVE  Rank(w, j + 1, Append(samples, x))
<1>1. PICK val \in Int : val = x.val
  BY DEF Sample
<1>2. w - 1 \in Int /\ val <= w - 1 /\ val <= w
  BY <1>1
<1>3. AtMost(Append(samples, x), w - 1) = AtMost(samples, w - 1) + IF val <= w - 1 THEN 1 ELSE 0
  BY <1>1, <1>2, AtMostAppend
<1>4. AtMost(Append(samples, x), w) = AtMost(samples, w) + IF val <= w THEN 1 ELSE 0
  BY <1>1, AtMostAppend
<1>5. AtMost(samples, w) \in Nat /\ AtMost(samples, w - 1) \in Nat
  BY <1>2, AtMostType
<1>6. AtMost(samples, w - 1) <= j /\ AtMost(samples, w) > j
  BY DEF Rank, Below
<1> QED
  BY <1>2, <1>3, <1>4, <1>5, <1>6 DEF Rank, Below

\* The new sample itself has rank j if no more than j are smaller, and j are
\* no larger.
LEMMA RankOfNew ==
  ASSUME NEW samples \in Seq(Sample), NEW x \in Sample, NEW w \in Int, NEW j \in Nat,
         w = x.val, Below(samples, w) <= j, AtMost(samples, w) >= j
  PROVE  Rank(w, j, Append(samples, x))
<1>1. PICK val \in Int : val = x.val
  BY DEF Sample
<1>2. w - 1 \in Int /\ ~(val <= w - 1) /\ val <= w
  BY <1>1
<1>3. AtMost(Append(samples, x), w - 1) = AtMost(samples, w - 1) + IF val <= w - 1 THEN 1 ELSE 0
  BY <1>1, <1>2, AtMostAppend
<1>4. AtMost(Append(samples, x), w) = AtMost(samples, w) + IF val <= w THEN 1 ELSE 0
  BY <1>1, AtMostAppend
<1>5. AtMost(samples, w) \in Nat /\ AtMost(samples, w - 1) \in Nat
  BY <1>2, AtMostType
<1>6. AtMost(samples, w - 1) <= j /\ AtMost(samples, w) >= j
  BY DEF Below
<1> QED
  BY <1>2, <1>3, <1>4, <1>5, <1>6 DEF Rank, Below

\* What the rank of w says of the values on either side.
LEMMA RankBounds ==
  ASSUME NEW samples \in Seq(Sample), NEW w \in Int, NEW j \in Nat, Rank(w, j, samples),
         NEW y \in Int
  PROVE  /\ y <= w => Below(samples, y) <= j
         /\ w <= y => AtMost(samples, y) >= j + 1
<1>1. AtMost(samples, w - 1) <= j /\ AtMost(samples, w) > j
  BY DEF Rank, Below
<1>2. w - 1 \in Int /\ y - 1 \in Int
  OBVIOUS
<1>3. /\ AtMost(samples, w) \in Nat /\ AtMost(samples, w - 1) \in Nat
      /\ AtMost(samples, y) \in Nat /\ AtMost(samples, y - 1) \in Nat
  BY <1>2, AtMostType
<1>4. ASSUME y <= w PROVE Below(samples, y) <= j
  <2>1. y - 1 <= w - 1
    BY <1>4
  <2>2. AtMost(samples, y - 1) <= AtMost(samples, w - 1)
    BY <2>1, <1>2, AtMostMonotonic
  <2> QED
    BY <2>2, <1>1, <1>3 DEF Below
<1>5. ASSUME w <= y PROVE AtMost(samples, y) >= j + 1
  <2>1. AtMost(samples, w) <= AtMost(samples, y)
    BY <1>5, AtMostMonotonic
  <2> QED
    BY <2>1, <1>1, <1>3
<1> QED
  BY <1>4, <1>5

\* v becomes new when val is inserted at q, the place among the values up to
\* pos that is its own.
Inserted(v, new, q, pos, val) ==
  /\ \A j \in 0 .. (q - 1) : new[j] = v[j] /\ v[j] <= val
  /\ new[q] = val
  /\ \A j \in q .. (pos - 1) : new[j + 1] = v[j] /\ v[j] > val

\* That sample shifts the ranks of the larger ones by one, and those are one
\* more by it.
LEMMA RankedInsert ==
  ASSUME NEW k \in Nat, NEW v \in [0 .. (k - 1) -> Int], NEW new,
         NEW samples \in Seq(Sample), NEW n \in Nat, NEW x \in Sample,
         NEW pos \in 0 .. (k - 1), NEW q \in 0 .. pos, NEW val \in Int
  PROVE  /\ val = x.val
         /\ \A j \in 0 .. (pos - 1) : Rank(v[j], j, samples)
         /\ \A j, l \in 0 .. (pos - 1) : j < l => v[j] <= v[l]
         /\ Inserted(v, new, q, pos, val)
         /\ pos = n \/ pos = k - 1
         /\ Below(samples, val) <= pos
         => Ranked(k, new, Append(samples, x), n + 1)
<1>a. SUFFICES ASSUME val = x.val,
                      \A j \in 0 .. (pos - 1) : Rank(v[j], j, samples),
                      \A j, l \in 0 .. (pos - 1) : j < l => v[j] <= v[l],
                      Inserted(v, new, q, pos, val),
                      pos = n \/ pos = k - 1,
                      Below(samples, val) <= pos
               PROVE  Ranked(k, new, Append(samples, x), n + 1)
  OBVIOUS
<1>1. ASSUME NEW j \in 0 .. pos
      PROVE  Rank(new[j], j, Append(samples, x))
  <2>1. CASE j < q
    <3>1. PICK y \in Int : y = v[j]
      BY <2>1
    <3>2. new[j] = y /\ y <= val /\ Rank(y, j, samples)
      BY <2>1, <3>1, <1>a DEF Inserted
    <3>3. Rank(y, j, Append(samples, x))
      BY <3>2, <1>a, RankBelow
    <3> QED
      BY <3>2, <3>3
  <2>2. CASE j = q
    <3>1. Below(samples, val) <= q
      <4>1. CASE q = pos
        BY <4>1, <1>a
      <4>2. CASE q # pos
        <5>1. PICK y \in Int : y = v[q]
          BY <4>2
        <5>2. y > val /\ Rank(y, q, samples)
          BY <4>2, <5>1, <1>a DEF Inserted
        <5> QED
          BY <5>2, RankBounds
      <4> QED
        BY <4>1, <4>2
    <3>2. AtMost(samples, val) >= q
      <4>1. CASE q = 0
        <5>1. AtMost(samples, val) \in Nat
          BY AtMostType
        <5> QED
          BY <4>1, <5>1
      <4>2. CASE q > 0
        <5>1. PICK y \in Int : y = v[q - 1]
          BY <4>2
        <5>2. PICK m \in Nat : m = q - 1
          BY <4>2
        <5>3. y <= val /\ Rank(y, m, samples)
          BY <4>2, <5>1, <5>2, <1>a DEF Inserted
        <5>4. AtMost(samples, val) >= m + 1
          BY <5>3, RankBounds
        <5> QED
          BY <5>2, <5>4
      <4> QED
        BY <4>1, <4>2
    <3>3. Rank(val, q, Append(samples, x))
      BY <3>1, <3>2, <1>a, RankOfNew
    <3> QED
      BY <3>3, <2>2, <1>a DEF Inserted
  <2>3. CASE j > q
    <3>1. PICK m \in q .. (pos - 1) : m = j - 1
      BY <2>3
    <3>2. PICK y \in Int : y = v[m]
      OBVIOUS
    <3>3. new[m + 1] = y /\ y > val /\ Rank(y, m, samples)
      BY <3>2, <1>a DEF Inserted
    <3>4. Rank(y, m + 1, Append(samples, x))
      BY <3>3, <1>a, RankAbove
    <3>5. j = m + 1
      BY <3>1
    <3> QED
      BY <3>3, <3>4, <3>5
  <2> QED
    BY <2>1, <2>2, <2>3
<1>2. ASSUME NEW j \in 0 .. pos, NEW l \in 0 .. pos, j < l
      PROVE  new[j] <= new[l]
  <2>1. CASE l < q
    <3>1. new[j] = v[j] /\ new[l] = v[l] /\ j \in 0 .. (pos - 1) /\ l \in 0 .. (pos - 1)
      BY <2>1, <1>2, <1>a DEF Inserted
    <3> QED
      BY <3>1, <1>a, <1>2
  <2>2. CASE l = q
    BY <2>2, <1>a, <1>2 DEF Inserted
  <2>3. CASE l > q
    <3>1. PICK m \in q .. (pos - 1) : m = l - 1
      BY <2>3
    <3>2. new[m + 1] = v[m] /\ v[m] > val /\ v[m] \in Int /\ new[q] = val
      BY <3>1, <1>a DEF Inserted
    <3>3. CASE j < q
      <4>1. new[j] = v[j] /\ j \in 0 .. (pos - 1) /\ m \in 0 .. (pos - 1) /\ j < m
        BY <3>1, <3>3, <1>2, <1>a DEF Inserted
      <4> QED
        BY <3>1, <3>2, <4>1, <1>a
    <3>4. CASE j = q
      BY <3>1, <3>2, <3>4
    <3>5. CASE j > q
      <4>1. PICK m0 \in q .. (pos - 1) : m0 = j - 1
        BY <3>5
      <4>2. new[m0 + 1] = v[m0] /\ m0 \in 0 .. (pos - 1) /\ m \in 0 .. (pos - 1) /\ m0 < m
        BY <4>1, <3>1, <1>2, <1>a DEF Inserted
      <4>3. v[m0] <= v[m]
        BY <4>2, <1>a
      <4> QED
        BY <4>1, <4>2, <4>3, <3>1, <3>2
    <3> QED
      BY <3>3, <3>4, <3>5
  <2> QED
    BY <2>1, <2>2, <2>3
<1>3. \A j \in 0 .. (k - 1) : j < n + 1 => j \in 0 .. pos
  BY <1>a
<1>4. \A j \in 0 .. (k - 1) : j < n + 1 => Rank(new[j], j, Append(samples, x))
  BY <1>1, <1>3
<1>5. \A j, l \in 0 .. (k - 1) : j < l /\ l < n + 1 => new[j] <= new[l]
  BY <1>2, <1>3
<1> QED
  BY <1>4, <1>5 DEF Ranked

\* What add_sample does with the array of a value that it puts at pos first.
LEMMA Sifted ==
  ASSUME NEW k \in Nat, NEW v \in [0 .. (k - 1) -> Int], NEW pos \in 0 .. (k - 1), NEW val \in Int,
         \A j, l \in 0 .. (pos - 1) : j < l => v[j] <= v[l]
  PROVE  LET new == SiftDown([v EXCEPT ![pos] = val], pos)
         IN  /\ new \in [0 .. (k - 1) -> Int]
             /\ \E q \in 0 .. pos : Inserted(v, new, q, pos, val)
<1> DEFINE u == [v EXCEPT ![pos] = val]
           new == SiftDown(u, pos)
<1>0. u \in [0 .. (k - 1) -> Int]
  OBVIOUS
<1>1. u[pos] = val /\ \A j \in 0 .. (pos - 1) : u[j] = v[j]
  OBVIOUS
<1> HIDE DEF u
<1>2. SiftDown(u, pos) \in [0 .. (k - 1) -> Int] /\ \E q \in 0 .. pos : Sunk(u, SiftDown(u, pos), q, pos, k)
  BY <1>0, SiftsDown, Zenon
<1>9. PICK q \in 0 .. pos : Sunk(u, new, q, pos, k)
  BY <1>2
<1>3. /\ \A j \in q .. (pos - 1) : u[j] > u[pos]
      /\ q > 0 => u[q - 1] <= u[pos]
      /\ \A j \in 0 .. (k - 1) :
             new[j] = IF j = q THEN u[pos]
                      ELSE IF j > q /\ j <= pos THEN u[j - 1] ELSE u[j]
  BY <1>9 DEF Sunk
<1>4. new \in [0 .. (k - 1) -> Int]
  BY <1>2
<1> HIDE DEF new
<1>5. ASSUME NEW j \in 0 .. (q - 1) PROVE new[j] = v[j] /\ v[j] <= val
  <2>1. new[j] = v[j]
    BY <1>1, <1>3
  <2>2. PICK m \in 0 .. (pos - 1) : m = q - 1
    OBVIOUS
  <2>3. v[m] <= val /\ v[m] \in Int /\ v[j] \in Int
    BY <1>1, <1>3, <2>2
  <2>4. j \in 0 .. (pos - 1) /\ (j = m \/ j < m)
    BY <2>2
  <2>5. j = m \/ v[j] <= v[m]
    BY <2>4
  <2> QED
    BY <2>1, <2>3, <2>5
<1>6. new[q] = val
  BY <1>1, <1>3
<1>7. ASSUME NEW j \in q .. (pos - 1) PROVE new[j + 1] = v[j] /\ v[j] > val
  <2>1. j + 1 \in 0 .. (k - 1) /\ j + 1 # q /\ j + 1 > q /\ j + 1 <= pos /\ (j + 1) - 1 = j
    OBVIOUS
  <2>2. new[j + 1] = u[j]
    BY <2>1, <1>3
  <2>3. j \in 0 .. (pos - 1)
    OBVIOUS
  <2> QED
    BY <2>2, <2>3, <1>1, <1>3
<1>8. Inserted(v, new, q, pos, val)
  BY <1>5, <1>6, <1>7 DEF Inserted
<1> QED
  BY <1>4, <1>8 DEF new, u

\* add_sample keeps the kbest least samples.
LEMMA AddSample ==
  ASSUME NEW k \in Nat \ {0}, NEW v \in [0 .. (k - 1) -> Int], NEW samples \in Seq(Sample),
         NEW n \in Nat, NEW x \in Sample
  PROVE  k = par["kbest"] /\ n = Len(samples) /\ Ranked(k, v, samples, n)
         => /\ add_sample(v, n, x.val) \in [0 .. (k - 1) -> Int]
            /\ Ranked(k, add_sample(v, n, x.val), Append(samples, x), n + 1)
<1> DEFINE new == add_sample(v, n, x.val)
<1>a. SUFFICES ASSUME k = par["kbest"], n = Len(samples), Ranked(k, v, samples, n)
               PROVE  new \in [0 .. (k - 1) -> Int] /\ Ranked(k, new, Append(samples, x), n + 1)
  OBVIOUS
<1>1. PICK val \in Int : val = x.val
  BY DEF Sample
<1>0. new = CASE n <= k - 1 -> SiftDown([v EXCEPT ![n] = val], n)
              [] n > k - 1 /\ val < v[k - 1] -> SiftDown([v EXCEPT ![k - 1] = val], k - 1)
              [] OTHER -> v
  BY <1>1, <1>a DEF add_sample
<1> DEFINE S(pos) == SiftDown([v EXCEPT ![pos] = val], pos)
<1> HIDE DEF new, S
<1>2. \A j \in 0 .. (k - 1) : j < n => Rank(v[j], j, samples)
  BY <1>a DEF Ranked
<1>3. \A j, l \in 0 .. (k - 1) : j < l /\ l < n => v[j] <= v[l]
  BY <1>a DEF Ranked
<1>4. ASSUME NEW pos \in 0 .. (k - 1), pos <= n, pos = n \/ pos = k - 1,
             Below(samples, val) <= pos,
             new = S(pos)
      PROVE  new \in [0 .. (k - 1) -> Int] /\ Ranked(k, new, Append(samples, x), n + 1)
  <2>1. \A j \in 0 .. (pos - 1) : Rank(v[j], j, samples)
    BY <1>2, <1>4
  <2>2. \A j, l \in 0 .. (pos - 1) : j < l => v[j] <= v[l]
    BY <1>3, <1>4
  <2>3. /\ SiftDown([v EXCEPT ![pos] = val], pos) \in [0 .. (k - 1) -> Int]
        /\ \E q \in 0 .. pos : Inserted(v, SiftDown([v EXCEPT ![pos] = val], pos), q, pos, val)
    BY <2>2, Sifted
  <2>4. new \in [0 .. (k - 1) -> Int] /\ \E q \in 0 .. pos : Inserted(v, new, q, pos, val)
    BY <2>3, <1>4, Zenon DEF S
  <2>5. PICK q \in 0 .. pos : Inserted(v, new, q, pos, val)
    BY <2>4
  <2>6. Ranked(k, new, Append(samples, x), n + 1)
    BY <2>1, <2>2, <2>5, <1>1, <1>4, RankedInsert
  <2> QED
    BY <2>4, <2>6
<1>5. CASE n <= k - 1
  <2>1. new = S(n)
    BY <1>0, <1>5 DEF S
  <2>2. val - 1 \in Int
    OBVIOUS
  <2>3. Below(samples, val) <= n
    BY <2>2, <1>a, AtMostType DEF Below
  <2> QED
    BY <2>1, <2>3, <1>4, <1>5
<1>6. CASE n > k - 1 /\ val < v[k - 1]
  <2>1. new = S(k - 1)
    BY <1>0, <1>6 DEF S
  <2>2. PICK m \in 0 .. (k - 1) : m = k - 1
    OBVIOUS
  <2>3. PICK y \in Int : y = v[m]
    OBVIOUS
  <2>4. val < y /\ Rank(y, m, samples)
    BY <2>2, <2>3, <1>2, <1>6
  <2>5. Below(samples, val) <= m
    BY <2>4, RankBounds
  <2> QED
    BY <2>1, <2>2, <2>5, <1>4, <1>6
<1>7. CASE n > k - 1 /\ ~(val < v[k - 1])
  <2>1. new = v
    BY <1>0, <1>7
  <2>2. ASSUME NEW j \in 0 .. (k - 1)
        PROVE  Rank(v[j], j, Append(samples, x))
    <3>1. PICK y \in Int : y = v[j]
      OBVIOUS
    <3>2. Rank(y, j, samples)
      BY <3>1, <1>2, <1>7
    <3>3. PICK m \in 0 .. (k - 1) : m = k - 1
      OBVIOUS
    <3>4. PICK z \in Int : z = v[m]
      OBVIOUS
    <3>5. z <= val
      BY <3>3, <3>4, <1>7
    <3>6. j = m \/ v[j] <= v[m]
      BY <3>3, <1>3, <1>7
    <3>7. y <= z
      BY <3>1, <3>4, <3>6
    <3>8. y <= x.val
      BY <3>5, <3>7, <1>1
    <3>9. Rank(y, j, Append(samples, x))
      BY <3>2, <3>8, RankBelow
    <3> QED
      BY <3>1, <3>9
  <2>3. \A j, l \in 0 .. (k - 1) : j < l /\ l < n + 1 => v[j] <= v[l]
    BY <1>3, <1>7
  <2> QED
    BY <2>1, <2>2, <2>3 DEF Ranked
<1> QED
  BY <1>5, <1>6, <1>7 DEF new

\* A count of 0 says that all samples are larger, any other that one is not.
LEMMA AtMostNone ==
  ASSUME NEW samples \in Seq(Sample), NEW v \in Int
  PROVE  /\ AtMost(samples, v) <= 0 => \A j \in DOMAIN samples : samples[j].val > v
         /\ AtMost(samples, v) > 0 => \E j \in DOMAIN samples : samples[j].val <= v
<1> DEFINE T == {j \in DOMAIN samples : samples[j].val <= v}
<1>1. IsFiniteSet(T) /\ Cardinality(T) \in Nat
  BY AtMostType DEF AtMost
<1>2. \A j \in DOMAIN samples : samples[j].val \in Int
  <2>1. \A j \in DOMAIN samples : samples[j] \in Sample
    OBVIOUS
  <2> QED
    BY <2>1 DEF Sample
<1>3. Cardinality(T) = 0 <=> T = {}
  <2> HIDE DEF T
  <2> QED
    BY <1>1, FS_EmptySet
<1>4. AtMost(samples, v) <= 0 => T = {}
  <2> HIDE DEF T
  <2> QED
    BY <1>1, <1>3 DEF AtMost, T
<1>5. AtMost(samples, v) > 0 => T # {}
  <2>1. AtMost(samples, v) = Cardinality(T)
    BY DEF AtMost
  <2> HIDE DEF T
  <2> QED
    BY <2>1, <1>1, <1>3
<1> QED
  BY <1>2, <1>4, <1>5

\* The least of a ranked array is a sample, and none is smaller.
LEMMA RankedLeast ==
  ASSUME NEW samples \in Seq(Sample), NEW w \in Int, Rank(w, 0, samples)
  PROVE  /\ \E j \in DOMAIN samples : samples[j].val = w
         /\ \A j \in DOMAIN samples : samples[j].val >= w
<1>1. w - 1 \in Int /\ AtMost(samples, w - 1) <= 0 /\ AtMost(samples, w) > 0
  BY DEF Rank, Below
<1>2. \A j \in DOMAIN samples : samples[j].val > w - 1
  BY <1>1, AtMostNone
<1>3. \E j \in DOMAIN samples : samples[j].val <= w
  BY <1>1, AtMostNone
<1>4. \A j \in DOMAIN samples : samples[j].val \in Int
  <2>1. \A j \in DOMAIN samples : samples[j] \in Sample
    OBVIOUS
  <2> QED
    BY <2>1 DEF Sample
<1> QED
  BY <1>2, <1>3, <1>4

\* has_converged: kbest samples are within epsilon of the least.
LEMMA Converged ==
  ASSUME NEW k \in Nat \ {0}, NEW w \in Int, NEW y \in Int, NEW eps \in Nat,
         NEW samples \in Seq(Sample), Rank(y, k - 1, samples), (SCALE + eps) * w >= SCALE * y
  PROVE  AtMost(samples, ((SCALE + eps) * w) \div SCALE) >= k
<1>1. SCALE \in Nat \ {0}
  BY SettingsAssumption
<1> DEFINE z == (SCALE + eps) * w
           b == z \div SCALE
<1>2. z \in Int /\ b \in Int
  BY <1>1
<1>3. SCALE * y <= z
  OBVIOUS
<1> HIDE DEF z
<1>4. y <= b
  BY <1>1, <1>2, <1>3, DivideBound
<1> HIDE DEF b
<1>5. PICK m \in Nat : m = k - 1
  OBVIOUS
<1>6. AtMost(samples, b) >= m + 1
  BY <1>2, <1>4, <1>5, RankBounds
<1> QED
  BY <1>5, <1>6 DEF b, z

\* The last int that clear reads ends inside the buffer.
LEMMA ReadInside ==
  ASSUME NEW b \in Nat, NEW c \in Nat, c < b \div INT
  PROVE  (c + 1) * INT <= b
<1>1. INT \in Nat \ {0}
  BY SettingsAssumption
<1> DEFINE q == b \div INT
           r == b % INT
<1>2. q \in Nat /\ r \in 0 .. (INT - 1) /\ r = b - INT * q
  BY <1>1
<1> HIDE DEF q, r
<1>3. c + 1 <= q
  BY <1>2 DEF q
<1>4. (c + 1) * INT <= q * INT
  BY <1>1, <1>2, <1>3, Product
<1>5. q * INT = INT * q /\ INT * q \in Nat
  BY <1>1, <1>2
<1> QED
  BY <1>1, <1>2, <1>4, <1>5

-----------------------------------------------------------------------------
\* Where the program is.

\* An iteration begins with clear, start_comp_counter or start_counter.
LEMMA IterationStart ==
  Iteration \in {"clear", "start_comp", "start"}
<1>1. CASE par["clear_cache"] # 0
  BY <1>1 DEF Iteration
<1>2. CASE par["clear_cache"] = 0
  BY <1>2 DEF Iteration
<1> QED
  BY <1>1, <1>2

\* Every step leads where the method allows.
LEMMA WhereStep ==
  ASSUME Where, method \in {"fcyc", "itimer", "gettod"}, [Next]_vars
  PROVE  Where'
<1> USE DEF Where, SamplePcs, CalPcs
<1>1. CASE init_fsecs
  BY <1>1 DEF init_fsecs
<1>2. CASE configure \/ measure_overhead
  BY <1>2 DEF configure, measure_overhead
<1>3. CASE fsecs
  BY <1>3 DEF fsecs
<1>4. CASE fsecs_return
  BY <1>4 DEF fsecs_return
<1>5. CASE ClockStep
  <2>1. method' = method
    BY <1>5 DEF ClockStep
  <2>2. CASE callibrate \/ cal_start \/ cal_loop \/ cal_event
    BY <2>1, <2>2 DEF callibrate, cal_start, cal_loop, cal_event
  <2>3. CASE cal_return \/ start_comp_counter \/ comp_times
    BY <2>1, <2>3 DEF cal_return, start_comp_counter, comp_times
  <2> QED
    BY <1>5, <2>2, <2>3 DEF ClockStep
<1>6. CASE FcycStep
  <2>1. method' = method
    BY <1>6 DEF FcycStep
  <2>2. CASE fcyc
    BY <2>1, <2>2, IterationStart DEF fcyc
  <2>3. CASE clear \/ clear_loop \/ time_f \/ stop_comp
    BY <2>1, <2>3 DEF clear, clear_loop, time_f, stop_comp
  <2>4. CASE stop_plain \/ stop_times
    <3>1. pc' = "returned" \/ pc' = Iteration
      BY <2>4 DEF stop_plain, stop_times, sample
    <3>2. pc \in {"stop", "stop_times"}
      BY <2>4 DEF stop_plain, stop_times
    <3> QED
      BY <2>1, <3>1, <3>2, IterationStart
  <2> QED
    BY <1>6, <2>2, <2>3, <2>4 DEF FcycStep
<1>7. CASE FTimerStep
  BY <1>7 DEF FTimerStep, init_etime, first_reading, run_f, last_reading
<1>8. CASE finished \/ UNCHANGED vars
  BY <1>8 DEF finished, vars
<1> QED
  BY <1>1, <1>2, <1>3, <1>4, <1>5, <1>6, <1>7, <1>8 DEF Next

-----------------------------------------------------------------------------
\* The counter holds the cycle at which the measurement began.

\* The two words of a reading.
LEMMA Words ==
  ASSUME NEW n \in Nat
  PROVE  /\ access_counter(n)[1] = (n \div W) % W /\ access_counter(n)[2] = n % W
         /\ (n \div W) % W \in 0 .. (W - 1) /\ n % W \in 0 .. (W - 1)
<1>1. W \in Nat \ {0}
  BY ClockAssumption
<1> DEFINE q == n \div W
<1>2. q \in Nat /\ n % W \in 0 .. (W - 1)
  BY <1>1
<1>3. access_counter(n)[1] = q % W /\ access_counter(n)[2] = n % W
  BY DEF access_counter
<1> HIDE DEF q
<1>4. q % W \in 0 .. (W - 1)
  BY <1>1, <1>2
<1> QED
  BY <1>2, <1>3, <1>4 DEF q

\* The words of cycle 0 are 0.
LEMMA NoWords == (0 \div W) % W = 0 /\ 0 % W = 0
<1>1. W \in Nat \ {0}
  BY ClockAssumption
<1>2. 0 = W * 0 + 0 /\ 0 \in 0 .. (W - 1)
  BY <1>1
<1>3. 0 \div W = 0 /\ 0 % W = 0
  BY <1>1, <1>2, Quotient
<1> QED
  BY <1>3

\* Time passes.
LEMMA PassOn ==
  ASSUME Counter, NEW d \in Nat, Pass(d)
  PROVE  /\ clk' \in Clocks /\ own' \in Nat /\ own' = own + d /\ Later(clk, clk', d)
         /\ clk'.now \in Nat /\ clk'.now >= clk.now + d /\ clk'.utime >= clk.utime
<1>1. clk \in Clocks /\ own \in Nat
  BY DEF Counter
<1>2. clk' = After(clk, d) /\ own' = own + d
  BY DEF Pass
<1> QED
  BY <1>1, <1>2, AfterLater DEF Clocks

\* The counter stands where the measurement begins, w cycles of work ago.
Started(w) ==
  /\ clk' \in Clocks /\ begun' \in Nat /\ own' = w /\ begun' + w <= clk'.now
  /\ cyc_hi' = (begun' \div W) % W /\ cyc_lo' = begun' % W
  /\ cyc_hi' \in 0 .. (W - 1) /\ cyc_lo' \in 0 .. (W - 1)

\* start_counter.
LEMMA StartCounter ==
  ASSUME Counter, NEW d \in Nat, start_counter(d)
  PROVE  Started(d) /\ begun' = clk.now /\ Later(clk, clk', d)
<1>1. clk \in Clocks /\ clk.now \in Nat
  BY DEF Counter, Clocks
<1>2. /\ cyc_hi' = access_counter(clk.now)[1] /\ cyc_lo' = access_counter(clk.now)[2]
      /\ begun' = clk.now /\ own' = d /\ clk' = After(clk, d)
  BY DEF start_counter
<1>3. /\ cyc_hi' = (clk.now \div W) % W /\ cyc_lo' = clk.now % W
      /\ cyc_hi' \in 0 .. (W - 1) /\ cyc_lo' \in 0 .. (W - 1)
  BY <1>1, <1>2, Words
<1>4. clk' \in Clocks /\ Later(clk, clk', d) /\ clk'.now >= clk.now + d
  BY <1>1, <1>2, AfterLater
<1>5. clk'.now \in Nat
  BY <1>4 DEF Clocks
<1> QED
  BY <1>1, <1>2, <1>3, <1>4, <1>5 DEF Started

\* ovhd.
LEMMA Overhead ==
  ASSUME Counter, ovhd
  PROVE  /\ \E d \in Nat : Started(d)
         /\ clk'.utime >= clk.utime
<1>1. clk \in Clocks
  BY DEF Counter
<1>2. PICK d, d2 \in Steps :
        /\ cyc_hi' = access_counter(After(clk, d).now)[1]
        /\ cyc_lo' = access_counter(After(clk, d).now)[2]
        /\ begun' = After(clk, d).now /\ own' = d2 /\ clk' = After(After(clk, d), d2)
  BY DEF ovhd
<1>3. d \in Nat /\ d2 \in Nat
  BY ClockAssumption
<1> DEFINE c == After(clk, d)
<1>4. c \in Clocks /\ c.utime >= clk.utime
  BY <1>1, <1>3, AfterLater
<1> HIDE DEF c
<1>5. c.now \in Nat /\ c.utime \in Nat /\ clk.utime \in Nat
  BY <1>1, <1>4 DEF Clocks
<1>6. begun' = c.now /\ own' = d2 /\ clk' = After(c, d2)
  BY <1>2 DEF c
<1>7. /\ cyc_hi' = (c.now \div W) % W /\ cyc_lo' = c.now % W
      /\ cyc_hi' \in 0 .. (W - 1) /\ cyc_lo' \in 0 .. (W - 1)
  <2>1. cyc_hi' = access_counter(c.now)[1] /\ cyc_lo' = access_counter(c.now)[2]
    BY <1>2 DEF c
  <2> QED
    BY <2>1, <1>5, Words
<1>8. clk' \in Clocks /\ clk'.now >= c.now + d2 /\ clk'.utime >= c.utime
  BY <1>3, <1>4, <1>6, AfterLater
<1>9. clk'.now \in Nat /\ clk'.utime \in Nat
  BY <1>8 DEF Clocks
<1>10. Started(d2)
  BY <1>3, <1>5, <1>6, <1>7, <1>8, <1>9 DEF Started
<1>11. clk'.utime >= clk.utime
  BY <1>4, <1>5, <1>8, <1>9
<1> QED
  BY <1>3, <1>10, <1>11

\* mhz.
LEMMA SleepOn ==
  ASSUME Counter, mhz
  PROVE  /\ Started(0) /\ clk'.utime = clk.utime /\ clk'.now - begun' >= FREQ * SLEEPTIME
         /\ Mhz' \in Nat /\ Mhz' = SubtractWords(access_counter(clk'.now), <<cyc_hi', cyc_lo'>>)
<1>1. clk \in Clocks /\ clk.now \in Nat
  BY DEF Counter, Clocks
<1>2. PICK late \in Late :
        /\ cyc_hi' = access_counter(clk.now)[1] /\ cyc_lo' = access_counter(clk.now)[2]
        /\ begun' = clk.now /\ own' = 0
        /\ clk' = [clk EXCEPT !.now = @ + FREQ * SLEEPTIME + late]
        /\ Mhz' = SubtractWords(access_counter(clk'.now), <<cyc_hi', cyc_lo'>>)
  BY DEF mhz
<1>3. late \in Nat /\ FREQ * SLEEPTIME \in Nat
  BY ClockAssumption
<1>4. /\ clk' \in Clocks /\ clk'.now = clk.now + FREQ * SLEEPTIME + late
      /\ clk'.utime = clk.utime
  BY <1>1, <1>2, <1>3 DEF Clocks
<1>5. /\ cyc_hi' = (clk.now \div W) % W /\ cyc_lo' = clk.now % W
      /\ cyc_hi' \in 0 .. (W - 1) /\ cyc_lo' \in 0 .. (W - 1)
  BY <1>1, <1>2, Words
<1>6. Mhz' \in Nat
  <2>1. clk'.now \in Nat
    BY <1>1, <1>3, <1>4
  <2>2. PICK h \in Nat, l \in Nat : access_counter(clk'.now) = <<h, l>>
    BY <2>1, Words DEF access_counter
  <2>3. PICK h0 \in Nat, l0 \in Nat : <<cyc_hi', cyc_lo'>> = <<h0, l0>>
    BY <1>5
  <2>4. SubtractWords(<<h, l>>, <<h0, l0>>) \in Nat
    BY CounterType
  <2> QED
    BY <2>2, <2>3, <2>4, <1>2
<1> QED
  BY <1>1, <1>2, <1>3, <1>4, <1>5, <1>6 DEF Started

\* Every step that starts the counter or lets time pass keeps its account.
LEMMA CounterStep ==
  ASSUME Where, Counter, [Next]_vars
  PROVE  Counter'
<1>0. /\ clk \in Clocks /\ begun \in Nat /\ own \in Nat /\ begun + own <= clk.now /\ clk.now \in Nat
      /\ cyc_hi \in 0 .. (W - 1) /\ cyc_lo \in 0 .. (W - 1)
      /\ method = "fcyc" => cyc_hi = (begun \div W) % W /\ cyc_lo = begun % W
  BY DEF Counter, Clocks
<1>a. ASSUME UNCHANGED <<clk, own, counter_vars, method>> PROVE Counter'
  BY <1>a DEF Counter, counter_vars
<1>b. ASSUME NEW d \in Nat, Pass(d), UNCHANGED <<counter_vars, method>> PROVE Counter'
  <2>1. UNCHANGED <<cyc_hi, cyc_lo, begun, method>>
    BY <1>b DEF counter_vars
  <2>2. clk' \in Clocks /\ own' = own + d /\ clk'.now \in Nat /\ clk'.now >= clk.now + d
    BY <1>b, PassOn
  <2>3. begun + own' <= clk'.now /\ own' \in Nat
    BY <2>2, <1>0
  <2> HIDE DEF Clocks
  <2> QED
    BY <2>1, <2>2, <2>3, <1>0 DEF Counter
<1>c. ASSUME NEW d \in Nat, Started(d) PROVE Counter'
  BY <1>c DEF Started, Counter
<1>d. \A d \in Steps \union Work : d \in Nat
  BY ClockAssumption, SettingsAssumption
<1>1. CASE init_fsecs
  <2>1. CASE method = "fcyc"
    <3>1. Started(0)
      BY <1>1, <2>1, SleepOn DEF init_fsecs
    <3> QED
      BY <3>1, <1>c
  <2>2. CASE method # "fcyc"
    BY <1>1, <2>2, <1>a DEF init_fsecs
  <2> QED
    BY <2>1, <2>2
<1>2. CASE configure
  BY <1>2, <1>a DEF configure, clock_vars
<1>3. CASE measure_overhead
  BY <1>3, <1>c, Overhead DEF measure_overhead
<1>4. CASE fsecs \/ fsecs_return
  BY <1>4, <1>a DEF fsecs, fsecs_return, clock_vars
<1>5. CASE ClockStep
  <2>1. CASE callibrate \/ cal_loop \/ cal_event \/ comp_times
    <3>1. PICK d \in Steps : Pass(d)
      BY <2>1 DEF callibrate, cal_loop, cal_event, comp_times
    <3>2. UNCHANGED <<counter_vars, method>>
      BY <2>1, <1>5 DEF ClockStep, callibrate, cal_loop, cal_event, comp_times
    <3> QED
      BY <3>1, <3>2, <1>b, <1>d
  <2>2. CASE cal_start
    <3>1. PICK d \in Steps : start_counter(d)
      BY <2>2 DEF cal_start
    <3>2. Started(d)
      BY <3>1, <1>d, StartCounter
    <3> QED
      BY <3>2, <1>c, <1>d
  <2>3. CASE cal_return \/ start_comp_counter
    BY <2>3, <1>5, <1>a DEF ClockStep, cal_return, start_comp_counter
  <2> QED
    BY <1>5, <2>1, <2>2, <2>3 DEF ClockStep
<1>6. CASE FcycStep
  <2>1. CASE fcyc \/ clear \/ clear_loop \/ stop_plain \/ stop_times
    <3>1. UNCHANGED clock_vars
      BY <2>1 DEF fcyc, clear, clear_loop, stop_plain, stop_times
    <3> QED
      BY <3>1, <1>6, <1>a DEF FcycStep, clock_vars
  <2>2. CASE time_f
    <3>1. PICK d \in Work : start_counter(d)
      BY <2>2 DEF time_f
    <3>2. Started(d)
      BY <3>1, <1>d, StartCounter
    <3> QED
      BY <3>2, <1>c, <1>d
  <2>3. CASE stop_comp
    <3>1. PICK d \in Steps : Pass(d)
      BY <2>3 DEF stop_comp
    <3>2. UNCHANGED <<counter_vars, method>>
      BY <2>3, <1>6 DEF FcycStep, stop_comp
    <3> QED
      BY <3>1, <3>2, <1>b, <1>d
  <2> QED
    BY <1>6, <2>1, <2>2, <2>3 DEF FcycStep
<1>7. CASE FTimerStep
  <2>0. method' = method
    BY <1>7 DEF FTimerStep
  <2>1. CASE init_etime
    <3>1. PICK d \in Steps : Pass(d)
      BY <2>1 DEF init_etime
    <3>2. UNCHANGED <<counter_vars, method>>
      BY <2>0, <2>1 DEF init_etime, counter_vars, other_vars
    <3> QED
      BY <3>1, <3>2, <1>b, <1>d
  <2>2. CASE first_reading
    <3>1. method # "fcyc"
      BY <2>2 DEF first_reading, Where, SamplePcs, CalPcs
    <3>2. begun' = clk.now /\ own' = 0 /\ UNCHANGED <<clk, cyc_hi, cyc_lo>>
      BY <2>2 DEF first_reading, other_vars
    <3> QED
      BY <3>1, <3>2, <2>0, <1>0 DEF Counter
  <2>3. CASE run_f
    <3>1. PICK d \in Runs : Pass(d)
      BY <2>3 DEF run_f
    <3>2. d \in Nat
      BY FTimerAssumption
    <3>3. UNCHANGED <<counter_vars, method>>
      BY <2>0, <2>3 DEF run_f, counter_vars, other_vars
    <3> QED
      BY <3>1, <3>2, <3>3, <1>b
  <2>4. CASE last_reading
    BY <2>0, <2>4, <1>a DEF last_reading, counter_vars, other_vars
  <2> QED
    BY <1>7, <2>1, <2>2, <2>3, <2>4 DEF FTimerStep
<1>8. CASE finished \/ UNCHANGED vars
  BY <1>8, <1>a DEF finished, vars, clock_vars
<1> QED
  BY <1>1, <1>2, <1>3, <1>4, <1>5, <1>6, <1>7, <1>8 DEF Next

-----------------------------------------------------------------------------
\* A sample is taken.

\* The settings that the sampler relies on.
LEMMA Parameterised ==
  ASSUME Typed
  PROVE  /\ par["kbest"] \in Nat \ {0} /\ par["epsilon"] \in Nat /\ par["maxsamples"] \in Nat
         /\ par["cache_bytes"] \in Nat /\ par["cache_bytes"] \in Settings["cache_bytes"]
BY SettingsAssumption DEF Typed, TypedFcyc, Parameters

\* add_sample and the test after it: either the array holds the kbest least
\* of the samples, the new one among them, or fcyc returns the least of all.
LEMMA SampleStep ==
  ASSUME Typed, Sampled, pc \in SamplePcs, method = "fcyc", method' = method,
         NEW val \in Int, NEW span \in Nat, NEW work \in Nat, NEW cost \in Nat,
         sample(val, span, work, cost)
  PROVE  /\ samplecount' \in Nat /\ result' \in Int /\ seen' \in Seq(Sample)
         /\ seen' = Append(seen, [val |-> val, span |-> span, work |-> work, cost |-> cost])
         /\ par' = par /\ (pc' = "returned" \/ pc' = Iteration)
         /\ Sampled' /\ ResultIsBest'
<1> DEFINE k == par["kbest"]
           n == samplecount
           x == [val |-> val, span |-> span, work |-> work, cost |-> cost]
           new == add_sample(values, n, val)
           all == Append(seen, x)
           m == n + 1
           Stops == has_converged(new, m) \/ m >= par["maxsamples"]
<1>1. /\ k \in Nat \ {0} /\ par["epsilon"] \in Nat /\ par["maxsamples"] \in Nat
      /\ SCALE \in Nat \ {0}
  BY Parameterised, SettingsAssumption
<1>2. n \in Nat /\ result \in Int /\ seen \in Seq(Sample)
  BY DEF Typed, TypedFcyc
<1>3. pc \notin {"idle", "fcyc", "returned", "exit"}
  BY DEF SamplePcs, CalPcs
<1>4. /\ values \in [0 .. (k - 1) -> Int] /\ Ranked(k, values, seen, n) /\ n = Len(seen)
      /\ n = 0 \/ n < par["maxsamples"]
  BY <1>3 DEF Sampled
<1>5. x \in Sample /\ x.val = val
  BY DEF Sample
<1>6. /\ m \in Nat \ {0} /\ par' = par /\ samplecount' = m /\ seen' = all
      /\ Stops => result' = new[0] /\ values' = NoValues /\ pc' = "returned"
      /\ ~Stops => values' = new /\ pc' = Iteration /\ result' = result
  BY <1>2 DEF sample
<1>7. ~Stops => m < par["maxsamples"]
  BY <1>1, <1>6
<1>8. Stops /\ m < par["maxsamples"] => m >= k /\ (SCALE + par["epsilon"]) * new[0] >= SCALE * new[k - 1]
  BY <1>1, <1>6 DEF has_converged
<1> HIDE DEF x
<1>9. all \in Seq(Sample) /\ Len(all) = m /\ DOMAIN all = 1 .. m
  BY <1>2, <1>4, <1>5, <1>6
<1> HIDE DEF Stops
<1>10. /\ add_sample(values, n, x.val) \in [0 .. (k - 1) -> Int]
       /\ Ranked(k, add_sample(values, n, x.val), Append(seen, x), n + 1)
  BY <1>1, <1>2, <1>4, <1>5, AddSample
<1>11. new \in [0 .. (k - 1) -> Int] /\ Ranked(k, new, all, m)
  BY <1>5, <1>10
<1> HIDE DEF new, all, m, n, k
<1>12. pc' = "returned" \/ pc' = Iteration
  BY <1>6
<1>13. pc' = "returned" <=> Stops
  BY <1>6, IterationStart
<1>14. result' \in Int
  <2>1. new[0] \in Int
    BY <1>1, <1>11
  <2> QED
    BY <2>1, <1>2, <1>6
<1>15. Sampled'
  <2>1. pc' \notin {"idle", "fcyc", "exit", "init"}
    BY <1>12, IterationStart
  <2>2. pc' \in SamplePcs <=> ~Stops
    BY <1>6, <1>12, IterationStart DEF SamplePcs, CalPcs
  <2>3. ~Stops => /\ values' \in [0 .. (par["kbest"]' - 1) -> Int]
                  /\ Ranked(par["kbest"], values, seen, samplecount)'
                  /\ samplecount' = 0 \/ samplecount' < par["maxsamples"]'
    <3>1. ASSUME ~Stops PROVE values' = new /\ samplecount' = m /\ par' = par /\ seen' = all
      BY <1>6, <3>1
    <3>2. (par["kbest"])' = k
      BY <1>6 DEF k
    <3> QED
      BY <1>7, <1>6, <3>1, <3>2, <1>11 DEF Ranked
  <2>4. Stops => values' = NoValues
    BY <1>6
  <2>5. samplecount' = Len(seen')
    BY <1>6, <1>9
  <2>6. method' = "fcyc"
    OBVIOUS
  <2> QED
    BY <2>1, <2>2, <2>3, <2>4, <2>5, <2>6 DEF Sampled
<1>16. ResultIsBest'
  <2>1. ASSUME Stops
        PROVE  /\ \E j \in DOMAIN all : all[j].val = new[0]
               /\ \A j \in DOMAIN all : all[j].val >= new[0]
               /\ Len(all) > 1 => Len(all) <= par["maxsamples"]
               /\ Len(all) < par["maxsamples"] =>
                    AtMost(all, ((SCALE + par["epsilon"]) * new[0]) \div SCALE) >= k
    <3>1. PICK w \in Int : w = new[0]
      BY <1>1, <1>11
    <3>2. Rank(w, 0, all)
      BY <3>1, <1>1, <1>6, <1>11 DEF Ranked
    <3>3. /\ \E j \in DOMAIN all : all[j].val = w
          /\ \A j \in DOMAIN all : all[j].val >= w
      BY <1>9, <3>2, RankedLeast
    <3>4. Len(all) > 1 => Len(all) <= par["maxsamples"]
      BY <1>1, <1>2, <1>4, <1>9 DEF m
    <3>5. ASSUME m < par["maxsamples"]
          PROVE  AtMost(all, ((SCALE + par["epsilon"]) * w) \div SCALE) >= k
      <4>1. PICK y \in Int : y = new[k - 1]
        BY <1>1, <1>11
      <4>2. PICK l \in 0 .. (k - 1) : l = k - 1
        BY <1>1
      <4>3. l < m
        BY <3>5, <4>2, <1>1, <1>6, <1>8, <2>1
      <4>4. Rank(y, l, all)
        BY <4>1, <4>2, <4>3, <1>11 DEF Ranked
      <4>5. (SCALE + par["epsilon"]) * w >= SCALE * y
        BY <3>1, <3>5, <4>1, <1>8, <2>1
      <4>6. PICK eps \in Nat : eps = par["epsilon"]
        BY <1>1
      <4>7. (SCALE + eps) * w >= SCALE * y
        BY <4>5, <4>6
      <4>8. AtMost(all, ((SCALE + eps) * w) \div SCALE) >= k
        BY <1>1, <1>9, <4>2, <4>4, <4>7, Converged
      <4> QED
        BY <4>6, <4>8
    <3> QED
      BY <3>1, <3>3, <3>4, <3>5, <1>9
  <2>2. ASSUME pc' = "returned"
        PROVE  result' = new[0] /\ seen' = all /\ par' = par /\ Stops
    BY <2>2, <1>6, <1>13
  <2> QED
    BY <2>1, <2>2 DEF ResultIsBest, AtMost, k
<1> QED
  BY <1>6, <1>9, <1>12, <1>14, <1>15, <1>16 DEF m, all, x

-----------------------------------------------------------------------------
\* The parts of Held, step by step.

\* A difference of readings is an integer.
LEMMA GetCounterType ==
  ASSUME NEW h \in 0 .. (W - 1), NEW l \in 0 .. (W - 1), NEW n \in Nat
  PROVE  SubtractWords(access_counter(n), <<h, l>>) \in Nat
<1>0. W \in Nat \ {0}
  BY ClockAssumption
<1> DEFINE a == (n \div W) % W
           b == n % W
<1>1. access_counter(n) = <<a, b>>
  BY DEF access_counter
<1>2. a \in Nat /\ b \in Nat
  BY <1>0, Words
<1> HIDE DEF a, b
<1>3. SubtractWords(<<a, b>>, <<h, l>>) \in Nat
  BY <1>0, <1>2, CounterType
<1> QED
  BY <1>1, <1>3

\* Steps keep the types of clock.c,
LEMMA TypedClockStep ==
  ASSUME method \in {"fcyc", "itimer", "gettod"}, TypedClock, Counter, [Next]_vars
  PROVE  TypedClock'
<1> DEFINE CalType == [oldt : Int, newt : Int, oldc : Nat, e : 0 .. NEVENT]
<1>0. /\ clk \in Clocks /\ clk.now \in Nat /\ clk.utime \in Nat
      /\ cyc_hi \in 0 .. (W - 1) /\ cyc_lo \in 0 .. (W - 1)
  BY DEF Counter, Clocks
<1>1. cyc_per_tick \in Nat /\ start_tick \in Nat /\ cal \in CalType
  BY DEF TypedClock
<1>2. NEVENT \in Nat \ {0} /\ UNIT \in Nat \ {0} /\ RECORDTHRESH \in Nat
  BY ClockAssumption
<1>a. ASSUME UNCHANGED <<cyc_per_tick, start_tick, cal>>, pc' # "cal_event" \/ pc' = pc
      PROVE  TypedClock'
  BY <1>a DEF TypedClock
<1>3. CASE callibrate
  <2>1. /\ cal' = [NoCal EXCEPT !.oldc = clk.utime] /\ pc' = "cal_start"
        /\ UNCHANGED <<cyc_per_tick, start_tick>>
    BY <1>3 DEF callibrate
  <2>2. cal' \in CalType
    BY <2>1, <1>0, <1>2 DEF NoCal
  <2> QED
    BY <2>1, <2>2, <1>1 DEF TypedClock
<1>4. CASE cal_start
  <2>1. /\ cal' = [cal EXCEPT !.oldt = SubtractWords(access_counter(clk'.now), <<cyc_hi', cyc_lo'>>)]
        /\ pc' = "cal_loop" /\ UNCHANGED <<cyc_per_tick, start_tick>>
    BY <1>4 DEF cal_start
  <2>2. PICK d \in Nat : start_counter(d)
    BY <1>4, ClockAssumption DEF cal_start
  <2>3. Started(d)
    BY <2>2, StartCounter
  <2>4. clk'.now \in Nat /\ cyc_hi' \in 0 .. (W - 1) /\ cyc_lo' \in 0 .. (W - 1)
    BY <2>3 DEF Started, Clocks
  <2>5. PICK t \in Nat : t = SubtractWords(access_counter(clk'.now), <<cyc_hi', cyc_lo'>>)
    BY <2>4, GetCounterType
  <2>6. cal' = [cal EXCEPT !.oldt = t]
    BY <2>1, <2>5, Zenon
  <2>7. cal' \in CalType
    BY <2>6, <1>1
  <2> QED
    BY <2>1, <2>7, <1>1 DEF TypedClock
<1>5. CASE cal_loop
  <2>1. /\ cal' = [cal EXCEPT !.newt = get_counter(clk.now)] /\ cal.e < NEVENT
        /\ UNCHANGED <<cyc_per_tick, start_tick>>
    BY <1>5 DEF cal_loop
  <2>2. PICK t \in Nat : t = get_counter(clk.now)
    BY <1>0, GetCounterType DEF get_counter
  <2>3. cal' = [cal EXCEPT !.newt = t]
    BY <2>1, <2>2, Zenon
  <2>4. cal' \in CalType /\ cal'.e < NEVENT
    BY <2>1, <2>3, <1>1
  <2> QED
    BY <2>1, <2>4, <1>1 DEF TypedClock
<1>6. CASE cal_event
  <2>1. pc = "cal_event" /\ pc' = "cal_loop" /\ start_tick' = start_tick /\ cal.e < NEVENT
    BY <1>6 DEF cal_event, TypedClock
  <2>2. cal' \in CalType
    <3>1. CASE clk.utime > cal.oldc
      <4>1. cal' = [cal EXCEPT !.oldt = cal.newt, !.oldc = clk.utime, !.e = @ + 1]
        BY <1>6, <3>1 DEF cal_event
      <4>2. cal.newt \in Int /\ cal.e + 1 \in 0 .. NEVENT
        BY <2>1, <1>1, <1>2
      <4>3. PICK e2 \in 0 .. NEVENT : e2 = cal.e + 1
        BY <4>2
      <4>4. cal' = [cal EXCEPT !.oldt = cal.newt, !.oldc = clk.utime, !.e = e2]
        BY <4>1, <4>3
      <4> QED
        BY <4>2, <4>4, <1>0, <1>1
    <3>2. CASE ~(clk.utime > cal.oldc)
      <4>1. cal' = [cal EXCEPT !.oldt = cal.newt]
        BY <1>6, <3>2 DEF cal_event
      <4> QED
        BY <4>1, <1>1
    <3> QED
      BY <3>1, <3>2
  <2>3. cyc_per_tick' \in Nat
    <3>1. CASE clk.utime > cal.oldc
      <4>1. cyc_per_tick' = Recorded((UNIT * (cal.newt - cal.oldt)) \div (clk.utime - cal.oldc))
        BY <1>6, <3>1 DEF cal_event
      <4> DEFINE num == UNIT * (cal.newt - cal.oldt)
                 den == clk.utime - cal.oldc
                 cpt == num \div den
      <4>2. num \in Int /\ den \in Nat \ {0}
        BY <3>1, <1>0, <1>1, <1>2
      <4> HIDE DEF num, den
      <4>3. cpt \in Int
        BY <4>2
      <4>4. RECORDTHRESH * UNIT \in Nat
        BY <1>2
      <4>5. cyc_per_tick' = Recorded(cpt)
        BY <4>1 DEF num, den
      <4> HIDE DEF cpt
      <4> QED
        BY <4>3, <4>4, <4>5, <1>1 DEF Recorded
    <3>2. CASE ~(clk.utime > cal.oldc)
      BY <1>6, <3>2, <1>1 DEF cal_event
    <3> QED
      BY <3>1, <3>2
  <2> QED
    BY <2>1, <2>2, <2>3, <1>1 DEF TypedClock
<1>7. CASE cal_return
  <2>1. cal' = NoCal /\ pc' = "comp_times" /\ UNCHANGED <<cyc_per_tick, start_tick>>
    BY <1>7 DEF cal_return
  <2>2. NoCal \in CalType
    BY <1>2 DEF NoCal
  <2> QED
    BY <2>1, <2>2, <1>1 DEF TypedClock
<1>8. CASE start_comp_counter
  BY <1>8, <1>a DEF start_comp_counter
<1>9. CASE comp_times
  BY <1>9, <1>0, <1>1 DEF comp_times, TypedClock
<1>10. CASE init_fsecs \/ fsecs_return
  BY <1>10, <1>a DEF init_fsecs, fsecs_return, clock_vars
<1>11. CASE configure \/ measure_overhead
  BY <1>11, <1>a DEF configure, measure_overhead, clock_vars
<1>12. CASE fsecs
  BY <1>12, <1>a DEF fsecs, clock_vars
<1>13. CASE FcycStep
  <2>1. UNCHANGED <<cyc_per_tick, start_tick, cal>>
    BY <1>13 DEF FcycStep, fcyc, clear, clear_loop, time_f, stop_plain, stop_comp, stop_times, clock_vars
  <2>2. pc' # "cal_event"
    BY <1>13, IterationStart
    DEF FcycStep, fcyc, clear, clear_loop, time_f, stop_plain, stop_comp, stop_times, sample
  <2> QED
    BY <2>1, <2>2, <1>a
<1>14. CASE FTimerStep
  BY <1>14, <1>a DEF FTimerStep, init_etime, first_reading, run_f, last_reading, other_vars
<1>15. CASE finished \/ UNCHANGED vars
  BY <1>15, <1>a DEF finished, vars, clock_vars
<1> QED
  BY <1>3, <1>4, <1>5, <1>6, <1>7, <1>8, <1>9, <1>10, <1>11, <1>12, <1>13, <1>14, <1>15
     DEF Next, ClockStep

\* What the two ways to stop the counter give to add_sample.
LEMMA StopPlain ==
  ASSUME Counter, stop_plain
  PROVE  \E val \in Int, span \in Nat, work \in Nat, cost \in Nat :
           /\ val = UNIT * get_counter(clk.now) /\ span = clk.now - begun /\ cost = 0
           /\ sample(val, span, work, cost) /\ pc = "stop" /\ UNCHANGED <<clock_vars, reading>>
<1>1. /\ clk.now \in Nat /\ begun \in Nat /\ begun <= clk.now /\ own \in Nat
      /\ cyc_hi \in 0 .. (W - 1) /\ cyc_lo \in 0 .. (W - 1)
  BY DEF Counter, Clocks
<1>2. PICK t \in Nat : t = get_counter(clk.now)
  BY <1>1, GetCounterType DEF get_counter
<1>3. PICK val \in Int : val = UNIT * t
  BY ClockAssumption
<1>4. PICK span \in Nat, work \in Nat, cost \in Nat :
        span = clk.now - begun /\ work = own /\ cost = 0
  BY <1>1
<1>5. /\ sample(UNIT * get_counter(clk.now), clk.now - begun, own, 0) /\ pc = "stop"
      /\ UNCHANGED <<clock_vars, reading>>
  BY DEF stop_plain
<1>6. val = UNIT * get_counter(clk.now)
  BY <1>2, <1>3
<1>7. sample(val, span, work, cost)
  BY <1>4, <1>5, <1>6, Zenon
<1> QED
  BY <1>4, <1>5, <1>6, <1>7

\* get_comp_counter gives a number too, which the ticks may make negative.
LEMMA StopTimes ==
  ASSUME Counter, TypedClock, TypedFcyc, stop_times
  PROVE  \E val \in Int, span \in Nat, work \in Nat, cost \in Nat :
           /\ val = get_comp_counter(reading.time, clk.utime)
           /\ span = reading.span /\ work = reading.work /\ cost = cyc_per_tick
           /\ sample(val, span, work, cost) /\ pc = "stop_times"
           /\ reading' = NoReading /\ UNCHANGED clock_vars
<1>1. /\ clk.utime \in Nat /\ start_tick \in Nat /\ cyc_per_tick \in Nat
      /\ reading \in [time : Int, span : Nat, work : Nat] /\ UNIT \in Nat
  BY ClockAssumption DEF Counter, Clocks, TypedClock, TypedFcyc
<1>2. PICK val \in Int : val = get_comp_counter(reading.time, clk.utime)
  <2>1. PICK time \in Int : time = reading.time
    BY <1>1
  <2>2. UNIT * time \in Int /\ (clk.utime - start_tick) * cyc_per_tick \in Int
    BY <1>1
  <2>3. get_comp_counter(time, clk.utime) \in Int
    BY <2>2 DEF get_comp_counter
  <2> QED
    BY <2>1, <2>3
<1>3. PICK span \in Nat, work \in Nat, cost \in Nat :
        span = reading.span /\ work = reading.work /\ cost = cyc_per_tick
  BY <1>1
<1>4. /\ sample(get_comp_counter(reading.time, clk.utime), reading.span, reading.work, cyc_per_tick)
      /\ pc = "stop_times" /\ reading' = NoReading /\ UNCHANGED clock_vars
  BY DEF stop_times
<1>5. sample(val, span, work, cost)
  BY <1>2, <1>3, <1>4, Zenon
<1> QED
  BY <1>2, <1>3, <1>4, <1>5

\* Either way a sample is taken and the arrays stay in order.
LEMMA Stopped ==
  ASSUME Where, Typed, Counter, Sampled, method' = method, stop_plain \/ stop_times
  PROVE  /\ samplecount' \in Nat /\ result' \in Int /\ seen' \in Seq(Sample)
         /\ reading' \in [time : Int, span : Nat, work : Nat]
         /\ UNCHANGED <<par, cache_buf, cptr, clock_vars>>
         /\ pc' = "returned" \/ pc' = Iteration
         /\ Sampled' /\ ResultIsBest'
<1>1. PICK val \in Int, span \in Nat, work \in Nat, cost \in Nat :
        sample(val, span, work, cost)
  BY StopPlain, StopTimes DEF Typed
<1>2. pc \in SamplePcs /\ method = "fcyc"
  BY DEF stop_plain, stop_times, Where, SamplePcs, CalPcs
<1>3. reading \in [time : Int, span : Nat, work : Nat] /\ NoReading \in [time : Int, span : Nat, work : Nat]
  BY DEF Typed, TypedFcyc, NoReading
<1>4. (reading' = reading \/ reading' = NoReading) /\ UNCHANGED clock_vars
  BY DEF stop_plain, stop_times
<1>5. UNCHANGED <<par, cache_buf, cptr>>
  BY <1>1 DEF sample
<1>6. /\ samplecount' \in Nat /\ result' \in Int /\ seen' \in Seq(Sample)
      /\ pc' = "returned" \/ pc' = Iteration
      /\ Sampled' /\ ResultIsBest'
  BY <1>1, <1>2, SampleStep
<1> QED
  BY <1>3, <1>4, <1>5, <1>6

\* those of fcyc.c,
LEMMA TypedFcycStep ==
  ASSUME Where, Typed, Counter, Sampled, [Next]_vars
  PROVE  TypedFcyc'
<1> DEFINE ReadingType == [time : Int, span : Nat, work : Nat]
<1>0. TypedFcyc
  BY DEF Typed
<1>a. ASSUME UNCHANGED fcyc_vars PROVE TypedFcyc'
  BY <1>a, <1>0 DEF TypedFcyc, fcyc_vars
<1>b. ASSUME UNCHANGED <<par, samplecount, result, reading, seen>>, cptr' \in Nat PROVE TypedFcyc'
  BY <1>b, <1>0 DEF TypedFcyc
<1>c. <<>> \in Seq(Sample)
  OBVIOUS
<1>1. CASE init_fsecs
  <2>1. CASE method = "fcyc"
    <3>1. par' = FsecsParams /\ UNCHANGED <<cptr, samplecount, result, reading, seen>>
      BY <1>1, <2>1 DEF init_fsecs
    <3> QED
      BY <3>1, <1>0, FsecsAssumption DEF TypedFcyc
  <2>2. CASE method # "fcyc"
    BY <1>1, <2>2, <1>a DEF init_fsecs
  <2> QED
    BY <2>1, <2>2
<1>2. CASE configure
  <2>1. PICK p \in Parameters : \E v \in Settings[p] : par' = [par EXCEPT ![p] = v]
    BY <1>2 DEF configure, set_fcyc, set_fcyc_cache_size, Parameters
  <2>2. PICK v \in Settings[p] : par' = [par EXCEPT ![p] = v]
    BY <2>1
  <2>3. v \in Nat
    BY SettingsAssumption
  <2>4. UNCHANGED <<cptr, samplecount, result, reading, seen>>
    BY <1>2 DEF configure
  <2>5. par' \in [Parameters -> Nat] /\ \A p2 \in Parameters : par'[p2] \in Settings[p2]
    BY <2>2, <2>3, <1>0 DEF TypedFcyc
  <2> QED
    BY <2>4, <2>5, <1>0 DEF TypedFcyc
<1>3. CASE measure_overhead \/ fsecs
  BY <1>3, <1>a DEF measure_overhead, fsecs
<1>4. CASE fsecs_return
  BY <1>4, <1>0, <1>c DEF fsecs_return, TypedFcyc
<1>5. CASE ClockStep \/ FTimerStep
  BY <1>5, <1>a DEF ClockStep, FTimerStep
<1>6. CASE fcyc
  BY <1>6, <1>0, <1>c DEF fcyc, TypedFcyc
<1>7. CASE clear
  BY <1>7, <1>b DEF clear
<1>8. CASE clear_loop
  <2>1. par["cache_block"] \in Nat /\ INT \in Nat \ {0} /\ cptr \in Nat
    BY <1>0, SettingsAssumption DEF TypedFcyc, Parameters
  <2>2. par["cache_block"] \div INT \in Nat
    BY <2>1
  <2>3. cptr' \in Nat
    BY <1>8, <2>1, <2>2 DEF clear_loop
  <2> QED
    BY <1>8, <2>3, <1>b DEF clear_loop
<1>9. CASE time_f
  BY <1>9, <1>a DEF time_f
<1>10. CASE stop_comp
  <2>1. /\ clk.now \in Nat /\ begun \in Nat /\ begun <= clk.now /\ own \in Nat
        /\ cyc_hi \in 0 .. (W - 1) /\ cyc_lo \in 0 .. (W - 1)
    BY DEF Counter, Clocks
  <2>2. PICK t \in Nat : t = get_counter(clk.now)
    BY <2>1, GetCounterType DEF get_counter
  <2>3. PICK span \in Nat : span = clk.now - begun
    BY <2>1
  <2>4. reading' = [time |-> t, span |-> span, work |-> own]
    BY <1>10, <2>2, <2>3 DEF stop_comp
  <2>5. reading' \in ReadingType
    BY <2>4, <2>1
  <2>6. UNCHANGED <<par, cptr, samplecount, result, seen>>
    BY <1>10 DEF stop_comp
  <2> QED
    BY <2>5, <2>6, <1>0 DEF TypedFcyc
<1>11. CASE FcycStep /\ (stop_plain \/ stop_times)
  <2>1. method' = method
    BY <1>11 DEF FcycStep
  <2>2. /\ samplecount' \in Nat /\ result' \in Int /\ seen' \in Seq(Sample) /\ reading' \in ReadingType
        /\ UNCHANGED <<par, cptr>>
    BY <2>1, <1>11, Stopped
  <2> QED
    BY <2>2, <1>0 DEF TypedFcyc
<1>12. CASE finished \/ UNCHANGED vars
  BY <1>12, <1>a DEF finished, vars
<1> QED
  BY <1>1, <1>2, <1>3, <1>4, <1>5, <1>6, <1>7, <1>8, <1>9, <1>10, <1>11, <1>12 DEF Next, FcycStep

\* and the size of the cache buffer.
LEMMA BufferStep ==
  ASSUME Where, Typed, Counter, Sampled, Buffer, [Next]_vars
  PROVE  Buffer'
<1>a. ASSUME UNCHANGED <<cache_buf, par>>, pc' \notin {"init", "clear_loop"} \/ pc' = pc PROVE Buffer'
  BY <1>a DEF Buffer
<1>1. CASE init_fsecs
  BY <1>1 DEF init_fsecs, fcyc_vars, Buffer
<1>2. CASE configure
  <2>1. pc = "idle" /\ pc' = "idle" /\ par \in [Parameters -> Nat]
    BY <1>2 DEF configure, Typed, TypedFcyc
  <2>2. CASE \E p \in Parameters \ {"cache_bytes"} : \E v \in Settings[p] : set_fcyc(p, v)
    <3>0. PICK p \in Parameters \ {"cache_bytes"} : \E v \in Settings[p] : set_fcyc(p, v)
      BY <2>2
    <3>1. /\ cache_buf' = cache_buf
          /\ \E v \in Settings[p] : par' = [par EXCEPT ![p] = v]
      BY <3>0 DEF set_fcyc
    <3>2. par'["cache_bytes"] = par["cache_bytes"]
      BY <3>1, <2>1 DEF Parameters
    <3> QED
      BY <2>1, <3>1, <3>2 DEF Buffer
  <2>3. CASE \E bytes \in Settings["cache_bytes"] : set_fcyc_cache_size(bytes)
    <3>1. PICK bytes : /\ par' = [par EXCEPT !["cache_bytes"] = bytes]
                       /\ cache_buf' = IF bytes # par["cache_bytes"] THEN 0 ELSE cache_buf
      BY <2>3 DEF set_fcyc_cache_size
    <3>2. par'["cache_bytes"] = bytes
      BY <3>1, <2>1 DEF Parameters
    <3> QED
      BY <2>1, <3>1, <3>2 DEF Buffer
  <2> QED
    BY <1>2, <2>2, <2>3 DEF configure
<1>3. CASE measure_overhead \/ fsecs_return
  BY <1>3, <1>a DEF measure_overhead, fsecs_return, fcyc_vars
<1>4. CASE fsecs
  BY <1>4, <1>a DEF fsecs, fcyc_vars, Typed
<1>5. CASE ClockStep
  <2>1. UNCHANGED <<cache_buf, par>>
    BY <1>5 DEF ClockStep, fcyc_vars
  <2>2. pc' \notin {"init", "clear_loop"}
    BY <1>5 DEF ClockStep, callibrate, cal_start, cal_loop, cal_event, cal_return,
                start_comp_counter, comp_times
  <2> QED
    BY <2>1, <2>2, <1>a
<1>6. CASE fcyc
  BY <1>6, <1>a, IterationStart DEF fcyc
<1>7. CASE clear
  BY <1>7 DEF clear, Buffer
<1>8. CASE clear_loop
  BY <1>8, <1>a DEF clear_loop
<1>9. CASE time_f \/ stop_comp
  BY <1>9, <1>a DEF time_f, stop_comp, fcyc_vars
<1>10. CASE FcycStep /\ (stop_plain \/ stop_times)
  <2>1. method' = method
    BY <1>10 DEF FcycStep
  <2>2. UNCHANGED <<par, cache_buf>> /\ (pc' = "returned" \/ pc' = Iteration)
    BY <2>1, <1>10, Stopped
  <2> QED
    BY <2>2, <1>a, IterationStart
<1>11. CASE FTimerStep
  <2>1. UNCHANGED <<cache_buf, par>>
    BY <1>11 DEF FTimerStep, fcyc_vars
  <2>2. pc' \notin {"init", "clear_loop"}
    BY <1>11 DEF FTimerStep, init_etime, first_reading, run_f, last_reading
  <2> QED
    BY <2>1, <2>2, <1>a
<1>12. CASE finished \/ UNCHANGED vars
  BY <1>12, <1>a DEF finished, vars, fcyc_vars
<1> QED
  BY <1>1, <1>2, <1>3, <1>4, <1>5, <1>6, <1>7, <1>8, <1>9, <1>10, <1>11, <1>12 DEF Next, FcycStep

\* The array of fcyc through every step.
LEMMA SampledStep ==
  ASSUME Where, Typed, Counter, Sampled, [Next]_vars
  PROVE  Sampled'
<1>a. ASSUME UNCHANGED <<par, values, samplecount, seen, method>>,
             pc \in SamplePcs, pc' \in SamplePcs \union {"exit"}
      PROVE  Sampled'
  <2>1. pc \notin {"idle", "fcyc", "exit", "init"} /\ pc' \notin {"idle", "fcyc", "init"}
    BY <1>a DEF SamplePcs, CalPcs
  <2> QED
    BY <2>1, <1>a DEF Sampled, Ranked
<1>b. ASSUME UNCHANGED <<values, samplecount, seen, method>>,
             pc \notin SamplePcs \union {"exit"}, pc' \notin SamplePcs \union {"exit"},
             pc' = "idle" => seen = <<>>, samplecount = Len(seen) \/ pc' \in {"idle", "fcyc"},
             pc' = "init" => pc = "init"
      PROVE  Sampled'
  BY <1>b DEF Sampled
<1>c. Len(<<>>) = 0
  OBVIOUS
<1>1. CASE init_fsecs
  <2>1. pc = "init" /\ pc' = "idle" /\ UNCHANGED <<values, samplecount, seen, method>>
    BY <1>1 DEF init_fsecs, fcyc_vars
  <2>2. seen = <<>>
    BY <2>1 DEF Sampled
  <2> QED
    BY <2>1, <2>2, <1>b DEF SamplePcs, CalPcs
<1>2. CASE configure \/ measure_overhead
  <2>1. pc = "idle" /\ pc' = "idle" /\ UNCHANGED <<values, samplecount, seen, method>>
    BY <1>2 DEF configure, measure_overhead, fcyc_vars
  <2>2. seen = <<>>
    BY <2>1 DEF Sampled
  <2> QED
    BY <2>1, <2>2, <1>b DEF SamplePcs, CalPcs
<1>3. CASE fsecs
  <2>1. pc = "idle" /\ pc' = method /\ UNCHANGED <<values, samplecount, seen, method>>
    BY <1>3 DEF fsecs, fcyc_vars
  <2>2. pc' \in {"fcyc", "itimer", "gettod"}
    BY <2>1 DEF Typed
  <2>3. pc' \notin SamplePcs \union {"exit", "idle", "init"}
    BY <2>2 DEF SamplePcs, CalPcs
  <2>4. pc \notin SamplePcs \union {"exit"}
    BY <2>1 DEF SamplePcs, CalPcs
  <2>5. method # "fcyc" => samplecount = 0 /\ seen = <<>>
    BY DEF Sampled
  <2>6. samplecount = Len(seen) \/ pc' \in {"idle", "fcyc"}
    BY <2>1, <2>5, <1>c
  <2> QED
    BY <2>1, <2>3, <2>4, <2>6, <1>b
<1>4. CASE fsecs_return
  <2>1. /\ pc = "returned" /\ pc' = "idle" /\ seen' = <<>>
        /\ UNCHANGED <<values, samplecount, method>>
    BY <1>4 DEF fsecs_return
  <2>2. pc \notin SamplePcs \union {"exit"} /\ pc' \notin SamplePcs \union {"exit"}
    BY <2>1 DEF SamplePcs, CalPcs
  <2> QED
    BY <2>1, <2>2 DEF Sampled
<1>5. CASE ClockStep
  <2>1. UNCHANGED <<par, values, samplecount, seen, method>>
    BY <1>5 DEF ClockStep, fcyc_vars
  <2>2. pc \in SamplePcs /\ pc' \in SamplePcs
    BY <1>5 DEF ClockStep, SamplePcs, CalPcs, callibrate, cal_start, cal_loop, cal_event, cal_return,
                start_comp_counter, comp_times
  <2> QED
    BY <2>1, <2>2, <1>a
<1>6. CASE FcycStep /\ fcyc
  <2>1. /\ pc' = Iteration /\ par' = par /\ method' = method
        /\ values' = [j \in 0 .. (par["kbest"] - 1) |-> 0] /\ samplecount' = 0 /\ seen' = <<>>
    BY <1>6 DEF FcycStep, fcyc
  <2>2. pc' \in SamplePcs /\ pc' \notin {"exit", "idle", "init", "fcyc"}
    BY <2>1, IterationStart DEF SamplePcs, CalPcs
  <2>3. method = "fcyc"
    BY <1>6 DEF fcyc, Where, SamplePcs, CalPcs
  <2>4. values' \in [0 .. (par["kbest"]' - 1) -> Int]
    BY <2>1
  <2>5. Ranked(par["kbest"], values, seen, samplecount)'
    BY <2>1 DEF Ranked
  <2> QED
    BY <2>1, <2>2, <2>3, <2>4, <2>5, <1>c DEF Sampled
<1>7. CASE FcycStep /\ (clear \/ clear_loop \/ time_f \/ stop_comp)
  <2>1. UNCHANGED <<par, values, samplecount, seen, method>>
    BY <1>7 DEF FcycStep, clear, clear_loop, time_f, stop_comp, fcyc_vars
  <2>2. pc \in SamplePcs /\ pc' \in SamplePcs \union {"exit"}
    BY <1>7 DEF SamplePcs, CalPcs, clear, clear_loop, time_f, stop_comp
  <2> QED
    BY <2>1, <2>2, <1>a
<1>8. CASE FcycStep /\ (stop_plain \/ stop_times)
  <2>1. method' = method
    BY <1>8 DEF FcycStep
  <2> QED
    BY <2>1, <1>8, Stopped
<1>9. CASE FTimerStep
  <2>1. UNCHANGED <<values, samplecount, seen, method>>
    BY <1>9 DEF FTimerStep, fcyc_vars
  <2>2. /\ pc \in {"itimer", "itimer_start", "itimer_runs", "gettod", "gettod_runs"}
        /\ pc' \in {"itimer_start", "itimer_runs", "gettod_runs", "killed", "returned"}
    BY <1>9 DEF FTimerStep, init_etime, first_reading, run_f, last_reading
  <2>3. method # "fcyc"
    BY <2>2 DEF Where, SamplePcs, CalPcs
  <2>4. samplecount = Len(seen)
    BY <2>3, <1>c DEF Sampled
  <2> QED
    BY <2>1, <2>2, <2>4, <1>b DEF SamplePcs, CalPcs
<1>10. CASE finished \/ UNCHANGED vars
  <2>1. UNCHANGED <<pc, par, values, samplecount, seen, method>>
    BY <1>10 DEF finished, vars, fcyc_vars
  <2> QED
    BY <2>1 DEF Sampled, Ranked
<1> QED
  BY <1>1, <1>2, <1>3, <1>4, <1>5, <1>6, <1>7, <1>8, <1>9, <1>10 DEF Next, FcycStep

\* What fcyc returns, through every step.
LEMMA ResultStep ==
  ASSUME Where, Typed, Counter, Sampled, ResultIsBest, [Next]_vars
  PROVE  ResultIsBest'
<1>a. ASSUME pc' # "returned" PROVE ResultIsBest'
  BY <1>a DEF ResultIsBest
<1>1. CASE init_fsecs \/ configure \/ measure_overhead \/ fsecs_return
  BY <1>1, <1>a DEF init_fsecs, configure, measure_overhead, fsecs_return
<1>2. CASE fsecs
  BY <1>2, <1>a DEF fsecs, Typed
<1>3. CASE ClockStep
  BY <1>3, <1>a DEF ClockStep, callibrate, cal_start, cal_loop, cal_event, cal_return,
                    start_comp_counter, comp_times
<1>4. CASE fcyc \/ clear \/ clear_loop \/ time_f \/ stop_comp
  BY <1>4, <1>a, IterationStart DEF fcyc, clear, clear_loop, time_f, stop_comp
<1>5. CASE FcycStep /\ (stop_plain \/ stop_times)
  <2>1. method' = method
    BY <1>5 DEF FcycStep
  <2> QED
    BY <2>1, <1>5, Stopped
<1>6. CASE FTimerStep
  <2>1. pc \in {"itimer", "itimer_start", "itimer_runs", "gettod", "gettod_runs"}
    BY <1>6 DEF FTimerStep, init_etime, first_reading, run_f, last_reading
  <2>2. method' # "fcyc"
    BY <2>1, <1>6 DEF FTimerStep, Where, SamplePcs, CalPcs
  <2> QED
    BY <2>2 DEF ResultIsBest
<1>7. CASE finished \/ UNCHANGED vars
  <2>1. UNCHANGED <<pc, par, result, seen, method>>
    BY <1>7 DEF finished, vars, fcyc_vars
  <2> QED
    BY <2>1 DEF ResultIsBest, AtMost
<1> QED
  BY <1>1, <1>2, <1>3, <1>4, <1>5, <1>6, <1>7 DEF Next, FcycStep

\* The timers of ftimer.c.
LEMMA TimedStep ==
  ASSUME Where, Typed, Counter, Timed, TimedExactly, [Next]_vars
  PROVE  Timed' /\ TimedExactly' /\ TypedFTimer'
<1>0. /\ TypedFTimer /\ Reps \in Nat \ {0}
      /\ clk \in Clocks /\ clk.now \in Nat /\ begun \in Nat /\ own \in Nat /\ begun + own <= clk.now
  BY FTimerAssumption DEF Typed, Counter, Clocks
<1>a. ASSUME UNCHANGED <<i, tmeas>>,
             pc' \notin {"itimer_start", "itimer_runs", "gettod_runs"}, pc' # "returned" \/ method' = "fcyc"
      PROVE  Timed' /\ TimedExactly' /\ TypedFTimer'
  BY <1>a, <1>0 DEF Timed, TimedExactly, TypedFTimer
<1>1. CASE init_fsecs \/ configure \/ measure_overhead \/ fsecs_return
  BY <1>1, <1>a DEF init_fsecs, configure, measure_overhead, fsecs_return, ftimer_vars
<1>2. CASE fsecs
  BY <1>2, <1>a DEF fsecs, Typed, ftimer_vars
<1>3. CASE ClockStep
  <2>1. UNCHANGED <<i, tmeas>>
    BY <1>3 DEF ClockStep, ftimer_vars
  <2>2. pc' \notin {"itimer_start", "itimer_runs", "gettod_runs", "returned"}
    BY <1>3 DEF ClockStep, callibrate, cal_start, cal_loop, cal_event, cal_return,
                start_comp_counter, comp_times
  <2> QED
    BY <2>1, <2>2, <1>a
<1>4. CASE FcycStep
  <2>1. UNCHANGED <<i, tmeas>>
    BY <1>4 DEF FcycStep, ftimer_vars
  <2>2. method' = "fcyc"
    BY <1>4
    DEF FcycStep, Where, SamplePcs, CalPcs,
        fcyc, clear, clear_loop, time_f, stop_plain, stop_comp, stop_times
  <2>3. pc' \notin {"itimer_start", "itimer_runs", "gettod_runs"}
    BY <1>4, IterationStart
    DEF FcycStep, fcyc, clear, clear_loop, time_f, stop_plain, stop_comp, stop_times, sample
  <2> QED
    BY <2>1, <2>2, <2>3, <1>a
<1>5. CASE init_etime
  <2>1. /\ armed' = clk.now /\ i' = 0 /\ pc' = "itimer_start" /\ tmeas' = tmeas
    BY <1>5 DEF init_etime
  <2>2. PICK d \in Nat : Pass(d)
    BY <1>5, ClockAssumption DEF init_etime
  <2>3. clk'.now \in Nat /\ clk'.now >= clk.now + d
    BY <2>2, PassOn
  <2>4. armed' \in Nat /\ armed' <= clk'.now
    BY <2>1, <2>3, <1>0
  <2> QED
    BY <2>1, <2>4, <1>0 DEF Timed, TimedExactly, TypedFTimer
<1>6. CASE first_reading
  <2>1. begun' = clk.now /\ own' = 0 /\ UNCHANGED <<clk, armed, tmeas>>
    BY <1>6 DEF first_reading
  <2>2. CASE pc = "itimer_start"
    <3>1. start' = get_etime(clk.now) /\ pc' = "itimer_runs" /\ i' = i
      BY <1>6, <2>2 DEF first_reading
    <3>2. armed \in Nat
      BY <2>2 DEF Timed
    <3>3. start' = begun' - armed'
      BY <3>1, <3>2, <2>1, <1>0, EtimeExact
    <3> QED
      BY <3>1, <3>2, <3>3, <2>1, <1>0 DEF Timed, TimedExactly, TypedFTimer
  <2>3. CASE pc = "gettod"
    <3>1. stv' = timeval(clk.now) /\ pc' = "gettod_runs" /\ i' = 0
      BY <1>6, <2>3 DEF first_reading
    <3> QED
      BY <3>1, <2>1, <1>0 DEF Timed, TimedExactly, TypedFTimer, timeval
  <2> QED
    BY <1>6, <2>2, <2>3 DEF first_reading
<1>7. CASE run_f
  <2>1. /\ pc \in {"itimer_runs", "gettod_runs"} /\ i < Reps /\ i' = i + 1
        /\ pc' = "killed" \/ pc' = pc
        /\ UNCHANGED <<armed, start, stv, tmeas, begun>>
    BY <1>7 DEF run_f
  <2>2. i' \in 0 .. Reps
    BY <2>1, <1>0 DEF TypedFTimer
  <2> QED
    BY <2>1, <2>2, <1>0 DEF Timed, TimedExactly, TypedFTimer, timeval
<1>8. CASE FTimerStep /\ last_reading
  <2>1. /\ pc \in {"itimer_runs", "gettod_runs"} /\ i = Reps /\ pc' = "returned"
        /\ UNCHANGED <<clk, own, i, begun>>
    BY <1>8 DEF last_reading
  <2>2. tmeas' = clk.now - begun
    <3>1. CASE pc = "itimer_runs"
      <4>1. tmeas' = get_etime(clk.now) - start /\ armed \in Nat /\ start = begun - armed
        BY <1>8, <3>1 DEF last_reading, Timed
      <4>2. get_etime(clk.now) = clk.now - armed
        BY <4>1, <1>0, EtimeExact
      <4> QED
        BY <4>1, <4>2, <1>0
    <3>2. CASE pc = "gettod_runs"
      <4>1. tmeas' = tod_diff(timeval(clk.now)) /\ stv = timeval(begun)
        BY <1>8, <3>2 DEF last_reading, Timed
      <4> QED
        BY <4>1, <1>0, TodExact
    <3> QED
      BY <2>1, <3>1, <3>2
  <2>3. tmeas' \in Nat /\ tmeas' >= own /\ tmeas' = clk'.now - begun' /\ own' = own
    BY <2>1, <2>2, <1>0
  <2> QED
    BY <2>1, <2>3, <1>0 DEF Timed, TimedExactly, TypedFTimer
<1>9. CASE finished \/ UNCHANGED vars
  <2>1. UNCHANGED <<pc, clk, own, begun, armed, start, stv, i, tmeas, method>>
    BY <1>9 DEF finished, vars, clock_vars, counter_vars, ftimer_vars
  <2> QED
    BY <2>1, <1>0 DEF Timed, TimedExactly, TypedFTimer, timeval
<1> QED
  BY <1>1, <1>2, <1>3, <1>4, <1>5, <1>6, <1>7, <1>8, <1>9 DEF Next, FTimerStep

-----------------------------------------------------------------------------
\* Held is an inductive invariant.

\* Held holds at the start,
LEMMA HeldInit ==
  ASSUME Init
  PROVE  Held
<1>c. clk \in Clocks
  <2>1. clk \in [now : Starts, utime : {0}, quiet : Phases]
    BY DEF Init
  <2>2. Starts \subseteq Nat /\ Phases \subseteq 0 .. (PERIOD - 1)
    BY FsecsAssumption
  <2>3. /\ clk.now \in Starts /\ clk.utime \in {0} /\ clk.quiet \in Phases
        /\ clk = [now |-> clk.now, utime |-> clk.utime, quiet |-> clk.quiet]
    BY <2>1
  <2>4. clk.now \in Nat /\ clk.utime \in Nat /\ clk.quiet \in 0 .. (PERIOD - 1)
    BY <2>2, <2>3
  <2> QED
    BY <2>3, <2>4 DEF Clocks
<1> USE DEF Init, FcycInit, FTimerInit
<1>0. /\ W \in Nat \ {0} /\ NEVENT \in Nat \ {0} /\ Reps \in Nat \ {0} /\ PERIOD \in Nat \ {0}
      /\ method \in {"fcyc", "itimer", "gettod"}
  BY ClockAssumption, FTimerAssumption, FsecsAssumption
<1>1. Where
  BY DEF Where
<1>2. Typed
  <2>1. TypedClock
    BY <1>0 DEF TypedClock, NoCal
  <2>2. TypedFcyc
    BY SettingsAssumption DEF TypedFcyc, NoReading
  <2>3. TypedFTimer
    BY <1>0 DEF TypedFTimer
  <2> QED
    BY <1>0, <2>1, <2>2, <2>3 DEF Typed
<1>3. Counter
  <2>1. clk \in Clocks
    BY <1>c
  <2>2. clk.now \in Nat
    BY <2>1 DEF Clocks
  <2> QED
    BY <1>0, <2>1, <2>2, NoWords DEF Counter
<1>4. Buffer
  BY DEF Buffer
<1>5. Sampled
  BY DEF Sampled, SamplePcs, CalPcs
<1>6. Timed /\ ResultIsBest /\ TimedExactly
  BY DEF Timed, ResultIsBest, TimedExactly
<1> QED
  BY <1>1, <1>2, <1>3, <1>4, <1>5, <1>6 DEF Held

\* and every step keeps it.
LEMMA HeldStep ==
  ASSUME Held, [Next]_vars
  PROVE  Held'
<1>0. Where /\ Typed /\ Counter /\ Buffer /\ Sampled /\ Timed /\ ResultIsBest /\ TimedExactly
  BY DEF Held
<1>1. Where' /\ Counter' /\ Buffer' /\ Sampled' /\ ResultIsBest'
  BY <1>0, WhereStep, CounterStep, BufferStep, SampledStep, ResultStep DEF Typed
<1>2. Timed' /\ TimedExactly' /\ TypedFTimer'
  BY <1>0, TimedStep
<1>3. TypedClock' /\ TypedFcyc'
  BY <1>0, TypedClockStep, TypedFcycStep DEF Typed
<1>4. method' = method
  BY DEF Next, init_fsecs, configure, measure_overhead, fsecs, fsecs_return, ClockStep, FcycStep,
         FTimerStep, finished, vars
<1>5. Mhz' \in Nat
  <2>1. CASE init_fsecs /\ method = "fcyc"
    BY <2>1, <1>0, SleepOn DEF init_fsecs
  <2>2. CASE ~(init_fsecs /\ method = "fcyc")
    <3>1. Mhz' = Mhz
      BY <2>2 DEF Next, init_fsecs, configure, measure_overhead, fsecs, fsecs_return, ClockStep,
                  FcycStep, FTimerStep, finished, vars
    <3> QED
      BY <3>1, <1>0 DEF Typed
  <2> QED
    BY <2>1, <2>2
<1>6. Typed'
  BY <1>0, <1>2, <1>3, <1>4, <1>5 DEF Typed
<1> QED
  BY <1>1, <1>2, <1>6 DEF Held

\* In every run of the timing package, whatever the widths, thresholds,
\* parameters and times: the program is where its method allows, the counter
\* holds the words of the cycle it was started at, the cache buffer has the
\* size that clear reads, the array holds the least of the samples in order,
\* and the timers of ftimer.c have the time of their first reading.
THEOREM Invariance == Spec => []Held
<1>1. Init => Held
  BY HeldInit
<1>2. Held /\ [Next]_vars => Held'
  BY HeldStep
<1> QED
  BY <1>1, <1>2, PTL DEF Spec

\* Type correctness of the timing package.
THEOREM Types == Spec => []TypeOK
<1>1. Held => TypeOK
  <2> SUFFICES ASSUME Held PROVE TypeOK
    OBVIOUS
  <2>0. Where /\ Typed /\ Counter /\ Buffer /\ Sampled
    BY DEF Held
  <2>1. pc \in {"init", "idle", "returned", "exit", "killed", "fcyc", "clear", "clear_loop",
                "start_comp", "callibrate", "cal_start", "cal_loop", "cal_event", "comp_times",
                "start", "stop", "stop_times", "itimer", "itimer_start", "itimer_runs",
                "gettod", "gettod_runs"}
    BY <2>0 DEF Where, SamplePcs, CalPcs
  <2>2. cyc_hi \in 0 .. (W - 1) /\ cyc_lo \in 0 .. (W - 1)
    BY <2>0 DEF Counter
  <2>3. cyc_per_tick \in Nat /\ cal.e \in 0 .. NEVENT
    BY <2>0 DEF Typed, TypedClock
  <2>4. cache_buf \in Settings["cache_bytes"] \union {0}
    BY <2>0, Parameterised DEF Buffer
  <2>5. values \in {NoValues} \union [0 .. (par["kbest"] - 1) -> Int]
    <3>1. CASE pc \in SamplePcs \union {"exit"}
      BY <3>1, <2>0 DEF Sampled
    <3>2. CASE pc \notin SamplePcs \union {"exit"}
      BY <3>2, <2>0 DEF Sampled
    <3> QED
      BY <3>1, <3>2
  <2>6. samplecount = Len(seen) \/ pc \in {"idle", "fcyc"}
    BY <2>0 DEF Sampled
  <2>7. i \in 0 .. Reps /\ tmeas \in Nat /\ Mhz \in Nat
    BY <2>0 DEF Typed, TypedFTimer
  <2> QED
    BY <2>1, <2>2, <2>3, <2>4, <2>5, <2>6, <2>7 DEF TypeOK
<1> QED
  BY <1>1, Invariance, PTL

\* While fcyc samples, its array holds the kbest least values of all samples
\* of this call, each at its rank.
THEOREM KBestHeld == Spec => []KBest
<1>1. Held => KBest
  <2> SUFFICES ASSUME Held, pc = "start",
                      NEW j \in 0 .. (par["kbest"] - 1), j < Len(seen)
               PROVE  AtMost(seen, values[j] - 1) <= j /\ AtMost(seen, values[j]) > j
    BY DEF KBest
  <2>1. Ranked(par["kbest"], values, seen, samplecount) /\ samplecount = Len(seen)
    BY DEF Held, Sampled, SamplePcs
  <2>2. Rank(values[j], j, seen)
    BY <2>1 DEF Ranked
  <2> QED
    BY <2>2 DEF Rank, Below
<1> QED
  BY <1>1, Invariance, PTL

\* fcyc returns the least of its samples, and stops early only when kbest of
\* them are within epsilon of it.
THEOREM LeastReturned == Spec => []ResultIsBest
<1>1. Held => ResultIsBest
  BY DEF Held
<1> QED
  BY <1>1, Invariance, PTL

\* clear stays inside its buffer, however the sizes are set between calls.
THEOREM CacheInBuffer == Spec => []CacheReadsInBuffer
<1>1. Held => CacheReadsInBuffer
  <2> SUFFICES ASSUME Held, pc = "clear_loop", cptr < par["cache_bytes"] \div INT
               PROVE  (cptr + 1) * INT <= cache_buf
    BY DEF CacheReadsInBuffer
  <2>1. cache_buf = par["cache_bytes"]
    BY DEF Held, Buffer
  <2>2. par["cache_bytes"] \in Nat /\ cptr \in Nat
    BY Parameterised DEF Held, Typed, TypedFcyc
  <2> QED
    BY <2>1, <2>2, ReadInside
<1> QED
  BY <1>1, Invariance, PTL

\* Both methods of ftimer.c return the time between their two readings.
THEOREM FTimerExact == Spec => []TimedExactly
<1>1. Held => TimedExactly
  BY DEF Held
<1> QED
  BY <1>1, Invariance, PTL

\* As long as fewer than W * W cycles have passed since start_counter,
\* get_counter returns their number, however often the low word has wrapped.
THEOREM ReadingsExact == Spec => [](InRange => CounterExact)
<1>1. Held => (InRange => CounterExact)
  <2> SUFFICES ASSUME Held, InRange, pc \in {"cal_loop", "cal_event", "stop"}
               PROVE  get_counter(clk.now) = clk.now - begun
    BY DEF CounterExact
  <2>1. method = "fcyc"
    BY DEF Held, Where
  <2>2. /\ clk.now \in Nat /\ begun \in Nat /\ begun <= clk.now
        /\ cyc_hi = (begun \div W) % W /\ cyc_lo = begun % W
    BY <2>1 DEF Held, Counter, Clocks
  <2>3. SubtractWords(access_counter(clk.now), <<(begun \div W) % W, begun % W>>) = clk.now - begun
    BY <2>2, ReadingExact DEF InRange
  <2> QED
    BY <2>2, <2>3 DEF get_counter
<1> QED
  BY <1>1, Invariance, PTL

-----------------------------------------------------------------------------
\* The calibration.

\* A pause of the loop is no longer than RECORDTHRESH cycles of work, and not
\* much longer than THRESHOLD.
LEMMA PauseBound ==
  ASSUME NEW w \in Nat, Paused(w)
  PROVE  w <= RECORDTHRESH /\ \E d, d2 \in Steps : w <= THRESHOLD + d + d2
<1>1. PICK d, d2 \in Steps : w < THRESHOLD + d \/ w <= d + d2
  BY DEF Paused
<1>2. /\ THRESHOLD \in Nat \ {0} /\ RECORDTHRESH \in Nat /\ d \in Nat /\ d2 \in Nat
      /\ THRESHOLD + d + d2 <= RECORDTHRESH + 1
  BY ClockAssumption, ThresholdAssumption
<1>3. w <= RECORDTHRESH /\ w <= THRESHOLD + d + d2
  BY <1>1, <1>2
<1> QED
  BY <1>3

\* No more than one tick falls between two readings of tms_utime in a row.
LEMMA TicksApart ==
  ASSUME NEW w \in Nat, NEW x \in Nat, NEW d \in Steps, Between(w, x)
  PROVE  x + w + d <= PERIOD
<1>1. THRESHOLD \in Nat \ {0} /\ RECORDTHRESH \in Nat /\ PERIOD \in Nat /\ Steps \subseteq Nat
  BY ClockAssumption
<1>2. d \in Nat /\ RECORDTHRESH + d + d <= PERIOD
  BY <1>1, ThresholdAssumption
<1>3. CASE x = 0
  <2>1. w <= RECORDTHRESH
    BY PauseBound DEF Between
  <2> QED
    BY <2>1, <1>1, <1>2, <1>3
<1>4. CASE x # 0
  <2>1. PICK d1, d2, d3 \in Steps : x <= d1 + d2 /\ w < THRESHOLD + d3
    BY <1>4 DEF Between
  <2>2. d1 \in Nat /\ d2 \in Nat /\ d3 \in Nat
    BY <1>1
  <2>3. RECORDTHRESH + d1 + d2 <= PERIOD /\ THRESHOLD + d3 + d <= RECORDTHRESH + 1
    BY ThresholdAssumption
  <2> QED
    BY <2>1, <2>2, <2>3, <1>1, <1>2
<1> QED
  BY <1>3, <1>4

\* If tms_utime is larger at an event than it was last, one tick has fallen
\* in between; if the ratio is recorded, that was between the two readings of
\* the counter, and the ratio is what the tick took and the pause in between.
LEMMA EventRatio ==
  ASSUME Counter, TypedClock, clk.utime > cal.oldc,
         NEW o \in Clocks, NEW b \in Clocks, NEW n \in Clocks,
         NEW w \in Nat, NEW x \in Nat, NEW d \in Steps, Event(o, b, n, w, x, d),
         NEW span \in Int, span = cal.newt - cal.oldt
  PROVE  /\ (UNIT * span) \div (clk.utime - cal.oldc) = UNIT * span
         /\ UNIT * span > RECORDTHRESH * UNIT =>
              /\ UNIT * span >= UNIT * TICK
              /\ \E d1, d2 \in Steps : UNIT * span <= UNIT * (TICK + THRESHOLD + d1 + d2)
<1> DEFINE c == clk
<1>a. /\ Later(b, o, x) /\ Later(o, n, w) /\ Later(n, c, d) /\ Between(w, x)
      /\ o.now = begun + cal.oldt /\ n.now = begun + cal.newt
      /\ b.utime <= cal.oldc /\ cal.oldc <= n.utime
  BY DEF Event
<1>b. c \in Clocks /\ begun \in Nat /\ cal.oldt \in Int /\ cal.newt \in Int /\ cal.oldc \in Nat
  BY DEF Counter, TypedClock
<1>c. c.utime > cal.oldc
  OBVIOUS
<1> HIDE DEF c
<1>d. PICK oldc \in Nat : oldc = cal.oldc
  BY <1>b
<1>e. span = n.now - o.now
  BY <1>a, <1>b
<1>1. /\ UNIT \in Nat \ {0} /\ RECORDTHRESH \in Nat /\ TICK \in Nat /\ THRESHOLD \in Nat
      /\ PERIOD \in Nat /\ d \in Nat /\ Steps \subseteq Nat
  BY ClockAssumption
<1>2. /\ b.utime \in Nat /\ o.utime \in Nat /\ n.utime \in Nat /\ c.utime \in Nat
      /\ n.now \in Nat /\ o.now \in Nat
  BY <1>b DEF Clocks
<1>3. Later(b, n, x + w)
  BY <1>a, LaterStill
<1>4. x + w \in Nat
  OBVIOUS
<1>5. Later(b, c, (x + w) + d)
  BY <1>a, <1>b, <1>1, <1>3, <1>4, LaterStill
<1>6. c.utime = b.utime \/ c.utime = b.utime + 1
  <2>1. (x + w) + d <= PERIOD /\ (x + w) + d \in Nat
    BY <1>a, <1>1, TicksApart
  <2> QED
    BY <2>1, <1>b, <1>5, OneTick
<1>7. b.utime <= o.utime /\ o.utime <= n.utime /\ n.utime <= c.utime
  BY <1>a DEF Later
<1>8. c.utime - oldc = 1 /\ (n.utime = o.utime \/ n.utime = o.utime + 1)
  BY <1>a, <1>c, <1>d, <1>2, <1>6, <1>7
<1>9. UNIT * span \in Int
  BY <1>1
<1>10. (UNIT * span) \div (c.utime - oldc) = UNIT * span
  <2> DEFINE z == UNIT * span
  <2> HIDE DEF z
  <2>1. z \in Int
    BY <1>9 DEF z
  <2>2. z \div 1 = z
    BY <2>1
  <2> QED
    BY <2>2, <1>8 DEF z
<1>11. w <= RECORDTHRESH /\ \E d1, d2 \in Steps : w <= THRESHOLD + d1 + d2
  BY <1>a, PauseBound DEF Between
<1>12. ASSUME UNIT * span > RECORDTHRESH * UNIT
       PROVE  /\ UNIT * span >= UNIT * TICK
              /\ \E d1, d2 \in Steps : UNIT * span <= UNIT * (TICK + THRESHOLD + d1 + d2)
  <2>1. CASE n.utime = o.utime
    <3>1. span = w
      BY <2>1, <1>a, <1>e, LaterWork
    <3>2. w * UNIT <= RECORDTHRESH * UNIT /\ w * UNIT = UNIT * w
      BY <1>1, <1>11, Product
    <3> QED
      BY <1>1, <1>12, <3>1, <3>2
  <2>2. CASE n.utime = o.utime + 1
    <3>1. span = w + TICK
      BY <2>2, <1>a, <1>e, LaterWork
    <3>2. PICK d1, d2 \in Steps : w <= THRESHOLD + d1 + d2
      BY <1>11
    <3>3. d1 \in Nat /\ d2 \in Nat
      BY <1>1
    <3>4. PICK top \in Nat : top = TICK + THRESHOLD + d1 + d2
      BY <1>1, <3>3
    <3>5. TICK <= span /\ span <= top /\ TICK \in Int /\ top \in Int
      BY <3>1, <3>2, <3>3, <3>4, <1>1
    <3>6. UNIT * TICK <= UNIT * span /\ UNIT * span <= UNIT * top
      BY <3>5, <1>1, Product
    <3>7. UNIT * span <= UNIT * (TICK + THRESHOLD + d1 + d2)
      BY <3>4, <3>6
    <3>8. UNIT * TICK \in Int
      BY <1>1
    <3> QED
      BY <3>6, <3>7, <3>8, <1>9
  <2> QED
    BY <1>8, <2>1, <2>2
<1> QED
  BY <1>10, <1>12, <1>d DEF c

\* A reading of the counter, in range.
LEMMA InRangeReading ==
  ASSUME Counter, InRange, method = "fcyc"
  PROVE  get_counter(clk.now) = clk.now - begun
<1>1. /\ clk.now \in Nat /\ begun \in Nat /\ begun <= clk.now
      /\ cyc_hi = (begun \div W) % W /\ cyc_lo = begun % W
  BY DEF Counter, Clocks
<1>2. SubtractWords(access_counter(clk.now), <<(begun \div W) % W, begun % W>>) = clk.now - begun
  BY <1>1, ReadingExact DEF InRange
<1> QED
  BY <1>1, <1>2 DEF get_counter

\* callibrate starts the counter soon after its first reading of the ticks.
LEMMA CalStart ==
  ASSUME Counter, Calibrated, InRange', cal_start, TypedClock
  PROVE  CalLoop'
<1>1. PICK d \in Steps : start_counter(d)
  BY DEF cal_start
<1>2. d \in Nat /\ THRESHOLD \in Nat \ {0}
  BY ClockAssumption
<1>3. Started(d) /\ Later(clk, clk', d)
  BY <1>1, <1>2, StartCounter
<1>4. /\ clk' \in Clocks /\ clk'.now \in Nat /\ begun' \in Nat /\ begun' <= clk'.now
      /\ cyc_hi' = (begun' \div W) % W /\ cyc_lo' = begun' % W
  BY <1>2, <1>3 DEF Started, Clocks
<1>5. SubtractWords(access_counter(clk'.now), <<cyc_hi', cyc_lo'>>) = clk'.now - begun'
  <2>1. SubtractWords(access_counter(clk'.now), <<(begun' \div W) % W, begun' % W>>) = clk'.now - begun'
    BY <1>4, ReadingExact DEF InRange
  <2> QED
    BY <1>4, <2>1
<1>6. PICK t \in Int : t = clk'.now - begun'
  BY <1>4
<1>7. cal' = [cal EXCEPT !.oldt = t]
  BY <1>5, <1>6 DEF cal_start
<1>8. cal'.oldt = t /\ cal'.oldc = cal.oldc
  BY <1>7 DEF TypedClock
<1>9. PICK b \in Clocks : \E d1 \in Steps : Later(b, clk, d1) /\ cal.oldc = b.utime
  BY DEF Calibrated, cal_start
<1>10. PICK d1 \in Steps : Later(b, clk, d1) /\ cal.oldc = b.utime
  BY <1>9
<1>11. d1 \in Nat /\ d1 + d \in Nat
  BY <1>2, ClockAssumption
<1>12. Later(b, clk', d1 + d)
  BY <1>2, <1>3, <1>4, <1>10, <1>11, LaterStill DEF Counter
<1>13. Later(clk', clk', 0)
  BY <1>4, LaterNow
<1>14. Between(0, d1 + d)
  <2>1. 0 < THRESHOLD + d /\ d1 + d <= d1 + d
    BY <1>2, <1>11
  <2> QED
    BY <2>1 DEF Between, Paused
<1>15. b.utime <= cal'.oldc /\ cal'.oldc <= clk'.utime
  <2>1. b.utime \in Nat
    BY DEF Clocks
  <2> QED
    BY <2>1, <1>8, <1>10, <1>12 DEF Later
<1>16. clk'.now = begun' + cal'.oldt
  BY <1>4, <1>6, <1>8
<1> QED
  BY <1>4, <1>11, <1>12, <1>13, <1>14, <1>15, <1>16 DEF CalLoop

\* A reading in the loop: the counter has gone on by at least the work.
LEMMA CalRead ==
  ASSUME Counter, Calibrated, InRange, method = "fcyc", cal_loop, TypedClock
  PROVE  Calibrated'
<1>1. PICK d \in Steps : Pass(d)
  BY DEF cal_loop
<1>2. d \in Nat /\ THRESHOLD \in Nat \ {0}
  BY ClockAssumption
<1>3. clk \in Clocks /\ clk' \in Clocks /\ Later(clk, clk', d) /\ begun \in Nat /\ clk.now \in Nat
  BY <1>1, <1>2, PassOn DEF Counter, Clocks
<1>4. PICK t \in Int : t = clk.now - begun
  BY <1>3
<1>5. cal' = [cal EXCEPT !.newt = t] /\ pc = "cal_loop"
  <2>1. get_counter(clk.now) = t
    BY <1>4, InRangeReading
  <2> QED
    BY <2>1 DEF cal_loop
<1>6. cal'.newt = t /\ cal'.oldt = cal.oldt /\ cal'.oldc = cal.oldc /\ cal.oldt \in Int /\ cal.oldc \in Nat
  BY <1>5 DEF TypedClock
<1>7. /\ pc' = IF t - cal.oldt >= THRESHOLD THEN "cal_event" ELSE "cal_loop"
      /\ begun' = begun /\ cyc_per_tick' = cyc_per_tick
  BY <1>6 DEF cal_loop, counter_vars
<1>8. CalLoop /\ TickCostBounds
  BY <1>5 DEF Calibrated
<1>9. PICK o, b \in Clocks : \E w, x \in Nat :
        /\ Later(o, clk, w) /\ Later(b, o, x) /\ Between(w, x)
        /\ o.now = begun + cal.oldt
        /\ b.utime <= cal.oldc /\ cal.oldc <= clk.utime
  BY <1>8 DEF CalLoop
<1>10. PICK w, x \in Nat :
         /\ Later(o, clk, w) /\ Later(b, o, x) /\ Between(w, x)
         /\ o.now = begun + cal.oldt
         /\ b.utime <= cal.oldc /\ cal.oldc <= clk.utime
  BY <1>9
<1>11. CASE t - cal.oldt >= THRESHOLD
  <2>1. pc' = "cal_event"
    BY <1>7, <1>11
  <2>2. clk.now = begun' + cal'.newt /\ o.now = begun' + cal'.oldt
    BY <1>3, <1>4, <1>6, <1>7, <1>10
  <2>3. b.utime <= cal'.oldc /\ cal'.oldc <= clk.utime
    BY <1>6, <1>10
  <2>4. CalEvent'
    BY <2>2, <2>3, <1>3, <1>10 DEF CalEvent, Event
  <2> QED
    BY <2>1, <2>4, <1>7, <1>8 DEF Calibrated, TickCostBounds
<1>12. CASE ~(t - cal.oldt >= THRESHOLD)
  <2>1. pc' = "cal_loop"
    BY <1>7, <1>12
  <2>2. w < THRESHOLD
    <3>1. w <= clk.now - o.now
      BY <1>3, <1>10, LaterWork
    <3>2. clk.now - o.now = t - cal.oldt
      BY <1>3, <1>4, <1>6, <1>10
    <3> QED
      BY <3>1, <3>2, <1>2, <1>6, <1>12
  <2>3. w + d \in Nat /\ w + d < THRESHOLD + d
    BY <2>2, <1>2
  <2>4. Later(o, clk', w + d)
    BY <1>2, <1>3, <1>10, LaterStill
  <2>5. Between(w + d, x)
    <3>1. Paused(w + d)
      BY <2>3 DEF Paused
    <3>2. x = 0 \/ \E d1, d2, d3 \in Steps : x <= d1 + d2 /\ w + d < THRESHOLD + d3
      BY <2>3, <1>10 DEF Between
    <3> QED
      BY <3>1, <3>2 DEF Between
  <2>6. b.utime <= cal'.oldc /\ cal'.oldc <= clk'.utime
    <3>1. clk.utime <= clk'.utime /\ clk.utime \in Nat /\ clk'.utime \in Nat
      BY <1>3 DEF Later, Clocks
    <3> QED
      BY <3>1, <1>6, <1>10
  <2>7. o.now = begun' + cal'.oldt
    BY <1>6, <1>7, <1>10
  <2>8. CalLoop'
    BY <2>3, <2>4, <2>5, <2>6, <2>7, <1>10 DEF CalLoop
  <2> QED
    BY <2>1, <2>8, <1>7, <1>8 DEF Calibrated, TickCostBounds
<1> QED
  BY <1>11, <1>12

\* An event: the ratio is recorded, or no tick has fallen.
LEMMA CalTick ==
  ASSUME Counter, Calibrated, cal_event, TypedClock
  PROVE  Calibrated'
<1>1. PICK d2 \in Steps : Pass(d2)
  BY DEF cal_event
<1>2. d2 \in Nat /\ UNIT \in Nat \ {0}
  BY ClockAssumption
<1>3. /\ clk \in Clocks /\ clk' \in Clocks /\ Later(clk, clk', d2)
      /\ clk.utime \in Nat /\ clk'.utime \in Nat /\ clk.utime <= clk'.utime
  BY <1>1, <1>2, PassOn DEF Counter, Clocks
<1>4. pc = "cal_event" /\ pc' = "cal_loop" /\ begun' = begun
  BY DEF cal_event, counter_vars
<1>5. CalEvent /\ TickCostBounds
  BY <1>4 DEF Calibrated
<1>6. PICK o, b, n \in Clocks : \E w, x \in Nat : \E d \in Steps : Event(o, b, n, w, x, d)
  BY <1>5 DEF CalEvent
<1>7. PICK w, x \in Nat, d \in Steps : Event(o, b, n, w, x, d)
  BY <1>6
<1>8. /\ Later(n, clk, d) /\ o.now = begun + cal.oldt /\ n.now = begun + cal.newt
      /\ b.utime <= cal.oldc /\ cal.oldc <= n.utime
  BY <1>7 DEF Event
<1>9. /\ cal.oldt \in Int /\ cal.newt \in Int /\ cal.oldc \in Nat /\ begun \in Nat /\ d \in Nat
      /\ n.utime \in Nat /\ b.utime \in Nat /\ n.utime <= clk.utime
  BY <1>8, ClockAssumption DEF TypedClock, Counter, Clocks, Later
<1>10. PICK span \in Int : span = cal.newt - cal.oldt
  BY <1>9
<1>11. /\ cal'.oldt = cal.newt
       /\ cal'.oldc = IF clk.utime > cal.oldc THEN clk.utime ELSE cal.oldc
       /\ cyc_per_tick' = IF clk.utime > cal.oldc
                          THEN Recorded((UNIT * span) \div (clk.utime - cal.oldc)) ELSE cyc_per_tick
  BY <1>10 DEF cal_event, TypedClock
<1>12. CalLoop'
  <2>1. Later(n, clk', d + d2) /\ d + d2 \in Nat
    BY <1>2, <1>3, <1>8, <1>9, LaterStill
  <2>2. Later(n, n, 0)
    BY LaterNow
  <2>3. Between(d + d2, 0)
    <3>1. d + d2 <= d + d2
      BY <2>1
    <3> QED
      BY <3>1 DEF Between, Paused
  <2>4. n.now = begun' + cal'.oldt
    BY <1>4, <1>8, <1>11
  <2>5. n.utime <= cal'.oldc /\ cal'.oldc <= clk'.utime
    BY <1>3, <1>8, <1>9, <1>11
  <2> QED
    BY <2>1, <2>2, <2>3, <2>4, <2>5 DEF CalLoop
<1>13. TickCostBounds'
  <2>1. CASE cyc_per_tick' = cyc_per_tick
    BY <2>1, <1>5 DEF TickCostBounds
  <2>2. CASE cyc_per_tick' # cyc_per_tick
    <3> DEFINE cpt == (UNIT * span) \div (clk.utime - cal.oldc)
    <3>1. clk.utime > cal.oldc /\ cyc_per_tick' = Recorded(cpt)
      BY <2>2, <1>11
    <3>2. cyc_per_tick' = cpt /\ cpt > RECORDTHRESH * UNIT
      <4> HIDE DEF cpt
      <4> QED
        BY <2>2, <3>1 DEF Recorded
    <3>4. /\ cpt = UNIT * span
          /\ UNIT * span > RECORDTHRESH * UNIT =>
               /\ UNIT * span >= UNIT * TICK
               /\ \E d1, d3 \in Steps : UNIT * span <= UNIT * (TICK + THRESHOLD + d1 + d3)
      BY <3>1, <1>7, <1>10, EventRatio
    <3> HIDE DEF cpt
    <3>5. /\ cyc_per_tick' >= UNIT * TICK
          /\ \E d1, d3 \in Steps : cyc_per_tick' <= UNIT * (TICK + THRESHOLD + d1 + d3)
      BY <3>2, <3>4
    <3> QED
      BY <3>5 DEF TickCostBounds
  <2> QED
    BY <2>1, <2>2
<1> QED
  BY <1>4, <1>12, <1>13 DEF Calibrated

\* Every step keeps the account of callibrate.
LEMMA CalibratedStep ==
  ASSUME Held, Calibrated, InRange, InRange', [Next]_vars
  PROVE  Calibrated'
<1>0. Where /\ Counter /\ TypedClock /\ method \in {"fcyc", "itimer", "gettod"}
  BY DEF Held, Typed
<1>1. TickCostBounds
  BY DEF Calibrated
<1>a. ASSUME cyc_per_tick' = cyc_per_tick, pc' \notin {"cal_start", "cal_loop", "cal_event"}
      PROVE  Calibrated'
  BY <1>a, <1>1 DEF Calibrated, TickCostBounds
<1>2. CASE callibrate
  <2>1. PICK d \in Steps : Pass(d)
    BY <1>2 DEF callibrate
  <2>2. d \in Nat
    BY ClockAssumption
  <2>3. clk \in Clocks /\ Later(clk, clk', d)
    BY <1>0, <2>1, <2>2, PassOn DEF Counter
  <2>4. cal'.oldc = clk.utime /\ pc' = "cal_start" /\ cyc_per_tick' = cyc_per_tick
    BY <1>2 DEF callibrate, NoCal
  <2> QED
    BY <2>3, <2>4, <1>1 DEF Calibrated, TickCostBounds
<1>3. CASE cal_start
  <2>1. CalLoop'
    BY <1>0, <1>3, CalStart
  <2>2. pc' = "cal_loop" /\ cyc_per_tick' = cyc_per_tick
    BY <1>3 DEF cal_start
  <2> QED
    BY <2>1, <2>2, <1>1 DEF Calibrated, TickCostBounds
<1>4. CASE cal_loop
  <2>1. method = "fcyc"
    BY <1>0, <1>4 DEF Where, cal_loop
  <2> QED
    BY <2>1, <1>0, <1>4, CalRead
<1>5. CASE cal_event
  BY <1>0, <1>5, CalTick
<1>6. CASE cal_return \/ start_comp_counter \/ comp_times
  BY <1>6, <1>a DEF cal_return, start_comp_counter, comp_times
<1>7. CASE init_fsecs \/ configure \/ measure_overhead \/ fsecs_return
  BY <1>7, <1>a DEF init_fsecs, configure, measure_overhead, fsecs_return, clock_vars
<1>8. CASE fsecs
  BY <1>0, <1>8, <1>a DEF fsecs, clock_vars
<1>9. CASE FcycStep
  <2>1. cyc_per_tick' = cyc_per_tick
    BY <1>9 DEF FcycStep, fcyc, clear, clear_loop, time_f, stop_plain, stop_comp, stop_times, clock_vars
  <2>2. pc' \notin {"cal_start", "cal_loop", "cal_event"}
    BY <1>9, IterationStart
    DEF FcycStep, fcyc, clear, clear_loop, time_f, stop_plain, stop_comp, stop_times, sample
  <2> QED
    BY <2>1, <2>2, <1>a
<1>10. CASE FTimerStep
  <2>1. cyc_per_tick' = cyc_per_tick
    BY <1>10 DEF FTimerStep, init_etime, first_reading, run_f, last_reading, other_vars
  <2>2. pc' \notin {"cal_start", "cal_loop", "cal_event"}
    BY <1>10 DEF FTimerStep, init_etime, first_reading, run_f, last_reading
  <2> QED
    BY <2>1, <2>2, <1>a
<1>11. CASE finished \/ UNCHANGED vars
  <2>1. UNCHANGED <<pc, clk, begun, cal, cyc_per_tick>>
    BY <1>11 DEF finished, vars, clock_vars, counter_vars
  <2> QED
    BY <2>1 DEF Calibrated, TickCostBounds, CalLoop, CalEvent, Event
<1> QED
  BY <1>2, <1>3, <1>4, <1>5, <1>6, <1>7, <1>8, <1>9, <1>10, <1>11 DEF Next, ClockStep

-----------------------------------------------------------------------------
\* What a sample is charged.

\* Ticks are charged at no less than they took.
LEMMA TicksCharged ==
  ASSUME NEW time \in Int, NEW work \in Nat, NEW t \in Nat, NEW cost \in Nat,
         time <= work + t * TICK, cost >= UNIT * TICK
  PROVE  UNIT * time - t * cost <= UNIT * work
<1>1. UNIT \in Nat /\ TICK \in Nat
  BY ClockAssumption
<1>2. t * TICK \in Nat
  BY <1>1
<1>3. UNIT * time <= UNIT * (work + t * TICK)
  BY <1>1, <1>2
<1>4. UNIT * (work + t * TICK) = UNIT * work + UNIT * (t * TICK)
  BY <1>1, <1>2
<1>5. UNIT * (t * TICK) = t * (UNIT * TICK) /\ UNIT * TICK \in Nat
  BY <1>1
<1>6. t * (UNIT * TICK) <= t * cost
  BY <1>5, Product
<1>7. UNIT * time \in Int /\ UNIT * work \in Int /\ t * cost \in Int /\ t * (UNIT * TICK) \in Int
  BY <1>1, <1>5
<1> QED
  BY <1>3, <1>4, <1>5, <1>6, <1>7

\* The time since the start of the measurement is its work and the ticks.
LEMMA CompensatedStep ==
  ASSUME Held, Compensated, InRange, [Next]_vars
  PROVE  Compensated'
<1>0. /\ Where /\ Counter /\ method \in {"fcyc", "itimer", "gettod"}
      /\ clk \in Clocks /\ clk.now \in Nat /\ clk.utime \in Nat /\ begun \in Nat /\ own \in Nat
      /\ begun <= clk.now /\ start_tick \in Nat /\ start_tick <= clk.utime /\ TICK \in Nat
  BY ClockAssumption DEF Held, Typed, TypedClock, Counter, Clocks, Compensated
<1>a. ASSUME start_tick' = start_tick, clk'.utime \in Nat, clk'.utime >= clk.utime,
             pc' \notin {"stop", "stop_times"}
      PROVE  Compensated'
  BY <1>a, <1>0 DEF Compensated
<1>b. ASSUME NEW d \in Nat, Pass(d)
      PROVE  clk'.utime \in Nat /\ clk'.utime >= clk.utime
  <2>1. clk' \in Clocks /\ clk'.utime >= clk.utime
    BY <1>0, <1>b, PassOn
  <2> QED
    BY <2>1 DEF Clocks
<1>c. \A d \in Steps \union Work \union Runs : d \in Nat
  BY ClockAssumption, SettingsAssumption, FTimerAssumption
<1>1. CASE init_fsecs
  <2>1. start_tick' = start_tick /\ pc' = "idle"
    BY <1>1 DEF init_fsecs
  <2>2. clk'.utime = clk.utime
    <3>1. CASE method = "fcyc"
      BY <1>0, <1>1, <3>1, SleepOn DEF init_fsecs
    <3>2. CASE method # "fcyc"
      BY <1>1, <3>2 DEF init_fsecs
    <3> QED
      BY <3>1, <3>2
  <2> QED
    BY <2>1, <2>2, <1>a, <1>0
<1>2. CASE configure \/ fsecs_return
  BY <1>2, <1>a, <1>0 DEF configure, fsecs_return, clock_vars
<1>3. CASE measure_overhead
  <2>1. (\E d \in Nat : Started(d)) /\ clk'.utime >= clk.utime
    BY <1>0, <1>3, Overhead DEF measure_overhead
  <2>2. clk'.utime \in Nat
    BY <2>1 DEF Started, Clocks
  <2> QED
    BY <2>1, <2>2, <1>3, <1>a DEF measure_overhead
<1>4. CASE fsecs
  BY <1>4, <1>a, <1>0 DEF fsecs, clock_vars
<1>5. CASE callibrate \/ cal_loop \/ cal_event
  <2>1. PICK d \in Steps : Pass(d)
    BY <1>5 DEF callibrate, cal_loop, cal_event
  <2>2. start_tick' = start_tick /\ pc' \notin {"stop", "stop_times"}
    BY <1>5 DEF callibrate, cal_loop, cal_event
  <2> QED
    BY <2>1, <2>2, <1>a, <1>b, <1>c
<1>6. CASE cal_start
  <2>1. PICK d \in Steps : start_counter(d)
    BY <1>6 DEF cal_start
  <2>2. Started(d) /\ Later(clk, clk', d)
    BY <2>1, <1>0, <1>c, StartCounter
  <2>3. clk'.utime \in Nat /\ clk'.utime >= clk.utime
    BY <2>2 DEF Started, Later, Clocks
  <2> QED
    BY <2>3, <1>6, <1>a DEF cal_start
<1>7. CASE cal_return \/ start_comp_counter
  BY <1>7, <1>a, <1>0 DEF cal_return, start_comp_counter
<1>8. CASE comp_times
  <2>1. PICK d \in Steps : Pass(d)
    BY <1>8 DEF comp_times
  <2>2. start_tick' = clk.utime /\ pc' = "start"
    BY <1>8 DEF comp_times
  <2> QED
    BY <2>1, <2>2, <1>b, <1>c DEF Compensated
<1>9. CASE fcyc \/ clear \/ clear_loop
  BY <1>9, <1>a, <1>0, IterationStart DEF fcyc, clear, clear_loop, clock_vars
<1>10. CASE time_f
  <2>1. PICK w \in Work : start_counter(w)
    BY <1>10 DEF time_f
  <2>2. w \in Nat /\ start_tick' = start_tick /\ pc' = "stop"
    BY <1>10, <1>c DEF time_f
  <2>3. Started(w) /\ begun' = clk.now /\ Later(clk, clk', w)
    BY <2>1, <2>2, <1>0, StartCounter
  <2>4. own' = w /\ clk'.utime \in Nat /\ clk'.utime >= clk.utime /\ clk'.now \in Nat
    BY <2>3 DEF Started, Later, Clocks
  <2>5. clk'.now = clk.now + w + (clk'.utime - clk.utime) * TICK
    BY <2>3 DEF Later
  <2>6. PICK t \in Nat, t2 \in Nat : t = clk'.utime - clk.utime /\ t2 = clk'.utime - start_tick
    BY <2>4, <1>0
  <2>7. t * TICK <= t2 * TICK /\ t * TICK \in Int
    <3>1. t <= t2
      BY <2>4, <2>6, <1>0
    <3> QED
      BY <3>1, <1>0, Product
  <2>8. clk'.now - begun' <= own' + (clk'.utime - start_tick') * TICK
    <3>1. clk'.now = clk.now + w + t * TICK
      BY <2>5, <2>6
    <3>2. clk'.now - begun' = w + t * TICK
      BY <3>1, <2>2, <2>3, <2>7, <1>0
    <3>3. (clk'.utime - start_tick') * TICK = t2 * TICK /\ t2 * TICK \in Int
      BY <2>2, <2>6, <1>0
    <3> QED
      BY <3>2, <3>3, <2>2, <2>4, <2>7
  <2>9. start_tick' <= clk'.utime
    BY <2>2, <2>4, <1>0
  <2> QED
    BY <2>2, <2>8, <2>9 DEF Compensated
<1>11. CASE FcycStep /\ stop_comp
  <2>1. PICK d \in Steps : Pass(d)
    BY <1>11 DEF stop_comp
  <2>2. clk'.utime \in Nat /\ clk'.utime >= clk.utime
    BY <2>1, <1>b, <1>c
  <2>3. pc = "stop" /\ pc' = "stop_times" /\ start_tick' = start_tick /\ par' = par /\ par["compensate"] # 0
    BY <1>11 DEF stop_comp
  <2>4. get_counter(clk.now) = clk.now - begun
    <3>1. method = "fcyc"
      BY <2>3, <1>0 DEF Where
    <3> QED
      BY <3>1, <1>0, InRangeReading
  <2>5. PICK span \in Nat : span = clk.now - begun
    BY <1>0
  <2>6. reading' = [time |-> span, span |-> span, work |-> own]
    BY <1>11, <2>4, <2>5 DEF stop_comp
  <2>7. span <= own + (clk.utime - start_tick) * TICK
    BY <2>3, <2>5 DEF Compensated
  <2>8. (clk.utime - start_tick) * TICK <= (clk'.utime - start_tick) * TICK
    BY <2>2, <1>0, Product
  <2>9. /\ (clk.utime - start_tick) * TICK \in Int
        /\ (clk'.utime - start_tick) * TICK \in Int
    BY <2>2, <1>0
  <2>10. span <= own + (clk'.utime - start_tick) * TICK
    BY <2>7, <2>8, <2>9, <1>0
  <2>11. reading'.time = reading'.span /\ reading'.time <= reading'.work + (clk'.utime - start_tick') * TICK
    BY <2>3, <2>6, <2>10
  <2>12. start_tick' <= clk'.utime
    BY <2>2, <2>3, <1>0
  <2> QED
    BY <2>3, <2>11, <2>12 DEF Compensated
<1>12. CASE FcycStep /\ (stop_plain \/ stop_times)
  <2>1. method' = method
    BY <1>12 DEF FcycStep
  <2>2. UNCHANGED clock_vars /\ (pc' = "returned" \/ pc' = Iteration)
    BY <2>1, <1>12, Stopped DEF Held
  <2> QED
    BY <2>2, <1>a, <1>0, IterationStart DEF clock_vars
<1>13. CASE FTimerStep
  <2>1. start_tick' = start_tick /\ pc' \notin {"stop", "stop_times"}
    BY <1>13 DEF FTimerStep, init_etime, first_reading, run_f, last_reading, other_vars
  <2>2. clk' = clk \/ \E d \in Steps \union Runs : Pass(d)
    BY <1>13 DEF FTimerStep, init_etime, first_reading, run_f, last_reading
  <2> QED
    BY <2>1, <2>2, <1>a, <1>b, <1>c, <1>0
<1>14. CASE finished \/ UNCHANGED vars
  <2>1. UNCHANGED <<pc, clk, begun, own, start_tick, par, reading>>
    BY <1>14 DEF finished, vars, clock_vars, counter_vars, fcyc_vars
  <2> QED
    BY <2>1 DEF Compensated
<1> QED
  BY <1>1, <1>2, <1>3, <1>4, <1>5, <1>6, <1>7, <1>8, <1>9, <1>10, <1>11, <1>12, <1>13, <1>14
     DEF Next, ClockStep, FcycStep

\* A new sample is sound.
LEMMA SoundSample ==
  ASSUME Held, Compensated, TickCostBounds, InRange, stop_plain \/ stop_times
  PROVE  \E val \in Int, span \in Nat, work \in Nat, cost \in Nat :
           /\ sample(val, span, work, cost)
           /\ FairlyCharged([val |-> val, span |-> span, work |-> work, cost |-> cost])
<1>0. Where /\ Counter /\ TypedClock /\ TypedFcyc
  BY DEF Held, Typed
<1>a. ASSUME NEW val \in Int, NEW span \in Nat, NEW work \in Nat, NEW cost \in Nat,
             IF cost = 0 THEN val = UNIT * span ELSE val <= UNIT * work
      PROVE  FairlyCharged([val |-> val, span |-> span, work |-> work, cost |-> cost])
  BY <1>a DEF FairlyCharged
<1>1. CASE stop_plain
  <2>1. PICK val \in Int, span \in Nat, work \in Nat, cost \in Nat :
          /\ val = UNIT * get_counter(clk.now) /\ span = clk.now - begun /\ cost = 0
          /\ sample(val, span, work, cost) /\ pc = "stop"
    BY <1>0, <1>1, StopPlain
  <2>2. get_counter(clk.now) = clk.now - begun
    <3>1. method = "fcyc"
      BY <2>1, <1>0 DEF Where
    <3> QED
      BY <3>1, <1>0, InRangeReading
  <2>3. IF cost = 0 THEN val = UNIT * span ELSE val <= UNIT * work
    BY <2>1, <2>2
  <2> QED
    BY <2>1, <2>3, <1>a
<1>2. CASE stop_times
  <2>1. PICK val \in Int, span \in Nat, work \in Nat, cost \in Nat :
          /\ val = get_comp_counter(reading.time, clk.utime)
          /\ span = reading.span /\ work = reading.work /\ cost = cyc_per_tick
          /\ sample(val, span, work, cost) /\ pc = "stop_times"
    BY <1>0, <1>2, StopTimes
  <2>2. /\ reading.time = reading.span
        /\ reading.time <= reading.work + (clk.utime - start_tick) * TICK
        /\ start_tick <= clk.utime
    BY <2>1 DEF Compensated
  <2>3. PICK time \in Int : time = reading.time
    BY <1>0 DEF TypedFcyc
  <2>4. PICK t \in Nat : t = clk.utime - start_tick
    BY <2>2, <1>0 DEF Counter, Clocks, TypedClock
  <2>5. val = UNIT * time - t * cyc_per_tick
    BY <2>1, <2>3, <2>4 DEF get_comp_counter
  <2>6. UNIT \in Nat /\ TICK \in Nat /\ cyc_per_tick \in Nat
    BY <1>0, ClockAssumption DEF TypedClock
  <2>7. CASE cyc_per_tick # 0
    <3>1. cyc_per_tick >= UNIT * TICK
      BY <2>7 DEF TickCostBounds
    <3>2. time <= work + t * TICK
      BY <2>1, <2>2, <2>3, <2>4
    <3>3. UNIT * time - t * cyc_per_tick <= UNIT * work
      BY <3>1, <3>2, <2>6, TicksCharged
    <3>4. IF cost = 0 THEN val = UNIT * span ELSE val <= UNIT * work
      BY <3>3, <2>1, <2>5, <2>7
    <3>5. FairlyCharged([val |-> val, span |-> span, work |-> work, cost |-> cost])
      BY <3>4, <1>a
    <3> QED
      BY <3>5, <2>1, Zenon
  <2>8. CASE cyc_per_tick = 0
    <3>1. time = span
      BY <2>1, <2>2, <2>3
    <3>2. t * 0 = 0
      OBVIOUS
    <3>3. val = UNIT * time /\ UNIT * time \in Int
      BY <3>2, <2>8, <2>5, <2>6
    <3>4. IF cost = 0 THEN val = UNIT * span ELSE val <= UNIT * work
      BY <3>1, <3>3, <2>1, <2>8
    <3>5. FairlyCharged([val |-> val, span |-> span, work |-> work, cost |-> cost])
      BY <3>4, <1>a
    <3> QED
      BY <3>5, <2>1, Zenon
  <2> QED
    BY <2>7, <2>8
<1> QED
  BY <1>1, <1>2

\* Every step keeps the samples sound.
LEMMA SamplesStep ==
  ASSUME Held, Compensated, TickCostBounds, SamplesSound, InRange, [Next]_vars
  PROVE  SamplesSound'
<1>0. Where /\ Typed /\ Counter /\ Sampled /\ seen \in Seq(Sample)
  BY DEF Held, Typed, TypedFcyc
<1>a. ASSUME seen' = <<>> PROVE SamplesSound'
  <2>1. DOMAIN seen' = {}
    BY <1>a
  <2> QED
    BY <2>1 DEF SamplesSound
<1>b. ASSUME UNCHANGED seen PROVE SamplesSound'
  BY <1>b DEF SamplesSound, FairlyCharged
<1>1. CASE init_fsecs
  <2>1. pc = "init" /\ seen' = seen
    BY <1>1 DEF init_fsecs, fcyc_vars
  <2>2. seen = <<>>
    BY <2>1, <1>0 DEF Sampled
  <2> QED
    BY <2>1, <2>2, <1>a
<1>2. CASE configure
  <2>1. pc = "idle" /\ seen' = seen
    BY <1>2 DEF configure
  <2>2. seen = <<>>
    BY <2>1, <1>0 DEF Sampled
  <2> QED
    BY <2>1, <2>2, <1>a
<1>3. CASE measure_overhead \/ fsecs
  BY <1>3, <1>b DEF measure_overhead, fsecs, fcyc_vars
<1>4. CASE fsecs_return \/ fcyc
  BY <1>4, <1>a DEF fsecs_return, fcyc
<1>5. CASE ClockStep \/ FTimerStep
  BY <1>5, <1>b DEF ClockStep, FTimerStep, fcyc_vars
<1>6. CASE clear \/ clear_loop \/ time_f \/ stop_comp
  BY <1>6, <1>b DEF clear, clear_loop, time_f, stop_comp, fcyc_vars
<1>7. CASE FcycStep /\ (stop_plain \/ stop_times)
  <2>1. method' = method
    BY <1>7 DEF FcycStep
  <2>2. PICK val \in Int, span \in Nat, work \in Nat, cost \in Nat :
          /\ sample(val, span, work, cost)
          /\ FairlyCharged([val |-> val, span |-> span, work |-> work, cost |-> cost])
    BY <1>7, SoundSample
  <2>3. pc \in SamplePcs /\ method = "fcyc"
    BY <1>0, <1>7 DEF stop_plain, stop_times, Where, SamplePcs, CalPcs
  <2>4. seen' = Append(seen, [val |-> val, span |-> span, work |-> work, cost |-> cost])
    BY <2>1, <2>2, <2>3, <1>0, SampleStep
  <2>5. /\ DOMAIN seen' = 1 .. (Len(seen) + 1) /\ DOMAIN seen = 1 .. Len(seen) /\ Len(seen) \in Nat
        /\ seen'[Len(seen) + 1] = [val |-> val, span |-> span, work |-> work, cost |-> cost]
        /\ \A j \in 1 .. Len(seen) : seen'[j] = seen[j]
    BY <2>4, <1>0
  <2>6. ASSUME NEW j \in DOMAIN seen'
        PROVE  FairlyCharged(seen'[j])
    <3>1. CASE j = Len(seen) + 1
      BY <3>1, <2>2, <2>5
    <3>2. CASE j # Len(seen) + 1
      <4>1. j \in DOMAIN seen /\ seen'[j] = seen[j]
        BY <3>2, <2>5
      <4> QED
        BY <4>1 DEF SamplesSound
    <3> QED
      BY <3>1, <3>2
  <2> QED
    BY <2>6 DEF SamplesSound, FairlyCharged
<1>8. CASE finished \/ UNCHANGED vars
  BY <1>8, <1>b DEF finished, vars, fcyc_vars
<1> QED
  BY <1>1, <1>2, <1>3, <1>4, <1>5, <1>6, <1>7, <1>8 DEF Next, FcycStep

\* Only mhz sets the clock rate.
LEMMA RatedStep ==
  ASSUME Held, Rated, InRange', [Next]_vars
  PROVE  Rated'
<1>0. Counter
  BY DEF Held
<1>1. CASE init_fsecs /\ method = "fcyc"
  <2>1. mhz
    BY <1>1 DEF init_fsecs
  <2>2. /\ Started(0) /\ clk'.now - begun' >= FREQ * SLEEPTIME
        /\ Mhz' = SubtractWords(access_counter(clk'.now), <<cyc_hi', cyc_lo'>>)
    BY <2>1, <1>0, SleepOn
  <2>3. /\ clk'.now \in Nat /\ begun' \in Nat /\ begun' <= clk'.now
        /\ cyc_hi' = (begun' \div W) % W /\ cyc_lo' = begun' % W
    BY <2>2 DEF Started, Clocks
  <2>4. SubtractWords(access_counter(clk'.now), <<(begun' \div W) % W, begun' % W>>) = clk'.now - begun'
    BY <2>3, ReadingExact DEF InRange
  <2>5. Mhz' = clk'.now - begun'
    BY <2>2, <2>3, <2>4
  <2> QED
    BY <2>2, <2>5 DEF Rated
<1>2. CASE ~(init_fsecs /\ method = "fcyc")
  <2>1. Mhz' = Mhz /\ method' = method
    BY <1>2 DEF Next, init_fsecs, configure, measure_overhead, fsecs, fsecs_return, ClockStep,
                FcycStep, FTimerStep, finished, vars
  <2>2. method' = "fcyc" /\ pc' # "init" => pc # "init"
    <3>1. CASE pc = "init"
      <4>1. ~fsecs_return /\ ~configure /\ ~measure_overhead /\ ~fsecs /\ ~ClockStep /\ ~FcycStep
            /\ ~FTimerStep /\ ~finished
        BY <3>1 DEF fsecs_return, configure, measure_overhead, fsecs, finished,
             ClockStep, callibrate, cal_start, cal_loop, cal_event, cal_return,
             start_comp_counter, comp_times,
             FcycStep, fcyc, clear, clear_loop, time_f, stop_plain, stop_comp, stop_times,
             FTimerStep, init_etime, first_reading, run_f, last_reading
      <4>2. UNCHANGED vars \/ (init_fsecs /\ method # "fcyc")
        BY <4>1, <1>2 DEF Next
      <4>3. method' = "fcyc" => pc' = pc
        BY <4>2, <2>1 DEF vars
      <4> QED
        BY <4>3, <3>1
    <3> QED
      BY <3>1
  <2> QED
    BY <2>1, <2>2 DEF Rated
<1> QED
  BY <1>1, <1>2

\* Charged is invariant while the counter is in range.
LEMMA ChargedInit ==
  ASSUME Init
  PROVE  Charged
<1> USE DEF Init, FcycInit, FTimerInit
<1>1. Held
  BY HeldInit
<1>2. Calibrated
  BY DEF Calibrated, TickCostBounds
<1>3. Compensated
  BY <1>1 DEF Compensated
<1>4. SamplesSound
  BY DEF SamplesSound
<1>5. Rated
  BY DEF Rated
<1> QED
  BY <1>2, <1>3, <1>4, <1>5 DEF Charged

\* Every step whose readings are in range keeps Charged.
LEMMA ChargedStep ==
  ASSUME Held, Charged, InRange, InRange', [Next]_vars
  PROVE  Charged'
<1>1. Calibrated /\ Compensated /\ SamplesSound /\ Rated /\ TickCostBounds
  BY DEF Charged, Calibrated
<1>2. Calibrated'
  BY <1>1, CalibratedStep
<1>3. Compensated'
  BY <1>1, CompensatedStep
<1>4. SamplesSound'
  BY <1>1, SamplesStep
<1>5. Rated'
  BY <1>1, RatedStep
<1> QED
  BY <1>2, <1>3, <1>4, <1>5 DEF Charged

\* Runs in which the counter never runs through all of its W * W values
\* between start_counter and a reading.
THEOREM ChargedInvariance == Spec /\ []InRange => []Charged
<1>1. Init => Charged
  BY ChargedInit
<1>2. Held /\ InRange /\ InRange' /\ Charged /\ [Next]_vars => Charged'
  BY ChargedStep
<1> QED
  BY <1>1, <1>2, Invariance, PTL DEF Spec

\* However the interrupts fall between the readings of callibrate, what it
\* records is at least what an interrupt takes, and larger by less than a
\* pause of its loop.
THEOREM TickCost == Spec /\ []InRange => []TickCostBounds
<1>1. Charged => TickCostBounds
  BY DEF Charged, Calibrated
<1> QED
  BY <1>1, ChargedInvariance, PTL

\* A sample compensated at a known cost of a tick charges the function for no
\* more than its own work; one that is not, because compensation is off or
\* callibrate recorded no cost, is exactly the cycles that passed.
THEOREM SoundSamples == Spec /\ []InRange => []SamplesSound
<1>1. Charged => SamplesSound
  BY DEF Charged
<1> QED
  BY <1>1, ChargedInvariance, PTL

\* Hence the seconds that fsecs returns are, for each run it made, no more
\* than the run's own work takes if it was compensated at a known cost, and
\* than the run took, interrupts included, if it was not.
THEOREM SecondsSound == Spec /\ []InRange => []SecondsNotOver
<1>1. Held /\ Charged => SecondsNotOver
  <2> SUFFICES ASSUME Held, Charged, pc = "returned", method = "fcyc", NEW j \in DOMAIN seen
               PROVE  result * FREQ * SLEEPTIME <= UNIT * Chargeable(seen[j]) * Mhz
    BY DEF SecondsNotOver
  <2>1. /\ FREQ \in Nat /\ SLEEPTIME \in Nat /\ UNIT \in Nat /\ Mhz \in Nat
        /\ result \in Int /\ seen \in Seq(Sample)
    BY ClockAssumption DEF Held, Typed, TypedFcyc
  <2>2. seen[j] \in Sample
    BY <2>1
  <2>3. PICK val \in Int, bound \in Nat : val = seen[j].val /\ bound = Chargeable(seen[j])
    BY <2>2 DEF Sample, Chargeable
  <2>4. result <= val
    BY <2>1, <2>3 DEF Held, ResultIsBest
  <2>5. val <= UNIT * bound
    <3>1. FairlyCharged(seen[j])
      BY DEF Charged, SamplesSound
    <3>2. UNIT * bound \in Nat
      BY <2>1, <2>3
    <3> QED
      BY <3>1, <3>2, <2>2, <2>3 DEF FairlyCharged, Chargeable, Sample
  <2>6. PICK rate \in Nat : rate = FREQ * SLEEPTIME
    BY <2>1
  <2>7. rate <= Mhz
    BY <2>6 DEF Charged, Rated
  <2>8. PICK most \in Nat : most = UNIT * bound
    BY <2>1
  <2>9. result <= most
    BY <2>1, <2>3, <2>4, <2>5, <2>8
  <2>10. result * rate <= most * rate /\ most * rate <= most * Mhz
    BY <2>1, <2>7, <2>9, Product
  <2>11. result * FREQ * SLEEPTIME = result * rate
    BY <2>1, <2>6
  <2>12. result * rate \in Int /\ most * rate \in Int /\ most * Mhz \in Int
    BY <2>1
  <2> QED
    BY <2>3, <2>8, <2>10, <2>11, <2>12
<1> QED
  BY <1>1, Invariance, ChargedInvariance, PTL
=============================================================================
