------------------------------ MODULE FsecsInv ------------------------------
(***************************************************************************)
(* The inductive invariants behind the properties of Fsecs.  Held holds in *)
(* every run; Charged needs the counter to be read before all of its W * W *)
(* values have passed since it was started (InRange).                      *)
(***************************************************************************)
EXTENDS Fsecs

\* The counter has not run through all of its values since start_counter
\* (2^64 cycles, more than the machine has been up).
InRange == clk.now - begun < W * W
-----------------------------------------------------------------------------
\* Inside callibrate, and inside the loop of fcyc.
CalPcs == {"callibrate", "cal_start", "cal_loop", "cal_event"}
SamplePcs == CalPcs \union {"clear", "clear_loop", "start_comp", "comp_times",
                            "start", "stop", "stop_times"}

\* Where the program can be under each method.
Where ==
  \/ pc \in {"init", "idle", "returned"}
  \/ method = "fcyc" /\ pc \in SamplePcs \union {"fcyc", "exit"}
  \/ method = "itimer" /\ pc \in {"itimer", "itimer_start", "itimer_runs", "killed"}
  \/ method = "gettod" /\ pc \in {"gettod", "gettod_runs", "killed"}

Clocks == [now : Nat, utime : Nat, quiet : 0 .. (PERIOD - 1)]
Sample == [val : Int, span : Nat, work : Nat, cost : Nat]

\* The types, component by component; callibrate acts on an event only while
\* it waits for more of them.
TypedClock ==
  /\ cyc_per_tick \in Nat /\ start_tick \in Nat
  /\ cal \in [oldt : Int, newt : Int, oldc : Nat, e : 0 .. NEVENT]
  /\ pc = "cal_event" => cal.e < NEVENT

TypedFcyc ==
  /\ par \in [Parameters -> Nat] /\ \A p \in Parameters : par[p] \in Settings[p]
  /\ cptr \in Nat /\ samplecount \in Nat /\ result \in Int
  /\ reading \in [time : Int, span : Nat, work : Nat]
  /\ seen \in Seq(Sample)

TypedFTimer == i \in 0 .. Reps /\ tmeas \in Nat

Typed ==
  /\ TypedClock /\ TypedFcyc /\ TypedFTimer
  /\ method \in {"fcyc", "itimer", "gettod"} /\ Mhz \in Nat

\* The counter holds the words of the cycle the measurement began at, and no
\* less has passed since than the program's own work.
Counter ==
  /\ clk \in Clocks /\ begun \in Nat /\ own \in Nat
  /\ begun + own <= clk.now
  /\ cyc_hi \in 0 .. (W - 1) /\ cyc_lo \in 0 .. (W - 1)
  /\ method = "fcyc" => cyc_hi = (begun \div W) % W /\ cyc_lo = begun % W

\* The cache buffer has the size that clear reads.
Buffer ==
  /\ cache_buf \in {0, par["cache_bytes"]}
  /\ pc = "init" => cache_buf = 0
  /\ pc = "clear_loop" => cache_buf = par["cache_bytes"]

\* How many of the samples are smaller than v.
Below(samples, v) == AtMost(samples, v - 1)

\* w is a value of rank j among the samples: no more than j of them are
\* smaller, and more than j are no larger.
Rank(w, j, samples) == Below(samples, w) <= j /\ AtMost(samples, w) > j

\* v holds the k least of n samples in ascending order.
Ranked(k, v, samples, n) ==
  /\ \A j \in 0 .. (k - 1) : j < n => Rank(v[j], j, samples)
  /\ \A j, l \in 0 .. (k - 1) : j < l /\ l < n => v[j] <= v[l]

\* The array is allocated during a call of fcyc and holds the least of the
\* samples of that call, of which there are fewer than maxsamples.
Sampled ==
  /\ pc \in SamplePcs =>
       /\ values \in [0 .. (par["kbest"] - 1) -> Int]
       /\ Ranked(par["kbest"], values, seen, samplecount)
       /\ samplecount = 0 \/ samplecount < par["maxsamples"]
  /\ pc = "exit" => values \in [0 .. (par["kbest"] - 1) -> Int]
  /\ pc \notin SamplePcs \union {"exit"} => values = NoValues
  /\ pc \notin {"idle", "fcyc"} => samplecount = Len(seen)
  /\ pc = "idle" => seen = <<>>
  /\ method # "fcyc" \/ pc = "init" => samplecount = 0 /\ seen = <<>>

\* What the interval timer or gettimeofday said at the first reading.
Timed ==
  /\ pc = "itimer_start" => armed \in Nat /\ armed <= clk.now
  /\ pc = "itimer_runs" => armed \in Nat /\ start = begun - armed
  /\ pc = "gettod_runs" => stv = timeval(begun)

\* The inductive invariant of every run.
Held ==
  Where /\ Typed /\ Counter /\ Buffer /\ Sampled /\ Timed /\ ResultIsBest /\ TimedExactly
-----------------------------------------------------------------------------
\* The clocks show c2 when they showed c and w cycles of the program's own
\* work have been done since.
Later(c, c2, w) ==
  /\ c2.utime >= c.utime
  /\ c2.now = c.now + w + (c2.utime - c.utime) * TICK
  /\ c2.quiet + (c2.utime - c.utime) * PERIOD = c.quiet + w

\* The work w between two readings of the counter by callibrate: one turn of
\* its loop after less than THRESHOLD cycles, or the way around an event.
Paused(w) == \E d, d2 \in Steps : w < THRESHOLD + d \/ w <= d + d2

\* The work x before that, since tms_utime was read: none, or that between
\* the first reading of all and start_counter.
Between(w, x) ==
  /\ Paused(w)
  /\ x = 0 \/ \E d, d2, d3 \in Steps : x <= d + d2 /\ w < THRESHOLD + d3

\* callibrate read the counter as oldt at o, w cycles of work ago, and the
\* ticks as oldc no earlier than at b, x cycles of work before that.
CalLoop ==
  \E o, b \in Clocks : \E w, x \in Nat :
    /\ Later(o, clk, w) /\ Later(b, o, x) /\ Between(w, x)
    /\ o.now = begun + cal.oldt
    /\ b.utime <= cal.oldc /\ cal.oldc <= clk.utime

\* At an event it has also read the counter as newt at n.
Event(o, b, n, w, x, d) ==
  /\ Later(n, clk, d) /\ Later(o, n, w) /\ Later(b, o, x) /\ Between(w, x)
  /\ o.now = begun + cal.oldt /\ n.now = begun + cal.newt
  /\ b.utime <= cal.oldc /\ cal.oldc <= n.utime

CalEvent == \E o, b, n \in Clocks : \E w, x \in Nat : \E d \in Steps : Event(o, b, n, w, x, d)

\* What callibrate has recorded so far is the cost of a tick, and its locals
\* fit the clocks.
Calibrated ==
  /\ TickCostBounds
  /\ pc = "cal_start" => \E b \in Clocks : \E d \in Steps : Later(b, clk, d) /\ cal.oldc = b.utime
  /\ pc = "cal_loop" => CalLoop
  /\ pc = "cal_event" => CalEvent

\* The ticks that get_comp_counter will subtract are no fewer than those
\* that fell between its readings of the counter.
Compensated ==
  /\ start_tick <= clk.utime
  /\ pc = "stop" => clk.now - begun <= own + (clk.utime - start_tick) * TICK
  /\ pc = "stop_times" =>
       /\ par["compensate"] # 0 /\ reading.time = reading.span
       /\ reading.time <= reading.work + (clk.utime - start_tick) * TICK

\* mhz measured no less than the clock rate.
Rated == method = "fcyc" /\ pc # "init" => Mhz >= FREQ * SLEEPTIME

\* The inductive invariant of the runs whose readings are in range.
Charged == Calibrated /\ Compensated /\ SamplesSound /\ Rated
=============================================================================
