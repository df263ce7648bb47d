-------------------------------- MODULE Fsecs --------------------------------
(***************************************************************************)
(* fsecs.c: the timing package as mdriver.c uses it, for each of the three *)
(* methods that config.h selects from.  init_fsecs prepares the method and *)
(* fsecs times one function.  Between two calls the parameters of fcyc.c   *)
(* may be set.                                                             *)
(***************************************************************************)
EXTENDS Fcyc, FTimer

CONSTANTS
  Methods,       \* the values of USE_xxx: "fcyc", "itimer", "gettod"
  FsecsParams,   \* the parameters init_fsecs sets
  Starts, Phases,  \* when the program may start: cycles since the machine did, since a tick
  MaxStart       \* bound: no measurement begins later

ASSUME FsecsAssumption ==
  /\ Methods \subseteq {"fcyc", "itimer", "gettod"}
  /\ FsecsParams \in [Parameters -> Nat] /\ \A p \in Parameters : FsecsParams[p] \in Settings[p]
  /\ Starts \subseteq Nat /\ Phases \subseteq 0 .. (PERIOD - 1) /\ MaxStart \in Nat

VARIABLES
  method,   \* the method compiled in
  Mhz       \* cycles measured by mhz during SLEEPTIME seconds

vars == <<pc, clock_vars, fcyc_vars, ftimer_vars, method, Mhz>>

Init ==
  /\ pc = "init" /\ method \in Methods /\ Mhz = 0
  /\ clk \in [now : Starts, utime : {0}, quiet : Phases]
  /\ cyc_hi = 0 /\ cyc_lo = 0 /\ cyc_per_tick = 0 /\ start_tick = 0 /\ cal = NoCal
  /\ begun = 0 /\ own = 0
  /\ FcycInit /\ FTimerInit

\* Mutant of mhz: the counter is read before the sleep.
mhz_early ==
  \E late \in Late :
    /\ cyc_hi' = access_counter(clk.now)[1] /\ cyc_lo' = access_counter(clk.now)[2]
    /\ begun' = clk.now /\ own' = 0
    /\ clk' = [clk EXCEPT !.now = @ + FREQ * SLEEPTIME + late]
    /\ Mhz' = 0

\* mhz: start_counter, sleep and get_counter.  The process does no work of
\* its own and may be woken late.
mhz ==
  \E late \in Late :
    /\ cyc_hi' = access_counter(clk.now)[1] /\ cyc_lo' = access_counter(clk.now)[2]
    /\ begun' = clk.now /\ own' = 0
    /\ clk' = [clk EXCEPT !.now = @ + FREQ * SLEEPTIME + late]
    /\ Mhz' = SubtractWords(access_counter(clk'.now), <<cyc_hi', cyc_lo'>>)

init_fsecs ==
  /\ pc = "init" /\ pc' = "idle"
  /\ \/ /\ method = "fcyc"
        /\ par' = FsecsParams /\ mhz
        /\ UNCHANGED <<cache_buf, cptr, values, samplecount, reading, result, seen>>
     \/ /\ method # "fcyc"
        /\ UNCHANGED <<clk, own, counter_vars, Mhz, fcyc_vars>>
  /\ UNCHANGED <<cyc_per_tick, start_tick, cal, ftimer_vars, method>>

\* A parameter is set between two measurements.
configure ==
  /\ pc = "idle" /\ method = "fcyc" /\ clk.now <= MaxStart
  /\ \/ \E p \in Parameters \ {"cache_bytes"} : \E v \in Settings[p] : set_fcyc(p, v)
     \/ \E bytes \in Settings["cache_bytes"] : set_fcyc_cache_size(bytes)
  /\ UNCHANGED <<pc, clock_vars, cptr, values, samplecount, reading, result, seen,
                 ftimer_vars, method, Mhz>>

\* Nothing in the repository calls ovhd; its user may, between measurements.
measure_overhead ==
  /\ pc = "idle" /\ method = "fcyc" /\ clk.now <= MaxStart
  /\ ovhd
  /\ UNCHANGED <<pc, cyc_per_tick, start_tick, cal, fcyc_vars, ftimer_vars, method, Mhz>>

fsecs ==
  /\ pc = "idle" /\ clk.now <= MaxStart
  /\ pc' = method
  /\ UNCHANGED <<clock_vars, fcyc_vars, ftimer_vars, method, Mhz>>

\* fsecs returns; what was measured is no longer needed.
fsecs_return ==
  /\ pc = "returned" /\ pc' = "idle"
  /\ result' = 0 /\ seen' = <<>>
  /\ UNCHANGED <<clock_vars, par, cache_buf, cptr, values, samplecount, reading, ftimer_vars, method, Mhz>>

\* The program has ended, or has made its last measurement.
finished ==
  /\ \/ pc \in {"exit", "killed"}
     \/ pc = "idle" /\ clk.now > MaxStart
  /\ UNCHANGED vars

ClockStep ==
  /\ callibrate \/ cal_start \/ cal_loop \/ cal_event \/ cal_return
       \/ start_comp_counter \/ comp_times
  /\ UNCHANGED <<fcyc_vars, ftimer_vars, method, Mhz>>

FcycStep ==
  /\ \/ fcyc \/ clear \/ clear_loop
     \/ time_f \/ stop_plain \/ stop_comp \/ stop_times
  /\ UNCHANGED <<ftimer_vars, method, Mhz>>

FTimerStep ==
  /\ init_etime \/ first_reading \/ run_f \/ last_reading
  /\ UNCHANGED <<fcyc_vars, method, Mhz>>

Next ==
  \/ init_fsecs \/ configure \/ measure_overhead \/ fsecs \/ fsecs_return
  \/ ClockStep \/ FcycStep \/ FTimerStep
  \/ finished

\* Fairness: one thread, and time passes at every step of its loops.
Spec == Init /\ [][Next]_vars /\ WF_vars(Next)
-----------------------------------------------------------------------------
\* Type invariant.
TypeOK ==
  /\ pc \in {"init", "idle", "returned", "exit", "killed", "fcyc", "clear", "clear_loop",
             "start_comp", "callibrate", "cal_start", "cal_loop", "cal_event", "comp_times",
             "start", "stop", "stop_times", "itimer", "itimer_start", "itimer_runs",
             "gettod", "gettod_runs"}
  /\ cyc_hi \in 0 .. (W - 1) /\ cyc_lo \in 0 .. (W - 1)
  /\ cyc_per_tick \in Nat /\ cal.e \in 0 .. NEVENT
  /\ cache_buf \in Settings["cache_bytes"] \union {0}
  /\ values \in {NoValues} \union [0 .. (par["kbest"] - 1) -> Int]
  /\ samplecount = Len(seen) \/ pc \in {"idle", "fcyc"}
  /\ i \in 0 .. Reps /\ tmeas \in Nat /\ Mhz \in Nat

\* get_counter returns the number of cycles since the last start_counter,
\* also when the low word has wrapped since, once or several times.
CounterExact ==
  pc \in {"cal_loop", "cal_event", "stop"} => get_counter(clk.now) = clk.now - begun

\* However the interrupts fall between the readings of callibrate, the cost
\* of a tick it settles on is no less than what an interrupt takes, and
\* larger by less than the pauses of the loop.
TickCostBounds ==
  cyc_per_tick # 0 =>
    /\ cyc_per_tick >= UNIT * TICK
    /\ \E d, d2 \in Steps : cyc_per_tick <= UNIT * (TICK + THRESHOLD + d + d2)

FairlyCharged(s) ==
  IF s.cost = 0 THEN s.val = UNIT * s.span ELSE s.val <= UNIT * s.work

\* A sample that is compensated at a known cost of a tick never charges the
\* timed function for more than its own work.  One that is not, because
\* compensation is off or callibrate recorded no cost, is exactly the cycles
\* that passed, interrupts included.
SamplesSound == \A j \in DOMAIN seen : FairlyCharged(seen[j])

\* How many of the samples are no larger than v.
AtMost(samples, v) == Cardinality({j \in DOMAIN samples : samples[j].val <= v})

\* While samples are taken, values[j] is the sample of rank j among all that
\* were seen: fewer than j + 1 are smaller, and more than j are no larger.
KBest ==
  pc = "start" =>
    \A j \in 0 .. (par["kbest"] - 1) :
      j < Len(seen) => /\ AtMost(seen, values[j] - 1) <= j
                       /\ AtMost(seen, values[j]) > j

\* fcyc returns the least of its samples, after no more than maxsamples of
\* them (but at least one), and gives up earlier only if kbest of them are
\* within epsilon of the least.
ResultIsBest ==
  pc = "returned" /\ method = "fcyc" =>
    /\ \E j \in DOMAIN seen : seen[j].val = result
    /\ \A j \in DOMAIN seen : seen[j].val >= result
    /\ Len(seen) > 1 => Len(seen) <= par["maxsamples"]
    /\ Len(seen) < par["maxsamples"] =>
         AtMost(seen, ((SCALE + par["epsilon"]) * result) \div SCALE) >= par["kbest"]

\* clear reads inside the buffer, whatever sizes have been set since it was
\* allocated.
CacheReadsInBuffer ==
  pc = "clear_loop" /\ cptr < par["cache_bytes"] \div INT => (cptr + 1) * INT <= cache_buf

\* ftimer_itimer and ftimer_gettod return the time from their first reading
\* to their last, across seconds that begin in between, in which the function
\* ran Reps times and no less than its own work passed.
TimedExactly ==
  pc = "returned" /\ method # "fcyc" =>
    tmeas = clk.now - begun /\ i = Reps /\ tmeas >= own

\* The cycles a sample may be charged: its own work if its ticks were
\* subtracted, and otherwise all that passed.
Chargeable(s) == IF s.cost # 0 THEN s.work ELSE s.span

\* The seconds that fsecs computes from the least sample and the measured
\* clock rate are, for each run it made, no more than the run's own work
\* takes; they may include interrupts only of runs that were not compensated.
SecondsNotOver ==
  pc = "returned" /\ method = "fcyc" =>
    \A j \in DOMAIN seen :
      result * FREQ * SLEEPTIME <= UNIT * Chargeable(seen[j]) * Mhz

\* A measurement that begins comes to an end, callibrations included.
MeasurementEnds ==
  pc \in {"fcyc", "itimer", "gettod"} ~> pc \in {"idle", "exit", "killed"}
=============================================================================
