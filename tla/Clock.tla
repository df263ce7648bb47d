------------------------------- MODULE Clock -------------------------------
(***************************************************************************)
(* clock.c: the cycle counter of the machine read in two words, and the    *)
(* counter that compensates for timer interrupts.                          *)
(*                                                                         *)
(* Time is the environment.  It passes between any two readings of the     *)
(* program, also between the two readings (cycles, ticks) that one         *)
(* function makes, and every PERIOD cycles of the program's own work an    *)
(* interrupt takes TICK further cycles and adds one tick to tms_utime.     *)
(* A double is a whole number of 1/UNIT cycles.                            *)
(***************************************************************************)
EXTENDS Integers

CONSTANTS
  W,                                \* number of values of a word (2^32)
  NEVENT, THRESHOLD, RECORDTHRESH,  \* as in clock.c
  UNIT,                             \* steps of a double per cycle
  PERIOD, TICK,                     \* the timer interrupt
  Steps,                            \* cycles the program may need between two readings
  FREQ, SLEEPTIME, Late             \* cycles per second, sleep of mhz, oversleeping

ASSUME ClockAssumption ==
  /\ W \in Nat /\ W >= 2 /\ UNIT \in Nat \ {0}
  /\ NEVENT \in Nat \ {0} /\ THRESHOLD \in Nat \ {0} /\ RECORDTHRESH \in Nat
  /\ PERIOD \in Nat \ {0} /\ TICK \in Nat
  /\ Steps \subseteq Nat \ {0} /\ Late \subseteq Nat
  /\ FREQ \in Nat \ {0} /\ SLEEPTIME \in Nat \ {0}

\* What the calibration takes for granted: RECORDTHRESH is well above
\* THRESHOLD, and ticks are farther apart than that (3000 cycles, and some
\* millions).
ASSUME ThresholdAssumption ==
  \A d, d2 \in Steps : /\ THRESHOLD + d + d2 <= RECORDTHRESH + 1
                       /\ RECORDTHRESH + d + d2 <= PERIOD

VARIABLES
  pc,                     \* where the program is
  clk,                    \* the environment: cycles, tms_utime, own work since a tick
  cyc_hi, cyc_lo,         \* the counter at the last start_counter
  cyc_per_tick,           \* cost of an interrupt, 0 before it is known
  start_tick,             \* tms_utime at the last start_comp_counter
  cal,                    \* locals of callibrate: oldt, newt, oldc, e
  begun, own              \* history: when the measurement began, own work since

counter_vars == <<cyc_hi, cyc_lo, begun>>
clock_vars == <<clk, own, counter_vars, cyc_per_tick, start_tick, cal>>

NoCal == [oldt |-> 0, newt |-> 0, oldc |-> 0, e |-> 0]

\* The clocks after d cycles of the program's own work.
After(c, d) ==
  LET t == (c.quiet + d) \div PERIOD
  IN  [now |-> c.now + d + t * TICK, utime |-> c.utime + t, quiet |-> (c.quiet + d) % PERIOD]

Pass(d) == clk' = After(clk, d) /\ own' = own + d

\* rdtsc: the high and the low word.
access_counter(n) == <<(n \div W) % W, n % W>>

\* The subtraction of get_counter: a word at a time, with a borrow.
SubtractWords(new, old) ==
  LET lo     == (new[2] - old[2]) % W
      borrow == IF lo > new[2] THEN 1 ELSE 0
  IN  ((new[1] - old[1] - borrow) % W) * W + lo

\* Mutant of get_counter: the borrow is forgotten.
get_counter_no_borrow(n) == (((n \div W) - cyc_hi) % W) * W + ((n - cyc_lo) % W)

get_counter(n) == SubtractWords(access_counter(n), <<cyc_hi, cyc_lo>>)

\* start_counter, and d cycles that pass after it.
start_counter(d) ==
  /\ cyc_hi' = access_counter(clk.now)[1] /\ cyc_lo' = access_counter(clk.now)[2]
  /\ begun' = clk.now /\ own' = d /\ clk' = After(clk, d)

\* ovhd: start_counter and get_counter, twice.
ovhd ==
  \E d, d2 \in Steps :
    LET c == After(clk, d)
    IN  /\ cyc_hi' = access_counter(c.now)[1] /\ cyc_lo' = access_counter(c.now)[2]
        /\ begun' = c.now /\ own' = d2 /\ clk' = After(c, d2)
-----------------------------------------------------------------------------
\* callibrate: times(&t).
callibrate ==
  /\ pc = "callibrate"
  /\ \E d \in Steps : Pass(d)
  /\ cal' = [NoCal EXCEPT !.oldc = clk.utime]
  /\ pc' = "cal_start"
  /\ UNCHANGED <<counter_vars, cyc_per_tick, start_tick>>

\* callibrate: start_counter and the first get_counter.
cal_start ==
  /\ pc = "cal_start"
  /\ \E d \in Steps :
       /\ start_counter(d)
       /\ cal' = [cal EXCEPT !.oldt = SubtractWords(access_counter(clk'.now), <<cyc_hi', cyc_lo'>>)]
  /\ pc' = "cal_loop"
  /\ UNCHANGED <<cyc_per_tick, start_tick>>

\* callibrate: the loop reads the counter until THRESHOLD cycles have passed.
cal_loop ==
  /\ pc = "cal_loop" /\ cal.e < NEVENT
  /\ \E d \in Steps : Pass(d)
  /\ cal' = [cal EXCEPT !.newt = get_counter(clk.now)]
  /\ pc' = IF cal'.newt - cal.oldt >= THRESHOLD THEN "cal_event" ELSE "cal_loop"
  /\ UNCHANGED <<counter_vars, cyc_per_tick, start_tick>>

\* Mutant of Recorded: no threshold.
Recorded_any(cpt) ==
  IF cyc_per_tick = 0 \/ cyc_per_tick > cpt THEN cpt ELSE cyc_per_tick

\* The least ratio above RECORDTHRESH becomes cyc_per_tick.
Recorded(cpt) ==
  IF (cyc_per_tick = 0 \/ cyc_per_tick > cpt) /\ cpt > RECORDTHRESH * UNIT
  THEN cpt ELSE cyc_per_tick

\* callibrate: times(&t) after a pause of THRESHOLD cycles.
cal_event ==
  /\ pc = "cal_event"
  /\ \E d \in Steps : Pass(d)
  /\ pc' = "cal_loop"
  /\ LET newc == clk.utime
     IN  IF newc > cal.oldc
         THEN /\ cyc_per_tick' = Recorded((UNIT * (cal.newt - cal.oldt)) \div (newc - cal.oldc))
              /\ cal' = [cal EXCEPT !.oldt = cal.newt, !.oldc = newc, !.e = @ + 1]
         ELSE /\ cal' = [cal EXCEPT !.oldt = cal.newt]
              /\ UNCHANGED cyc_per_tick
  /\ UNCHANGED <<counter_vars, start_tick>>

\* callibrate returns.
cal_return ==
  /\ pc = "cal_loop" /\ cal.e = NEVENT
  /\ pc' = "comp_times" /\ cal' = NoCal
  /\ UNCHANGED <<clk, own, counter_vars, cyc_per_tick, start_tick>>

\* start_comp_counter: callibrate unless that is done.
start_comp_counter ==
  /\ pc = "start_comp"
  /\ pc' = IF cyc_per_tick = 0 THEN "callibrate" ELSE "comp_times"
  /\ UNCHANGED <<clk, own, counter_vars, cyc_per_tick, start_tick, cal>>

\* start_comp_counter: times(&t).
comp_times ==
  /\ pc = "comp_times"
  /\ \E d \in Steps : Pass(d)
  /\ start_tick' = clk.utime
  /\ pc' = "start"
  /\ UNCHANGED <<counter_vars, cyc_per_tick, cal>>

\* Mutant of get_comp_counter: the ticks are not subtracted.
get_comp_counter_raw(time, utime) == UNIT * time

\* The cycles get_comp_counter returns for a counter reading of time when
\* times reports utime.
get_comp_counter(time, utime) == UNIT * time - (utime - start_tick) * cyc_per_tick
=============================================================================
