------------------------------- MODULE FTimer -------------------------------
(***************************************************************************)
(* ftimer.c: a function is run n times between two readings of a clock,    *)
(* gettimeofday or the interval timer that counts down from MAX_ETIME      *)
(* seconds.  A cycle of the clocks is a microsecond here, and times are    *)
(* the sums of n runs, of which the code returns the nth part.             *)
(***************************************************************************)
EXTENDS Clock

CONSTANTS
  USEC,        \* microseconds in a second
  MAX_ETIME,   \* the initial value of the interval timers, in seconds
  Reps,        \* runs of the timed function (10 in fsecs.c)
  Runs         \* microseconds a run may take

ASSUME FTimerAssumption ==
  /\ USEC \in Nat \ {0} /\ MAX_ETIME \in Nat \ {0} /\ Reps \in Nat \ {0}
  /\ Runs \subseteq Nat \ {0}

VARIABLES
  armed,     \* when the interval timers were set, -1 before
  start,     \* local of ftimer_itimer
  stv,       \* local of ftimer_gettod
  i,         \* runs made
  tmeas      \* what the function returns, times n

ftimer_vars == <<armed, start, stv, i, tmeas>>
other_vars == <<cyc_hi, cyc_lo, cyc_per_tick, start_tick, cal>>

\* A number of microseconds as a struct timeval.
timeval(us) == [tv_sec |-> us \div USEC, tv_usec |-> us % USEC]

\* ITIMER_REAL counts down to 0 and then kills the process.  The two other
\* timers were set with it and run no faster.
getitimer(n) == timeval(MAX_ETIME * USEC - (n - armed))
Expired(n) == armed # -1 /\ n - armed >= MAX_ETIME * USEC

get_etime(n) ==
  USEC * (MAX_ETIME - getitimer(n).tv_sec) + (0 - getitimer(n).tv_usec)

\* Mutant of tod_diff: the difference of the microseconds alone.
tod_diff_usec(etv) == etv.tv_usec - stv.tv_usec

tod_diff(etv) ==
  USEC * (etv.tv_sec - stv.tv_sec) + (etv.tv_usec - stv.tv_usec)

FTimerInit == armed = -1 /\ start = 0 /\ stv = timeval(0) /\ i = 0 /\ tmeas = 0

\* ftimer_itimer: init_etime sets the timers.
init_etime ==
  /\ pc = "itimer"
  /\ \E d \in Steps : Pass(d)
  /\ armed' = clk.now /\ i' = 0
  /\ pc' = "itimer_start"
  /\ UNCHANGED <<start, stv, tmeas, begun, other_vars>>

\* The first reading of the clock.
first_reading ==
  /\ \/ /\ pc = "itimer_start"
        /\ start' = get_etime(clk.now)
        /\ pc' = "itimer_runs" /\ UNCHANGED <<stv, i>>
     \/ /\ pc = "gettod"
        /\ stv' = timeval(clk.now)
        /\ pc' = "gettod_runs" /\ i' = 0 /\ UNCHANGED start
  /\ begun' = clk.now /\ own' = 0
  /\ UNCHANGED <<clk, armed, tmeas, other_vars>>

\* f(argp), which ends the program when the interval timer expires.
run_f ==
  /\ pc \in {"itimer_runs", "gettod_runs"} /\ i < Reps
  /\ \E w \in Runs : Pass(w)
  /\ i' = i + 1
  /\ pc' = IF Expired(clk'.now) THEN "killed" ELSE pc
  /\ UNCHANGED <<armed, start, stv, tmeas, begun, other_vars>>

\* The second reading, and the difference.
last_reading ==
  /\ pc \in {"itimer_runs", "gettod_runs"} /\ i = Reps
  /\ tmeas' = IF pc = "itimer_runs" THEN get_etime(clk.now) - start
              ELSE tod_diff(timeval(clk.now))
  /\ pc' = "returned"
  /\ UNCHANGED <<clk, own, armed, start, stv, i, begun, other_vars>>
=============================================================================
