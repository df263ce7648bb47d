-------------------------------- MODULE Fcyc --------------------------------
(***************************************************************************)
(* fcyc.c: the K-best scheme.  A function is run and timed again until the *)
(* kbest shortest times agree within epsilon or maxsamples runs were made. *)
(***************************************************************************)
EXTENDS Clock, Sequences, FiniteSets

CONSTANTS
  Settings,   \* for each parameter, the values the set_fcyc functions are called with
  Defaults,   \* the parameters before any call
  SCALE,      \* epsilon is a number of 1/SCALE
  INT,        \* sizeof(int)
  Work        \* cycles a run of the timed function may take

Parameters == {"kbest", "maxsamples", "epsilon", "compensate", "clear_cache",
               "cache_bytes", "cache_block"}

ASSUME SettingsAssumption ==
  /\ Settings \in [Parameters -> SUBSET Nat] /\ Defaults \in [Parameters -> Nat]
  /\ \A p \in Parameters : Defaults[p] \in Settings[p]
  /\ 0 \notin Settings["kbest"]
  /\ INT \in Nat \ {0} /\ \A b \in Settings["cache_block"] : b >= INT
  /\ SCALE \in Nat \ {0} /\ Work \subseteq Nat \ {0}

VARIABLES
  par,          \* the static parameters of fcyc.c
  cache_buf,    \* bytes at cache_buf, 0 when it is NULL
  cptr,         \* local of clear, as an index
  values,       \* the array values, [j \in {}] when it is NULL
  samplecount,
  reading,      \* local of get_comp_counter, and the cycles and own work it stands for
  result,       \* what fcyc returned
  seen          \* history: the samples of this call, each with what passed: see sample

fcyc_vars == <<par, cache_buf, cptr, values, samplecount, reading, result, seen>>

NoValues == [j \in {} |-> 0]
NoReading == [time |-> 0, span |-> 0, work |-> 0]

FcycInit ==
  /\ par = Defaults /\ cache_buf = 0 /\ cptr = 0
  /\ values = NoValues /\ samplecount = 0 /\ reading = NoReading
  /\ result = 0 /\ seen = <<>>

\* set_fcyc_k, set_fcyc_maxsamples, set_fcyc_epsilon, set_fcyc_compensate,
\* set_fcyc_clear_cache and set_fcyc_cache_block.
set_fcyc(p, v) ==
  /\ par' = [par EXCEPT ![p] = v]
  /\ UNCHANGED cache_buf

\* Mutant of set_fcyc_cache_size: the old buffer is kept.
set_fcyc_cache_size_keep(bytes) ==
  /\ par' = [par EXCEPT !["cache_bytes"] = bytes]
  /\ UNCHANGED cache_buf

set_fcyc_cache_size(bytes) ==
  /\ par' = [par EXCEPT !["cache_bytes"] = bytes]
  /\ cache_buf' = IF bytes # par["cache_bytes"] THEN 0 ELSE cache_buf
-----------------------------------------------------------------------------
\* The insertion sort of add_sample: the value at pos moves down past the
\* larger ones.
SiftDown(v, pos) ==
  LET to == CHOOSE q \in 0 .. pos :
              /\ \A j \in q .. (pos - 1) : v[j] > v[pos]
              /\ q > 0 => v[q - 1] <= v[pos]
  IN  [j \in DOMAIN v |-> CASE j = to -> v[pos]
                            [] j > to /\ j <= pos -> v[j - 1]
                            [] OTHER -> v[j]]

\* Mutant of add_sample: a full array takes every sample.
add_sample_always(v, n, val) ==
  LET pos == IF n < par["kbest"] THEN n ELSE par["kbest"] - 1
  IN  SiftDown([v EXCEPT ![pos] = val], pos)

\* The array values after sample number n.
add_sample(v, n, val) ==
  LET last == par["kbest"] - 1
  IN  CASE n <= last -> SiftDown([v EXCEPT ![n] = val], n)
        [] n > last /\ val < v[last] -> SiftDown([v EXCEPT ![last] = val], last)
        [] OTHER -> v

\* Mutant of has_converged: the array need not be full.
has_converged_early(v, n) ==
  (SCALE + par["epsilon"]) * v[0] >= SCALE * v[par["kbest"] - 1]

has_converged(v, n) ==
  /\ n >= par["kbest"]
  /\ (SCALE + par["epsilon"]) * v[0] >= SCALE * v[par["kbest"] - 1]

\* Where an iteration of the loop of fcyc begins.
Iteration ==
  CASE par["clear_cache"] # 0 -> "clear"
    [] par["clear_cache"] = 0 /\ par["compensate"] # 0 -> "start_comp"
    [] OTHER -> "start"

\* Mutant of fcyc: the sample count of the last call is kept.
fcyc_stale ==
  /\ pc = "fcyc"
  /\ values' = [j \in 0 .. (par["kbest"] - 1) |-> 0]
  /\ seen' = <<>>
  /\ pc' = Iteration
  /\ UNCHANGED <<clock_vars, par, cache_buf, cptr, samplecount, reading, result>>

\* fcyc is called: init_sampler.
fcyc ==
  /\ pc = "fcyc"
  /\ values' = [j \in 0 .. (par["kbest"] - 1) |-> 0]
  /\ samplecount' = 0 /\ seen' = <<>>
  /\ pc' = Iteration
  /\ UNCHANGED <<clock_vars, par, cache_buf, cptr, reading, result>>

\* clear: the buffer is allocated at the first call, which may fail.
clear ==
  /\ pc = "clear"
  /\ \/ cache_buf # 0 /\ UNCHANGED cache_buf /\ pc' = "clear_loop"
     \/ cache_buf = 0 /\ cache_buf' = par["cache_bytes"] /\ pc' = "clear_loop"
     \/ cache_buf = 0 /\ UNCHANGED cache_buf /\ pc' = "exit"
  /\ cptr' = 0
  /\ UNCHANGED <<clock_vars, par, values, samplecount, reading, result, seen>>

\* Mutant of clear_loop: the stride is 0.
clear_loop_stuck ==
  /\ pc = "clear_loop"
  /\ IF cptr < par["cache_bytes"] \div INT
     THEN cptr' = cptr + par["cache_block"] \div (INT * INT) /\ UNCHANGED pc
     ELSE cptr' = 0 /\ pc' = (IF par["compensate"] # 0 THEN "start_comp" ELSE "start")
  /\ UNCHANGED <<clock_vars, par, cache_buf, values, samplecount, reading, result, seen>>

\* clear: one int of each cache block is read.
clear_loop ==
  /\ pc = "clear_loop"
  /\ IF cptr < par["cache_bytes"] \div INT
     THEN cptr' = cptr + par["cache_block"] \div INT /\ UNCHANGED pc
     ELSE cptr' = 0 /\ pc' = (IF par["compensate"] # 0 THEN "start_comp" ELSE "start")
  /\ UNCHANGED <<clock_vars, par, cache_buf, values, samplecount, reading, result, seen>>

\* start_counter, and the timed function runs.
time_f ==
  /\ pc = "start"
  /\ \E w \in Work : start_counter(w)
  /\ pc' = "stop"
  /\ UNCHANGED <<fcyc_vars, cyc_per_tick, start_tick, cal>>

\* add_sample, and the test at the end of the loop.  Of each sample it is
\* remembered how many cycles passed from start_counter to get_counter, how
\* many of them were the program's own work, and what a tick cost.
sample(val, span, work, cost) ==
  LET v == add_sample(values, samplecount, val)
  IN  /\ samplecount' = samplecount + 1
      /\ seen' = Append(seen, [val |-> val, span |-> span, work |-> work, cost |-> cost])
      /\ IF has_converged(v, samplecount') \/ samplecount' >= par["maxsamples"]
         THEN result' = v[0] /\ values' = NoValues /\ pc' = "returned"
         ELSE values' = v /\ pc' = Iteration /\ UNCHANGED result
      /\ UNCHANGED <<par, cache_buf, cptr>>

\* get_counter ends an uncompensated run.
stop_plain ==
  /\ pc = "stop" /\ par["compensate"] = 0
  /\ sample(UNIT * get_counter(clk.now), clk.now - begun, own, 0)
  /\ UNCHANGED <<clock_vars, reading>>

\* get_comp_counter: the cycles are read, then the ticks.
stop_comp ==
  /\ pc = "stop" /\ par["compensate"] # 0
  /\ \E d \in Steps : Pass(d)
  /\ reading' = [time |-> get_counter(clk.now), span |-> clk.now - begun, work |-> own]
  /\ pc' = "stop_times"
  /\ UNCHANGED <<counter_vars, cyc_per_tick, start_tick, cal, par, cache_buf, cptr,
                 values, samplecount, result, seen>>

stop_times ==
  /\ pc = "stop_times"
  /\ sample(get_comp_counter(reading.time, clk.utime), reading.span, reading.work, cyc_per_tick)
  /\ reading' = NoReading
  /\ UNCHANGED clock_vars
=============================================================================
