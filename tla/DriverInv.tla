----------------------------- MODULE DriverInv -----------------------------
(***************************************************************************)
(* Why Driver's invariants hold: the inductive invariants, for a package   *)
(* that answers anything, on any traces (Sound) and on ordinary ones       *)
(* (Tracked), and for one that keeps its promises (Kept).                  *)
(***************************************************************************)
EXTENDS Driver

\* Every trace that read_trace accepts is well formed.
OrdinaryTraces == \A file \in Files : read_ok(file) => WellFormed(file.ops)

\* No id of a trace has a low byte that is a negative char.
LowIds == \A d \in Ids : LowByte(d) < BYTE \div 2

LibcPasses == {"libc_valid", "libc_speed"}
Passes == {"valid", "util", "speed"}

\* Options leave a number of traces, loops over traces and repetitions stay
\* in their bounds, and no result is there before the first trace has ended.
Counted ==
  /\ opt \in [tracefiles : BOOLEAN, tracedir : {"traces/", "dir/", "./"},
              team_check : BOOLEAN, run_libc : BOOLEAN]
  /\ pc \in {"options", "libc_read"} \union LibcPasses => errors = 0 /\ valid = << >>
  /\ pc = "options" => libc = 0
  /\ pc \in {"libc_read", "read"} \union LibcPasses \union Passes => num_tracefiles > 0
  /\ pc \in {"libc_read"} \union LibcPasses => libc < num_tracefiles
  /\ pc \in {"read"} \union Passes => Len(valid) < num_tracefiles
  /\ pc \in LibcPasses \union Passes => rep < Reps

\* The trace in use is one that read_trace accepts.
Readable ==
  /\ trace \in Seq(OpType)
  /\ pc \in LibcPasses \union Passes =>
       \A k \in DOMAIN trace : /\ trace[k].type \in {"a", "r", "f"}
                               /\ trace[k].type # "f" => trace[k].size \in Sizes

\* There are finitely many payloads, all of sizes that were asked for.
HeldTyped ==
  /\ IsFiniteSet(DOMAIN held) /\ DOMAIN held \subseteq Nat
  /\ \A p \in DOMAIN held : held[p].size \in Sizes

\* What holds of the driver whatever the package answers.
Sound ==
  /\ TypeOK /\ Counted /\ Readable /\ HeldTyped
  /\ ErrorsAreInvalidTraces /\ FileOptionWins
  /\ AcceptedRanges
-----------------------------------------------------------------------------
\* The ids that are allocated after the first i ops of the trace.
Alive ==
  {d \in Ids : /\ \E j \in 1 .. i : trace[j].index = d /\ trace[j].type = "a"
               /\ \A j \in 1 .. i : ~(trace[j].index = d /\ trace[j].type = "f")}

\* The payloads h are aligned, lie in a heap of size bytes and do not overlap.
Laid(h, size) ==
  /\ \A p \in DOMAIN h : p % ALIGNMENT = 0 /\ Lo <= p /\ p + h[p].size <= Lo + size
  /\ \A p, q \in DOMAIN h : p < q => p + h[p].size <= q

\* Each of the ids D has a payload of its own in h.
Named(D, bl, h) ==
  /\ \A d \in D : bl[d] \in DOMAIN h
  /\ \A d, e \in D : bl[d] = bl[e] => d = e

\* The list rs has one range for each payload of h.
Covers(rs, h) ==
  /\ \A k \in DOMAIN rs : /\ rs[k].lo \in DOMAIN h
                          /\ rs[k].hi - rs[k].lo + 1 = h[rs[k].lo].size
  /\ \A p \in DOMAIN h : \E k \in DOMAIN rs : rs[k].lo = p
  /\ \A j, k \in DOMAIN rs : rs[j].lo = rs[k].lo => j = k
  /\ Len(rs) = Cardinality(DOMAIN h)

\* What eval_mm_valid knows of each allocated id: the size of its payload, all
\* of which it has filled with the low byte of the id.
Recorded ==
  \A d \in Alive : held[blocks[d]] = [size |-> block_sizes[d], kept |-> block_sizes[d],
                                      data |-> {LowByte(d)}]

\* What holds of the driver on ordinary traces, whatever the package answers.
Tracked ==
  /\ pc \in LibcPasses \union Passes => WellFormed(trace)
  /\ pc \in LibcPasses \union {"valid"} => Named(Alive, blocks, held)
  /\ pc = "valid" => Recorded /\ Covers(ranges, held)
  /\ pc \in Passes => ~lost

\* What holds of the driver and a package that keeps its promises, on
\* ordinary traces.
Kept ==
  /\ pc \in {"util", "speed"} => Named(Alive, blocks, held)
  /\ pc = "util" => \A d \in Alive : block_sizes[d] = held[blocks[d]].size
  /\ pc \in Passes => Laid(held, heapsize)
  /\ UtilAtMostOne

\* The inductive invariant: the driver is right about itself whatever the
\* package answers, and about a package that keeps its promises.
IInv == Sound /\ Tracked /\ (Faithful => Kept)
=============================================================================
