------------------------------- MODULE Driver -------------------------------
(***************************************************************************)
(* mdriver.c: the options, main's loops over the trace files and the       *)
(* passes it makes over each trace.  eval_mm_valid checks every answer of  *)
(* the malloc package, eval_mm_util measures space, and eval_mm_speed is   *)
(* run Reps times by fsecs.  With -l the traces are first run on the C     *)
(* library's malloc.  An iteration of a pass is one action, the call of    *)
(* the package it makes included.                                          *)
(*                                                                         *)
(* The package is seen through its interface.  A faithful one answers as   *)
(* Allocator allows; an unfaithful one, which mdriver.c exists to expose,  *)
(* answers anything.                                                       *)
(***************************************************************************)
EXTENDS Integers, Sequences, FiniteSets

CONSTANTS
  Files,           \* what the trace files may contain
  DEFAULT_TRACES,  \* how many default trace files there are
  MaxArgs,         \* bound: options on the command line
  Reps,            \* how often fsecs runs the timed function (10 in fsecs.c)
  BYTE,            \* number of values of a char (256), which is signed
  ALIGNMENT,       \* required alignment of payloads
  Lo, MAX_HEAP,    \* first address of the heap and its largest size
  Sizes, Ids,      \* sizes and block ids that the files mention
  Faithful         \* whether the package keeps its promises

NULL == 0

ASSUME DriverAssumption ==
  /\ DEFAULT_TRACES \in Nat \ {0} /\ MaxArgs \in Nat /\ Reps \in Nat \ {0} /\ BYTE \in Nat \ {0}
  /\ ALIGNMENT \in Nat \ {0} /\ MAX_HEAP \in Nat
  /\ Lo \in Nat \ {0} /\ Lo % ALIGNMENT = 0
  /\ Sizes \subseteq Nat \ {0} /\ Ids \subseteq Nat
  /\ Faithful \in BOOLEAN

\* A request of a trace file.
OpType == [type : STRING, index : Ids, size : Nat]

ASSUME FilesAssumption ==
  \A file \in Files :
    /\ file.ops \in Seq(OpType)
    /\ \A k \in DOMAIN file.ops :
         file.ops[k].type \in {"a", "r"} => file.ops[k].size \in Sizes

VARIABLES
  pc,              \* where main is
  args,            \* options still to be read
  opt,             \* what they have set
  num_tracefiles,  \* how many traces are run, 0 when not known yet
  libc,            \* traces already run on the C library's malloc
  trace,           \* the ops of the current trace
  i,               \* ops of it already interpreted in this pass
  rep,             \* runs of eval_mm_speed completed
  ranges,          \* list of payload extents, newest first
  blocks,          \* trace->blocks
  block_sizes,     \* trace->block_sizes
  errors,          \* number of calls of malloc_error
  valid,           \* mm_stats[].valid of the traces finished
  total_size, max_total_size,  \* locals of eval_mm_util
  held,            \* the package in use: payloads in use, as in Allocator
  heapsize,        \* the package: mem_heapsize()
  refused,         \* history: a package has returned NULL or failed to start
  lost             \* history: in this trace mm_realloc lost data of a payload

main_vars == <<args, opt, num_tracefiles, libc>>
vars == <<pc, main_vars, trace, i, rep, ranges, blocks, block_sizes, errors, valid,
          total_size, max_total_size, held, heapsize, refused, lost>>

Pkg == INSTANCE Allocator
         WITH Hi <- Lo + MAX_HEAP, Align <- ALIGNMENT, Tags <- 0 .. (BYTE - 1)

NoBlocks == [p \in {} |-> 0]
mem_heap_hi == Lo + heapsize - 1

\* The int that a signed char converts to.
AsInt(byte) == IF byte < BYTE \div 2 THEN byte ELSE byte - BYTE

LowByte(index) == index % BYTE
-----------------------------------------------------------------------------
\* The malloc package.

\* May the package answer p to a request for size bytes, with payloads h in
\* use and the heap grown to grown bytes?
CanGrant(h, p, size, grown) ==
  /\ p # NULL
  /\ grown \in heapsize .. MAX_HEAP
  /\ Faithful => Pkg!Fits(h, p, size) /\ p + size <= Lo + grown

\* The contents of n bytes: all alike, but for one of them.  eval_mm_valid
\* stops at the first byte that it does not expect, so one is enough.
Contents(n) ==
  {[[j \in 1 .. n |-> most] EXCEPT ![at] = byte] :
     most \in 0 .. (BYTE - 1), at \in 1 .. n, byte \in 0 .. (BYTE - 1)}

\* A payload that holds data has what oldp held, as far as it fits.
Preserved(oldp, data) ==
  \A j \in DOMAIN data : j <= held[oldp].kept => data[j] \in held[oldp].data

\* May mm_realloc of oldp return a payload that holds data?
CanKeep(oldp, data) == Faithful => Preserved(oldp, data)

Addresses == (Lo - 1) .. (Lo + MAX_HEAP)
-----------------------------------------------------------------------------
\* Range lists and trace files.

\* Mutant of range_ok: hi is one too large.
range_ok_wide(rs, lo, size, grown) ==
  LET hi == lo + size
  IN  /\ lo % ALIGNMENT = 0
      /\ lo >= Lo /\ hi <= Lo + grown - 1
      /\ \A k \in DOMAIN rs : lo > rs[k].hi \/ hi < rs[k].lo

\* Mutant of range_ok: only lo is compared with the other payloads.
range_ok_lo(rs, lo, size, grown) ==
  LET hi == lo + size - 1
  IN  /\ lo % ALIGNMENT = 0
      /\ lo >= Lo /\ hi <= Lo + grown - 1
      /\ \A k \in DOMAIN rs : ~(lo >= rs[k].lo /\ lo <= rs[k].hi)

\* Does add_range accept a payload of size bytes at lo next to the ranges rs?
range_ok(rs, lo, size, grown) ==
  LET hi == lo + size - 1
  IN  /\ lo % ALIGNMENT = 0
      /\ lo >= Lo /\ lo <= Lo + grown - 1 /\ hi >= Lo /\ hi <= Lo + grown - 1
      /\ \A k \in DOMAIN rs :
           ~ \/ lo >= rs[k].lo /\ lo <= rs[k].hi
             \/ hi >= rs[k].lo /\ hi <= rs[k].hi

add_range(rs, lo, size) == <<[lo |-> lo, hi |-> lo + size - 1]>> \o rs

\* Mutant of remove_range: only the head of the list is looked at.
remove_range_head(rs, lo) ==
  IF rs # << >> /\ Head(rs).lo = lo THEN Tail(rs) ELSE rs

\* Remove the first range that starts at lo.
remove_range(rs, lo) ==
  IF \E k \in DOMAIN rs : rs[k].lo = lo
  THEN LET k == CHOOSE k \in DOMAIN rs :
                  rs[k].lo = lo /\ \A j \in 1 .. (k - 1) : rs[j].lo # lo
       IN  SubSeq(rs, 1, k - 1) \o SubSeq(rs, k + 1, Len(rs))
  ELSE rs

\* The local oldsize: how many bytes of the payload eval_mm_valid expects
\* mm_realloc to have kept, from the size it stored for the id.
oldsize(o) == IF o.size < block_sizes[o.index] THEN o.size ELSE block_sizes[o.index]

\* The loop that compares each of them, a plain char, with index & 0xFF.
data_ok(data, o) == \A j \in 1 .. oldsize(o) : AsInt(data[j]) = LowByte(o.index)

\* read_trace knows every request type and its two assertions hold.
read_ok(file) ==
  /\ \A k \in DOMAIN file.ops : file.ops[k].type \in {"a", "r", "f"}
  /\ LET indexes == {0} \union {file.ops[k].index :
                                  k \in {j \in DOMAIN file.ops :
                                           file.ops[j].type \in {"a", "r"}}}
     IN  /\ file.num_ids - 1 \in indexes
         /\ \A x \in indexes : x <= file.num_ids - 1
  /\ file.num_ops = Len(file.ops)

\* As in the traces that come with the driver: an id is allocated once, before
\* it is used, and not used after it is freed.  read_trace does not test this.
WellFormed(t) ==
  \A k \in DOMAIN t :
    LET before(types) == \E j \in 1 .. (k - 1) :
                           t[j].index = t[k].index /\ t[j].type \in types
    IN  /\ t[k].type = "a" <=> ~before({"a"})
        /\ ~before({"f"})

\* The team structure of mm.c, and main's test of it.
team == [teamname |-> "in", name1 |-> "ivan nikitovic", id1 |-> "in@bu.edu",
         name2 |-> "", id2 |-> ""]
team_ok == /\ team.teamname # "" /\ team.name1 # "" /\ team.id1 # ""
           /\ team.name2 = "" <=> team.id2 = ""

NoOptions == [tracefiles |-> FALSE, tracedir |-> "traces/", team_check |-> TRUE,
              run_libc |-> FALSE]

op == trace[i + 1]
Larger(x, y) == IF x > y THEN x ELSE y
-----------------------------------------------------------------------------
Init ==
  /\ pc = "options" /\ args \in 0 .. MaxArgs /\ opt = NoOptions
  /\ num_tracefiles = 0 /\ libc = 0 /\ trace = << >> /\ i = 0 /\ rep = 0
  /\ ranges = << >>
  /\ blocks = [d \in Ids |-> NULL] /\ block_sizes = [d \in Ids |-> 0]
  /\ errors = 0 /\ valid = << >>
  /\ total_size = 0 /\ max_total_size = 0
  /\ held = NoBlocks /\ heapsize = 0
  /\ refused = FALSE /\ lost = FALSE

\* main stores the result of eval_mm_valid and goes on to the next trace.
EndTrace(ok) ==
  /\ valid' = Append(valid, ok)
  /\ pc' = IF Len(valid) + 1 = num_tracefiles THEN "done" ELSE "read"

\* Mutants of Invalid: the error is not counted, or counted twice.
Invalid_silent == EndTrace(FALSE) /\ UNCHANGED errors
Invalid_twice == errors' = errors + 2 /\ EndTrace(FALSE)

\* malloc_error(...); return 0; out of eval_mm_valid.
Invalid == errors' = errors + 1 /\ EndTrace(FALSE)

\* app_error or a failed assertion.
Exit == pc' = "exit" /\ UNCHANGED <<errors, valid>>

\* A pass starts with mem_reset_brk and a successful mm_init.
Restart == heapsize' = 0 /\ held' = NoBlocks /\ i' = 0

\* memset(p, index & 0xFF, size).
Filled(o) == [size |-> o.size, kept |-> o.size, data |-> {LowByte(o.index)}]

\* Mutant of Remember: the answer is not stored.
Remember_sizes(o, p) ==
  /\ block_sizes' = [block_sizes EXCEPT ![o.index] = o.size]
  /\ UNCHANGED blocks

\* Mutant of Remember: only ALLOC stores the size.
Remember_first(o, p) ==
  /\ blocks' = [blocks EXCEPT ![o.index] = p]
  /\ block_sizes' = IF o.type = "a" THEN [block_sizes EXCEPT ![o.index] = o.size] ELSE block_sizes

Remember(o, p) ==
  /\ blocks' = [blocks EXCEPT ![o.index] = p]
  /\ block_sizes' = [block_sizes EXCEPT ![o.index] = o.size]

\* The ops of a trace file; its arrays are uninitialised, and a value that no
\* pass reads stands for that.
Load(ops) ==
  /\ trace' = ops /\ rep' = 0
  /\ blocks' = [d \in Ids |-> NULL] /\ block_sizes' = [d \in Ids |-> 0]
-----------------------------------------------------------------------------
\* The start of main.

\* Mutant of option_t: -t is not ignored after -f.
option_t_always == opt' = [opt EXCEPT !.tracedir = "dir/"]

option_t ==
  opt' = IF num_tracefiles = 1 THEN opt ELSE [opt EXCEPT !.tracedir = "dir/"]

\* One option: -f, -t, -a, -l, and -h or an unknown one.  The others only
\* change what is printed.
option ==
  /\ pc = "options" /\ args > 0 /\ args' = args - 1
  /\ \/ /\ opt' = [opt EXCEPT !.tracefiles = TRUE, !.tracedir = "./"]
        /\ num_tracefiles' = 1 /\ UNCHANGED pc
     \/ /\ \/ option_t
           \/ opt' = [opt EXCEPT !.team_check = FALSE]
           \/ opt' = [opt EXCEPT !.run_libc = TRUE]
        /\ UNCHANGED <<num_tracefiles, pc>>
     \/ pc' = "exit" /\ UNCHANGED <<opt, num_tracefiles>>
  /\ UNCHANGED <<libc, trace, i, rep, ranges, blocks, block_sizes, errors, valid, total_size,
                 max_total_size, held, heapsize, refused, lost>>

\* The team check, the choice of the trace files, and the arrays of results
\* and the arena, for which there may be no memory.  The options are not read
\* again.
start ==
  /\ pc = "options" /\ args = 0
  /\ num_tracefiles' = IF opt.tracefiles THEN num_tracefiles ELSE DEFAULT_TRACES
  /\ \/ pc' = CASE opt.team_check /\ ~team_ok -> "exit"
                [] opt.run_libc -> "libc_read"
                [] OTHER -> "read"
     \/ pc' = "exit"
  /\ opt' = NoOptions
  /\ UNCHANGED <<args, libc, trace, i, rep, ranges, blocks, block_sizes, errors, valid,
                 total_size, max_total_size, held, heapsize, refused, lost>>
-----------------------------------------------------------------------------
\* The three passes over the malloc package.

\* read_trace and the start of eval_mm_valid.
read_trace ==
  /\ pc = "read"
  /\ \E file \in Files :
       /\ Load(file.ops) /\ lost' = FALSE
       /\ \/ /\ ~read_ok(file) /\ Exit
             /\ i' = 0 /\ UNCHANGED <<ranges, held, heapsize, refused>>
          \/ /\ read_ok(file)
             /\ ranges' = << >>
             /\ \/ pc' = "valid" /\ Restart /\ UNCHANGED <<errors, valid, refused>>
                \/ Invalid /\ refused' = TRUE /\ Restart
  /\ UNCHANGED <<main_vars, total_size, max_total_size>>

\* eval_mm_valid, ALLOC.
valid_alloc ==
  /\ pc = "valid" /\ i < Len(trace) /\ op.type = "a"
  /\ \/ /\ Invalid /\ refused' = TRUE
        /\ UNCHANGED <<i, ranges, blocks, block_sizes, held, heapsize>>
     \/ \E p \in Addresses, grown \in heapsize .. MAX_HEAP :
          /\ CanGrant(held, p, op.size, grown)
          /\ heapsize' = grown
          /\ held' = Pkg!With(held, p, Filled(op))
          /\ refused' = refused
          /\ \/ /\ ~range_ok(ranges, p, op.size, grown) /\ Invalid
                /\ UNCHANGED <<i, ranges, blocks, block_sizes>>
             \/ /\ range_ok(ranges, p, op.size, grown)
                /\ ranges' = add_range(ranges, p, op.size)
                /\ Remember(op, p)
                /\ i' = i + 1 /\ UNCHANGED <<pc, errors, valid>>
  /\ UNCHANGED <<main_vars, trace, rep, total_size, max_total_size, lost>>

\* eval_mm_valid, REALLOC.  data is what the new payload holds when mm_realloc
\* returns.
valid_realloc ==
  /\ pc = "valid" /\ i < Len(trace) /\ op.type = "r"
  /\ \/ /\ Invalid /\ refused' = TRUE
        /\ UNCHANGED <<i, ranges, blocks, block_sizes, held, heapsize, lost>>
     \/ \E newp \in Addresses, grown \in heapsize .. MAX_HEAP, data \in Contents(op.size) :
          LET oldp  == blocks[op.index]
              rest  == remove_range(ranges, oldp)
              inuse == Pkg!Without(held, oldp)
          IN  /\ CanGrant(inuse, newp, op.size, grown)
              /\ CanKeep(oldp, data)
              /\ heapsize' = grown
              /\ held' = Pkg!With(inuse, newp, Filled(op))
              /\ refused' = refused
              /\ lost' = (lost \/ ~Preserved(oldp, data))
              /\ \/ /\ ~range_ok(rest, newp, op.size, grown) /\ Invalid
                    /\ ranges' = rest
                    /\ UNCHANGED <<i, blocks, block_sizes>>
                 \/ /\ range_ok(rest, newp, op.size, grown)
                    /\ ranges' = add_range(rest, newp, op.size)
                    /\ \/ /\ ~data_ok(data, op) /\ Invalid
                          /\ UNCHANGED <<i, blocks, block_sizes>>
                       \/ /\ data_ok(data, op)
                          /\ Remember(op, newp)
                          /\ i' = i + 1 /\ UNCHANGED <<pc, errors, valid>>
  /\ UNCHANGED <<main_vars, trace, rep, total_size, max_total_size>>

\* eval_mm_valid, FREE.
valid_free ==
  /\ pc = "valid" /\ i < Len(trace) /\ op.type = "f"
  /\ ranges' = remove_range(ranges, blocks[op.index])
  /\ held' = Pkg!Without(held, blocks[op.index])
  /\ i' = i + 1
  /\ UNCHANGED <<pc, main_vars, trace, rep, blocks, block_sizes, errors, valid, total_size,
                 max_total_size, heapsize, refused, lost>>

\* eval_mm_valid returns 1 and eval_mm_util starts.
begin_util ==
  /\ pc = "valid" /\ i = Len(trace)
  /\ total_size' = 0 /\ max_total_size' = 0
  /\ \/ pc' = "util" /\ Restart /\ UNCHANGED <<errors, valid, refused>>
     \/ Exit /\ refused' = TRUE /\ UNCHANGED <<i, held, heapsize>>
  /\ UNCHANGED <<main_vars, trace, rep, ranges, blocks, block_sizes, lost>>

\* A call of mm_malloc or mm_realloc in eval_mm_util or eval_mm_speed that
\* returns NULL ends the program.
Refuse ==
  /\ op.type \in {"a", "r"}
  /\ Exit /\ refused' = TRUE
  /\ UNCHANGED <<i, blocks, block_sizes, total_size, max_total_size, held, heapsize>>

\* What is in use when mm_malloc or mm_realloc picks the answer to op.
InUse == IF op.type = "r" THEN Pkg!Without(held, blocks[op.index]) ELSE held

\* The calls made for op, and the answer p stored.  The passes that do not
\* check fill no payload.
Free ==
  /\ op.type = "f"
  /\ held' = Pkg!Without(held, blocks[op.index])
  /\ UNCHANGED blocks
Answer(p) ==
  /\ op.type \in {"a", "r"}
  /\ held' = Pkg!With(InUse, p, [size |-> op.size, kept |-> 0, data |-> {}])
  /\ blocks' = [blocks EXCEPT ![op.index] = p]

\* A call that succeeds in eval_mm_util or eval_mm_speed.
Call ==
  /\ \/ Free /\ UNCHANGED heapsize
     \/ \E p \in Addresses, grown \in heapsize .. MAX_HEAP :
          CanGrant(InUse, p, op.size, grown) /\ heapsize' = grown /\ Answer(p)
  /\ i' = i + 1
  /\ UNCHANGED <<pc, errors, valid, refused>>

\* Mutant of Growth: a reallocated block is counted again.
Growth_again == IF op.type = "f" THEN 0 - block_sizes[op.index] ELSE op.size

\* The change of total_size in an iteration of eval_mm_util.
Growth ==
  CASE op.type = "a" -> op.size
    [] op.type = "r" -> op.size - block_sizes[op.index]
    [] op.type = "f" -> 0 - block_sizes[op.index]

\* An iteration of eval_mm_util.
util_op ==
  /\ pc = "util" /\ i < Len(trace)
  /\ \/ Refuse
     \/ /\ Call
        /\ total_size' = total_size + Growth
        /\ IF op.type = "f"
           THEN UNCHANGED <<block_sizes, max_total_size>>
           ELSE /\ block_sizes' = [block_sizes EXCEPT ![op.index] = op.size]
                /\ max_total_size' = Larger(total_size', max_total_size)
  /\ UNCHANGED <<main_vars, trace, rep, ranges, lost>>

\* eval_mm_util returns, and fsecs starts eval_mm_speed.
begin_speed ==
  /\ pc = "util" /\ i = Len(trace)
  /\ rep' = 0
  /\ \/ pc' = "speed" /\ Restart /\ UNCHANGED <<errors, valid, refused>>
     \/ Exit /\ refused' = TRUE /\ UNCHANGED <<i, held, heapsize>>
  /\ UNCHANGED <<main_vars, trace, ranges, blocks, block_sizes, total_size, max_total_size, lost>>

\* An iteration of eval_mm_speed.
speed_op ==
  /\ pc = "speed" /\ i < Len(trace)
  /\ \/ Refuse
     \/ Call /\ UNCHANGED <<block_sizes, total_size, max_total_size>>
  /\ UNCHANGED <<main_vars, trace, rep, ranges, lost>>

\* Mutant of end_speed: the repetitions are not counted.
end_speed_again ==
  /\ pc = "speed" /\ i = Len(trace)
  /\ Restart
  /\ UNCHANGED <<pc, main_vars, trace, rep, ranges, blocks, block_sizes, errors, valid,
                 total_size, max_total_size, refused, lost>>

\* eval_mm_speed returns to fsecs, which runs it again or returns to main.
end_speed ==
  /\ pc = "speed" /\ i = Len(trace)
  /\ rep' = rep + 1
  /\ \/ /\ rep' < Reps
        /\ Restart /\ UNCHANGED <<pc, errors, valid, refused>>
     \/ /\ rep' < Reps
        /\ Exit /\ refused' = TRUE /\ UNCHANGED <<i, held, heapsize>>
     \/ /\ rep' = Reps
        /\ EndTrace(TRUE) /\ UNCHANGED <<i, held, heapsize, errors, refused>>
  /\ UNCHANGED <<main_vars, trace, ranges, blocks, block_sizes, total_size, max_total_size, lost>>

-----------------------------------------------------------------------------
\* The two passes over the C library's malloc.  mdriver.c only hands its
\* answers back to it, so they can be any names that are not in use.

libc_malloc(inuse) ==
  CHOOSE p \in Lo .. (Lo + Cardinality(DOMAIN inuse)) :
    p \notin DOMAIN inuse /\ \A q \in Lo .. (p - 1) : q \in DOMAIN inuse

libc_read ==
  /\ pc = "libc_read"
  /\ \E file \in Files :
       Load(file.ops) /\ pc' = IF read_ok(file) THEN "libc_valid" ELSE "exit"
  /\ i' = 0
  /\ UNCHANGED <<main_vars, ranges, errors, valid, total_size, max_total_size,
                 held, heapsize, refused, lost>>

\* An iteration of eval_libc_valid or eval_libc_speed.  They end the program
\* when the library refuses, and the first also counts an error.
libc_op ==
  /\ pc \in {"libc_valid", "libc_speed"} /\ i < Len(trace)
  /\ \/ /\ Free \/ Answer(libc_malloc(InUse))
        /\ i' = i + 1 /\ UNCHANGED <<pc, errors, refused>>
     \/ /\ op.type \in {"a", "r"} /\ refused' = TRUE
        /\ errors' = IF pc = "libc_valid" THEN errors + 1 ELSE errors
        /\ pc' = "exit" /\ UNCHANGED <<i, held, blocks>>
  /\ UNCHANGED <<main_vars, trace, rep, ranges, block_sizes, valid, total_size,
                 max_total_size, heapsize, lost>>

\* Nothing is reset between the passes.
begin_libc_speed ==
  /\ pc = "libc_valid" /\ i = Len(trace)
  /\ pc' = "libc_speed" /\ i' = 0
  /\ UNCHANGED <<main_vars, trace, rep, ranges, blocks, block_sizes, errors, valid,
                 total_size, max_total_size, held, heapsize, refused, lost>>

\* eval_libc_speed returns to fsecs.  free_trace drops the pointers that the
\* trace still holds, and nothing can refer to their blocks any more.  There
\* may be no memory for the results of the package or for its arena.
end_libc_speed ==
  /\ pc = "libc_speed" /\ i = Len(trace) /\ i' = 0
  /\ IF rep + 1 < Reps
     THEN rep' = rep + 1 /\ UNCHANGED <<pc, libc, trace, blocks, block_sizes, held>>
     ELSE /\ Load(<< >>) /\ held' = NoBlocks
          /\ \/ libc + 1 < num_tracefiles /\ libc' = libc + 1 /\ pc' = "libc_read"
             \/ libc + 1 = num_tracefiles /\ libc' = 0 /\ pc' \in {"read", "exit"}
  /\ UNCHANGED <<args, opt, num_tracefiles, ranges, errors, valid, total_size,
                 max_total_size, heapsize, refused, lost>>
-----------------------------------------------------------------------------
\* The program has ended.
finished == pc \in {"done", "exit"} /\ UNCHANGED vars

Next ==
  \/ option \/ start
  \/ libc_read \/ libc_op \/ begin_libc_speed \/ end_libc_speed
  \/ read_trace
  \/ valid_alloc \/ valid_realloc \/ valid_free
  \/ begin_util \/ util_op
  \/ begin_speed \/ speed_op \/ end_speed
  \/ finished

\* Fairness: the driver is one thread and nothing in it waits.
Spec == Init /\ [][Next]_vars /\ WF_vars(Next)
-----------------------------------------------------------------------------
\* A range of the range list.
Extent == [lo : Nat, hi : Nat]

\* Type invariant.
TypeOK ==
  /\ pc \in {"options", "libc_read", "libc_valid", "libc_speed", "read", "valid", "util",
             "speed", "done", "exit"}
  /\ args \in 0 .. MaxArgs /\ num_tracefiles \in {0, 1, DEFAULT_TRACES}
  /\ libc \in Nat /\ (libc < num_tracefiles \/ libc = 0)
  /\ i \in 0 .. Len(trace) /\ rep \in 0 .. Reps
  /\ ranges \in Seq(Extent)
  /\ blocks \in [Ids -> Nat] /\ block_sizes \in [Ids -> Sizes \union {0}]
  /\ errors \in 0 .. num_tracefiles
  /\ valid \in Seq(BOOLEAN) /\ Len(valid) <= num_tracefiles
  /\ total_size \in Int /\ max_total_size \in Nat
  /\ heapsize \in 0 .. MAX_HEAP
  /\ refused \in BOOLEAN /\ lost \in BOOLEAN

\* The range list is exactly the extents of the payloads in use, although it
\* is updated after mm_realloc and before mm_free, and keyed by address only.
RangesExact ==
  pc = "valid" =>
    /\ {<<ranges[k].lo, ranges[k].hi - ranges[k].lo + 1>> : k \in DOMAIN ranges}
         = {<<p, held[p].size>> : p \in DOMAIN held}
    /\ Len(ranges) = Cardinality(DOMAIN held)

\* A package that keeps its promises is never reported, unless it refused a
\* request.
NoFalseAlarm == errors > 0 => refused

\* The bytes of the payloads h.
Bytes(h) == UNION {p .. (p + h[p].size - 1) : p \in DOMAIN h}

\* In eval_mm_util the running total is the number of bytes in use and its
\* maximum is no more than the heap holds: utilisation is at most 1.
UtilAtMostOne ==
  pc = "util" =>
    /\ total_size = Cardinality(Bytes(held))
    /\ total_size <= max_total_size /\ max_total_size <= heapsize

\* main decides between a score and "Terminated with %d errors" by errors,
\* and the autograder line by the valid flags: whenever it goes on, they agree.
ErrorsAreInvalidTraces ==
  pc # "exit" => errors = Cardinality({t \in DOMAIN valid : ~valid[t]})

\* The driver keeps the contract of the packages it tests: in every pass, each
\* repetition included, what it frees or reallocates is in use, although the
\* pointers of the pass before are still in trace->blocks.
CallerKeepsContract ==
  /\ pc \in {"valid", "util", "speed", "libc_valid", "libc_speed"}
  /\ i < Len(trace) /\ op.type \in {"f", "r"}
  => blocks[op.index] \in DOMAIN held

\* In whatever order the options come, a file given with -f is the only trace
\* and is looked up in the current directory.
FileOptionWins ==
  opt.tracefiles => num_tracefiles = 1 /\ opt.tracedir = "./"

\* The program comes to an end: every trace is run or the driver exits.
Terminates == <>(pc \in {"done", "exit"})

\* Whatever the package answers, an accepted payload is aligned and in the
\* heap, and if it overlaps an older one it begins before it and ends after
\* it: add_range looks at the two ends of the new payload only.
AcceptedRanges ==
  \A k \in DOMAIN ranges :
    /\ ranges[k].lo % ALIGNMENT = 0
    /\ Lo <= ranges[k].lo /\ ranges[k].lo <= ranges[k].hi
    /\ pc = "valid" => ranges[k].hi <= mem_heap_hi
    /\ \A old \in DOMAIN ranges :
         old > k => \/ ranges[k].hi < ranges[old].lo
                    \/ ranges[old].hi < ranges[k].lo
                    \/ ranges[k].lo < ranges[old].lo /\ ranges[old].hi < ranges[k].hi

\* A trace in which mm_realloc lost a byte of a payload is not accepted as
\* valid, and is not timed: the bytes that eval_mm_valid compares, by the size
\* it has stored for the id, are all those that the payload had and that fit.
LossFound == pc \in {"util", "speed"} => ~lost

\* "We use the range list to detect any overlapping allocated blocks."
NoOverlapAccepted ==
  \A k, old \in DOMAIN ranges :
    old > k => ranges[k].hi < ranges[old].lo \/ ranges[old].hi < ranges[k].lo
=============================================================================
