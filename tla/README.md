# seglist-memory-allocator in TLA+

The repository is a malloc package for a 32-bit machine (`mm.c`: boundary tags
and segregated free lists), the simulated memory it runs on (`memlib.c`), and
the driver that checks, measures and times it (`mdriver.c` with the timing
package `fsecs.c`, `ftimer.c`, `fcyc.c`, `clock.c`). Everything is one thread;
what is hard in the allocator is not concurrency but long sequences of calls,
each of which rewrites a few words of a shared structure that the next call
trusts. In the timing package it is time itself: timer interrupts fall between
any two readings of the clocks, and counters wrap.

## 1. Inventory

| Component | State | Operations | Used by |
|---|---|---|---|
| `memlib.c` | arena, `mem_brk`, `mem_max_addr` | `mem_init`, `mem_sbrk`, `mem_reset_brk`, `mem_heap_lo/hi`, `mem_heapsize` | `mm.c`, `mdriver.c` |
| `mm.c` | the words of the heap (list heads, tags, links), `heap_listp` | `mm_init`, `mm_malloc`, `mm_free`, `mm_realloc`; inside: `find_bucket`, `find_fit`, `place`, `coalesce`, `extend_heap`, `add_to_bucket`, `remove_from_bucket` | `mdriver.c` |
| `mm_check` | none (reads the heap) | `mm_check` | manual test |
| `mdriver.c`, passes | range list, `blocks`, `block_sizes`, `errors`, `mm_stats` | `read_trace`, `add_range`, `remove_range`, `eval_mm_valid`, `eval_mm_util`, `eval_mm_speed`, `main` | user |
| `mdriver.c`, options | `num_tracefiles`, `tracedir`, `team_check`, `run_libc` | the `getopt` loop, the team check | user |
| `mdriver.c`, libc passes | `blocks` | `eval_libc_valid`, `eval_libc_speed` | `main`, with `-l` |
| `mdriver.c`, results | averages | performance index, `printresults` | `main` |
| `fsecs.c` | `Mhz` | `init_fsecs`, `fsecs`: one of three methods, selected in `config.h` | `mdriver.c` |
| `ftimer.c` | the interval timers | `init_etime`, `get_etime`, `ftimer_itimer`, `ftimer_gettod` (selected) | `fsecs.c` |
| `fcyc.c` | parameters, cache buffer, the K best samples | the `set_fcyc` functions, `clear`, `add_sample`, `has_converged`, `fcyc` | `fsecs.c` |
| `clock.c` | counter at the start, `cyc_per_tick`, `start_tick` | `start_counter`, `get_counter`, `ovhd`, `mhz`, `callibrate`, `start_comp_counter`, `get_comp_counter` | `fcyc.c`, `fsecs.c` |

`mm.c` calls `mem_sbrk` and keeps its list heads in the first words of the
arena. `mdriver.c` resets the break and calls `mm_init` before each of its
passes over a trace, so `mm_init` also runs on an arena that still holds the
words of the previous pass.

What makes each part correct:

* memlib: the break stays in the arena; areas handed out are consecutive.
* mm: the tags tile the heap; the free lists hold exactly the free blocks, each
  in the list of its size; no two free blocks touch; every payload is aligned,
  inside the heap, disjoint from the others and keeps its bytes; the heap grows
  only when nothing fits; a search ends.
* mm_check: it accepts consistent heaps.
* mdriver: a correct package is not reported, an incorrect one is; errors are
  counted once per trace; the utilisation is at most 1; only blocks in use are
  freed or reallocated; the order of options does not matter; it ends.
* clock: a reading is the number of cycles that passed, whatever wraps; the
  cost of a tick is estimated from above.
* fcyc: the K best samples are kept, the result is the least, no sample whose
  ticks were subtracted charges the function for more than its own work, the
  cache buffer is not overrun.
* ftimer: the time between the two readings, over second boundaries.
* fsecs: a measurement ends, and no function is reported slower than its samples
  allow.

The hazards, each at its line, are listed in `PROJECT.json`.

## 2. Modules

| Module | Stands for |
|---|---|
| `MemLib` | constants and operators of `memlib.c`: word arithmetic, the test of `mem_sbrk` |
| `MemBrk` | `memlib.c` as a state machine, with the areas handed out as history |
| `MM` | `mm.c` on the words of the arena, and its safety and liveness properties |
| `Allocator` | abstract specification of the malloc package as its user sees it |
| `MMInv` | the assumption on sizes, the refinement mapping MM to Allocator, the inductive invariant |
| `MMCheck` | `mm_check`, and the walk along a free list |
| `MMClaims` | statements of comments and callers that `mm.c` does not keep |
| `Driver` | `mdriver.c`: the options, the libc passes and the passes over a trace, against the Allocator interface |
| `Clock` | `clock.c`, and the environment: time and timer interrupts |
| `Fcyc` | `fcyc.c`, on `Clock` |
| `FTimer` | `ftimer.c`, on the same time |
| `Fsecs` | `fsecs.c`: composes `Clock`, `Fcyc` and `FTimer`, and states the properties of all four |
| `MCMM`, `MCDriver`, `MCFsecs` | small instances for TLC |
| `MemBrkProofs` | theorems about `MemBrk` |
| `HeapLemmas` | lemmas about `MM`: words and tags, blocks that tile an interval, lists, and a heap with both under the single writes of `mm.c` |
| `CallLemmas` | what `coalesce` does, case by case (`CoalesceWhole`), and `place` (`PlaceWhole`), `free_block`, `extend_heap` and `mm_init` |
| `MMProofs` | the invariants of `MM`, and that `MM` implements `Allocator`, proved |
| `MMCheckProofs` | what the walks of `MMCheck` find, proved |
| `DriverInv` | the inductive invariants of `Driver`: `Sound` for any package, `Tracked` for any package on ordinary traces, `Kept` for a faithful one |
| `DriverProofs` | theorems about `Driver` with any package |
| `DriverFaithful` | theorems about `Driver` on ordinary traces, with any package and with one that keeps its promises |
| `FsecsInv` | the inductive invariants of `Fsecs`: `Held`, and `Charged` while readings are in range |
| `FsecsProofs` | theorems about the timing package |

### MM and the code

`mem` is a function from the word addresses of the arena to naturals; addresses
are bytes, as in the code, and the macros `GET`, `PUT`, `HDRP`, `FTRP`,
`NEXT_BLKP`, `PREV_BLKP`, `PACK`, `GET_SIZE` and `GET_ALLOC` are operators of
the same names. Functions that rewrite the heap (`add_to_bucket`, `coalesce`,
`place`, ...) are operators from a memory to a memory that make the same writes
in the same order, reading through the tags they have just written.

A call is one action, with one exception: the loops of `find_fit` take one
action per iteration (`next_node`, `next_bucket`), because that they end is a
property. `mm_malloc` is `malloc_entry` up to the loops and `fit` or `no_fit`
after them; `mm_realloc` runs the same actions with the old pointer in `req`,
and its copy and free are part of `deliver`. `reset` is `mem_reset_brk();
mm_init()`.

`pc = "crashed"` stands for a read or write of address 0: `find_fit` when
`find_bucket` returned 0, and `memcpy` in `mm_realloc` when `mm_malloc` returned
NULL. `blocks` (the block addresses) and `live` (the payloads the caller holds,
what it filled them with and how many bytes it relies on) are auxiliary: no
guard reads `blocks`, and `live` only says which pointers a correct caller may
pass. The caller fills each new payload, as `eval_mm_valid` does.

Integers keep their width: `size + OVERHEAD`, `ALIGN`, the difference in
`place` and the sums of `mem_sbrk` are modulo `SIZE_MOD`, and `ToInt` is the
conversion of a `size_t` argument to `int`.

### Driver and the code

One action per iteration of a pass, including the call of the package it makes.
The package is the interface of `Allocator`: `Faithful = TRUE` lets it answer
what Allocator allows or refuse; `Faithful = FALSE` lets it answer any address
and lose data. A char has `BYTE` values and is signed (`AsInt`).

The data check of `eval_mm_valid` is its loop: `oldsize` reads `block_sizes` and
takes the lesser of it and the new size, and `data_ok` compares that many bytes.
What the package puts there is a sequence of bytes (`Contents`). The package
knows how many bytes of a payload were filled and with what (`held`, which none
of the driver's tests reads), and `Preserved` says by that record whether
mm_realloc kept them; so `lost` and the check are about the same bytes only if
`block_sizes` is right.

`option` reads one option of the command line; `start` is main from the team
check to the first trace. `-g`, `-v` and `-V` change only what is printed and
are left out. The answers of the C library's malloc are only ever handed back
to it, so a libc pointer is the least name not in use; what a trace leaves
allocated is forgotten with the trace, since nothing can refer to it any more.
A file that cannot be opened or read, or whose counts are wrong, ends the
program; that a file with too many requests is stored before its count is
checked is abstracted to the failed assertion.

### The timing package and the code

`clk` is the environment: the cycles since the machine started, `tms_utime`, and
the program's own work since the last interrupt. Each reading of a clock is a
step of its own, and between two readings the program does some work (`Steps`,
`Work` or `Runs` cycles) during which interrupts may fall. An interrupt comes
every `PERIOD` cycles of the program's work, takes `TICK` further cycles and
adds one to `tms_utime`. So the two readings that `callibrate`,
`start_comp_counter` and `get_comp_counter` each make are never of one moment.
A function that makes no two readings is one action.

A double is a whole number of `1/UNIT` cycles, and `epsilon` of `1/SCALE`;
products are compared without division. The counter has two words of `W` values.
In `FTimer` a cycle is a microsecond and a second has `USEC` of them. The
function being timed is external: it takes any time in `Work` or `Runs`.
`begun`, `own` and `seen` are history: of each sample `seen` has the value, the
cycles that passed, how many of them were own work, and the cost of a tick that
was used (0 if nothing was subtracted).

`config.h` selects one method at compile time; `Fsecs` leaves it to `Init`. In
`Driver`, fsecs is what its caller relies on: the function is run `Reps` times,
as the selected `ftimer_gettod` does.

## 3. Runs

| Run | Question | Result |
|---|---|---|
| `heap` | do the tags, payloads and the inductive invariant survive every sequence of calls with mixed sizes, and is the heap grown only when needed? | holds, 111,948 states |
| `lists` | are the free lists exact when they are long, do payloads keep their bytes, what does `mm_check` answer? | holds, 101,759 states |
| `refines` | does `MM` implement `Allocator`, does every search end, and does the inductive invariant hold with no reduction? | holds, 215,390 states |
| `brk` | does the break stay in the arena for zero, exact, too large and negative increments? | holds, 735 states |
| `driver` | is a faithful package judged correctly, is utilisation at most 1, does the driver use its packages correctly in all five passes, does the order of options matter, does it end? Does the inductive invariant hold? | holds, 305,895 states |
| `driver_unfaithful` | what does an accepted trace guarantee, whatever the package does? Is lost data found, and the range list exact? | holds, 527,851 states |
| `timing` | what do the three methods measure when interrupts fall between readings and counters wrap? | holds, 1,041,124 states |
| `realloc_returns` | does `mm_realloc` return when memory is exhausted? | violated |
| `copy_in_block` | does `mm_realloc` read only the old block's payload? | violated |
| `check_accepts` | does `mm_check` accept a consistent heap? | violated |
| `driver_overlap` | does `add_range` reject every overlap? | violated |
| `driver_signed_char` | does the data check accept preserved data for every id? | violated |

### Bounds

The machine of the runs has 10-bit words (`SIZE_MOD = 1024`) and 10 lists, one
per power of two of a word, as the code has 32 of each. The arena starts at 64.

* `heap`: `CHUNKSIZE = 96` and a 256-byte arena give 200 bytes of blocks: the
  first chunk, one more chunk and no third, so extension succeeds, merges with a
  free last block, and fails. Sizes 8, 24 and 72 need blocks of 40, 56 and 104
  bytes: smaller than a chunk with a split, smaller without one, larger than a
  chunk. Size 0 is the ignored request and 600 has no bucket. All four cases of
  `coalesce` occur.
* `lists`: one block size and 336 bytes, so up to seven 40-byte blocks, several
  of which are on one list in every order; two fills tell payloads apart; one
  reset in the middle.
* `refines`: two sizes, 184 bytes and a reset, small enough to do without `View`,
  which liveness needs.
* `driver`: up to three options; one trace (`-f`) or two, of up to three
  requests over two ids, two sizes, a heap of six bytes with alignment 2, two
  timing repetitions; three unreadable files. Two ids need two values of a char
  that are not negative, hence `BYTE = 4`.
* `driver_unfaithful`: one trace of up to three requests, sizes 1 and 5, so that
  a reallocation grows and shrinks; any content of a reallocated payload, so that
  any one byte of five may be the one that is lost. Three requests on one id are an
  alloc and two reallocs: the second depends on the size that the first stored.
* `timing`: words of 16 values, a start at cycle 11 and runs of 2 or 9 cycles, so
  the low word wraps during a run, between runs, and twice in a long
  calibration. An interrupt every 9 cycles of work takes 6; the three phases
  (0, 3 or 6 cycles after a tick at the start) and steps of 1 or 2 cycles put it
  before, between and after every pair of readings. A calibration is 2 events, few
  enough that it sometimes records nothing and is repeated. K is 1 or 2 and
  maxsamples 1 or 4, so fcyc converges, gives up, and stops before the array is
  full; samples become negative. Parameters and buffer size change between
  measurements. The interval timer of 5 seconds of 6 microseconds runs out
  during a measurement. No measurement begins after `MaxStart`.

`View` (heap, lists) drops the words that nothing reads before they
are written: bytes of payloads nobody relies on and interiors of free blocks.
`CHECK_DEADLOCK FALSE` is used for `MM` only, where a crashed program stops.

### Fairness

`MM` assumes weak fairness of the loop steps of `find_fit` and of nothing else:
no program is obliged to call the allocator. `Driver` assumes that the program
keeps running; it is one thread and waits for nothing. `Fsecs` assumes the same:
every loop of the timing package takes time at each step, and the timer of the
machine is periodic, so the calibration loop sees its ticks. No fairness is
assumed of the choice between outcomes.

### What the timing runs take for granted

`ThresholdAssumption` (`Clock`): a pause of less than `THRESHOLD` cycles and the
way around an event do not exceed `RECORDTHRESH`, and the ticks of the machine
are farther apart than `RECORDTHRESH` and such a way (3000 cycles in the code,
millions on a machine with a tick every 10 ms). Then a recorded pause did
contain the cycles of its ticks, and `TickCostBounds` holds: the estimate is
never below the cost of an interrupt, so a sample that is compensated at that
estimate is never above the function's own work (`SamplesSound`,
`SecondsNotOver`), and may be below it by less than `THRESHOLD` and two readings
per tick, even below zero. A calibration may also record nothing, when each of
its ticks fell between the reading of the counter and that of the ticks:
`cyc_per_tick` is then still 0 and `get_comp_counter` subtracts nothing. Such a
sample, like one taken with compensation off, is the whole time that passed,
interrupts included, and fsecs may report more than the function's own work; the
run has both kinds, also within one measurement. The process is not descheduled,
as in the code's own reasoning, and nobody sets the clock back. `clear` needs a
cache block of at least an `int` (`SettingsAssumption`): with a smaller one its
stride is 0 and it never ends.

### What the violations say

* `mm_realloc` does not test the result of `mm_malloc` (mm.c:453) and copies to
  address 0 when the arena is full, while `mdriver.c:636` expects NULL.
* `mm_realloc` bounds the copy by the size of the block, not of its payload
  (mm.c:455-458), so growing a payload reads the footer and the start of the
  next block; the payload itself is preserved (`PayloadIntact`).
* Section 2 of `mm_check` lacks braces (mm.c:514-516) and rejects every heap
  that has a free block; `CheckResult` says exactly what it computes.
* `add_range` misses a payload that encloses an older one (mdriver.c:409);
  `AcceptedRanges` is what it does guarantee.
* The data check compares a signed char with `index & 0xFF` (mdriver.c:656), so
  a preserved block of an id with low byte 128 or more is reported. No trace in
  the repository reallocates such an id.

Further divergences met while modelling, for which there is no run: the largest
39 requests wrap in `ALIGN(size + OVERHEAD)` (mm.c:194) and get a short block
(`ShortOnlyIfWraps`); sizes above 2^31 have no bucket and `find_fit` reads address 0
(mm.c:254, 266); `add_to_bucket` pushes on the front although its comment
speaks of order "max to min" (mm.c:295-296); the note at mm.c:149-151 speaks of
`4*WSIZE` bytes of overhead where the code uses 32; the sum tested by
`mem_sbrk` can wrap if the arena lies high in the address space (memlib.c:62); and
the Alpha version of the counter, of one word, sets both high words to 0 and then
borrows from them (clock.c:127), so that a reading is 2^32 - 1 words too large
once the word has wrapped since the start, though clock.c:98-100 says that it
times about 9 seconds.

## 4. Proofs

All proofs are checked by TLAPS to the last leaf. They hold for every value of
the constants that satisfies the assumptions: any arena, any even number of
lists that gives every block size a bucket, any chunk size that is a multiple
of 8 and at least 32, any number of resets.

| Theorem | Statement |
|---|---|
| `MemBrkProofs!BrkTypeOK`, `BrkStaysInArena`, `AreasAlwaysTile` | the break stays in the arena and the areas of `mem_sbrk` tile it |
| `CallLemmas!CoalesceWhole` | `coalesce` makes a heap with one unlisted free block whole and leaves allocated blocks alone |
| `CallLemmas!PlaceWhole` | `place` allocates a listed block, with or without a split, and leaves the others alone |
| `MMProofs!IInvInductive` | `IInv /\ [Next]_vars => IInv'` |
| `MMProofs!Safety` | `Spec => []IInv`, the conjunction of the invariants below |
| `MMProofs!HeapAlwaysTiled`, `ListsAlwaysLinked`, `AlwaysCoalesced`, `BlocksAlwaysHeld` | `HeapTiled`, `SeglistLinked`, `Coalesced`, `HeldBlocks` always hold |
| `MMProofs!GrowthOnlyWhenFull` | `Spec => GrowsOnlyWhenFull` |
| `MMProofs!ShortOnlyIfWraps` | `mm_malloc` computes too short a block for exactly the sizes for which `size + OVERHEAD + 7` wraps |
| `MMProofs!TypeCorrect`, `PayloadSafety`, `PayloadIntegrity` | `TypeOK`, `PayloadsSafe`, `PayloadIntact` always hold |
| `MMProofs!Refinement` | `Spec => ImplementsAllocator` |
| `MMCheckProofs!ReachableAlways`, `CheckDecided` | `ListsReachable` and `CheckResult` always hold |
| `DriverProofs!AlwaysSound` | `Spec => []Sound`, whatever the package answers |
| `DriverProofs!DriverTypes`, `ErrorsCounted`, `FileWins` | `TypeOK`, `ErrorsAreInvalidTraces`, `FileOptionWins` always hold |
| `DriverProofs!RangesAccepted` | what the range check guarantees of any package: `AcceptedRanges` |
| `DriverFaithful!AlwaysKept` | `Spec => []IInv`, if `OrdinaryTraces` |
| `DriverFaithful!RangesAlwaysExact`, `LossAlwaysFound` | `RangesExact`, `LossFound` always hold, if `OrdinaryTraces`, whatever the package answers |
| `DriverFaithful!UtilisationAtMostOne`, `ContractKept` | `UtilAtMostOne`, `CallerKeepsContract` always hold, if `OrdinaryTraces` and the package is faithful |
| `DriverFaithful!NoFalseAlarms` | a faithful package that refuses nothing is never reported, if also `LowIds` |
| `FsecsProofs!Invariance` | `Spec => []Held` |
| `FsecsProofs!Types`, `KBestHeld`, `LeastReturned`, `CacheInBuffer`, `FTimerExact` | `TypeOK`, `KBest`, `ResultIsBest`, `CacheReadsInBuffer`, `TimedExactly` always hold |
| `FsecsProofs!ReadingsExact` | `Spec => [](InRange => CounterExact)` |
| `FsecsProofs!ChargedInvariance` | `Spec /\ []InRange => []Charged` |
| `FsecsProofs!TickCost`, `SoundSamples`, `SecondsSound` | `TickCostBounds`, `SamplesSound`, `SecondsNotOver` always hold, if the readings are in range |

### Assumptions

`ArenaAssumption` and `LayoutAssumption` say that the compile-time
constants fit each other. `CallerAssumption` types the caller's inputs. The one
that restricts the caller is `OrdinarySizes`: no request is so large that its
size, or the break after growing by it, wraps around a word. Without it the
theorems are false (see the end of section 3). `MemBrkProofs` has the same
assumption on increments.

The theorems of `DriverProofs` need no more than the types of the constants
(`DriverAssumption`, `FilesAssumption`). Those of `DriverFaithful` have
hypotheses. `Faithful`: the package keeps what `Allocator` promises.
`OrdinaryTraces`: a trace that `read_trace` accepts allocates an id before it
uses it and does not use it after it is freed. `read_trace` does not test this
and the trace files keep it; on a trace that breaks it the driver frees
whatever is in `blocks`. `LowIds`: the low byte of every id is below 128,
without which there is the false alarm of the run `driver_signed_char`.

The timing theorems need `ClockAssumption`, `SettingsAssumption` (a cache block
holds an `int`, K is not 0), `FTimerAssumption` and `FsecsAssumption`, which
type the constants, and those about the cost of a tick need
`ThresholdAssumption` too. `InRange` says that fewer than `W * W` cycles have
passed since `start_counter`. `W * W` is 2^64, about 195 years at 3 GHz, and the
time since `start_counter` is no more than the time since the machine was
started; a two-word counter can promise nothing beyond it. It holds in every
state of the run `timing`, whose `W * W` is 256.

TLC evaluates each named assumption in the runs, `OrdinaryTraces` included.

### MM

No single invariant of `MM` is inductive. `coalesce` finds the
neighbours of a block by the tags, unlinks them by their links without
searching, and is right only if no two of them were free already; `mm_free`
reads the size of a payload's block from a tag that stands next to memory its
holder writes. So the tiling, the lists, the absence of free neighbours, the
ownership of allocated blocks and the state of a search are proved together:
that is `IInv`.

`IInv` reads sizes and free blocks off the words of the heap, which change with
every write. The proof works with `PInv`, in which the size of each block (`sz`)
and the set of free blocks (`F`) are objects of their own:

* `Shape(B, sz, brk)`: the blocks `B` with sizes `sz` tile the heap;
* `Heap(m, B, sz, brk, T, F)`: the tags of the blocks `T` and the lists of the
  blocks `F` are right in memory `m`. `T` is smaller than `B` while an operation
  is half way;
* `Whole`: nothing is half way, the listed blocks are the free ones and no two
  touch; `Loose`: the same but for one free block on no list, which is how
  `coalesce` is called;
* `Good`: whole, and the caller owns the blocks that are not free (`Owns`).

Each lemma says what one operation makes of such a heap and which words it
leaves alone (`Agree`, `Kept`); each action of `MM` is then a short composition
of them, and `StepPInv` has one case per action. `IInvPInv` and `PInvIInv` show
that the two forms are equivalent.

`GrowsOnlyWhenFull` says that a search which reaches the end of the lists has
seen every block. `SeglistLinked` does not imply it: links that agree block by
block allow a ring of free blocks that no list head leads to. `NoRings` excludes
it (`Anchored`): every set of free blocks has one whose link back leaves the set.
It is part of `IInv`, because each operation on the lists keeps it only on lists
that have it. `Passed` is the part of `IInv` about a search: the blocks it has
been past are too small, and each link out of one leads to another or to `node`.
When `node` is `NULL`, the blocks of the list that are not among them would be a
set that no link leads into, so there are none (`WholeListPassed`).

The refinement needs one more fact, that no holder relies on an empty payload
(`Positive`); then the mapped variable `HeldView` is a function of `live` alone,
and the side condition of `Allocator`, that a payload fits besides the others,
is `PayloadsSafe` after the step.

### The walks of mm_check and of the lists

`BlockAt` and `NodeAt` are recursive functions on the natural numbers. The
induction theorems of the library are out of the provers' reach, so
`MMCheckProofs` starts from the least element of a set (`LeastNumber`), from which
follow induction over a set (`AllNumbers`) and that a function defined by steps
exists (`WalkExists`): its beginnings exist and agree. `BlockWalk` and `ListWalk`
give the equations of the two walks as long as they stay in a set.

For `CheckResult` that set is the blocks and the break. Each step adds at least 32
to the address, so the break is reached within `MaxBlocks` steps (`WholeWalk`),
and the tags and neighbours are as in `Whole`. For `ListsReachable` it is the free
blocks of one bucket. The first block met twice would have two links back
(`NoneTwice`), so the blocks met are distinct; as they are 32 bytes apart in the
arena, they are at most `MaxBlocks`, by the pigeonhole theorem (`WalkEnds`). The
blocks met are then closed under links, and `WholeListPassed` says that they are
all of the bucket's: the same argument that shows that `find_fit` misses none.

### Driver

`Sound` is what the driver knows by itself. The package may answer anything,
and data may be lost. `AcceptedRanges` alone is not inductive: `eval_mm_valid`
goes on from whatever `remove_range` leaves, which is a sublist, and a new range
has been compared with each of the old ones but not the other way round. That
errors are counted once per trace needs `Counted`, the bounds of the loops over
traces and repetitions, because a pass is left from its middle.

`Tracked` is the agreement of three records of the same payloads in
`eval_mm_valid`: the package's (`held`), the trace's (`blocks`, `block_sizes`) and
the range list. It is needed as a whole, and it needs no faithful package, because
`add_range` has looked at every address before it is stored. `remove_range`
removes the first range that starts at an address, and is right only if no two do
(`Covers`), which the overlap test ensures: it misses a payload that encloses
another, but none that starts where another does.
`Recorded` says that each allocated id has in `block_sizes` the size of its
payload, all of which was filled with its low byte. From it follows `LossFound`:
the bytes that mm_realloc had to keep are as many as the loop compares, and one of
another value is not the low byte. A faithful package needs `Recorded` for the
converse, `NoFalseAlarm`.

`Kept` is what a faithful package adds: the agreement survives in the passes
without a range list, and the payloads are disjoint (`Laid`). There `blocks` keeps
the addresses of the pass before; the passes agree because each allocated id has a
payload of its own (`Named`), so that a free leaves the entries of the others true,
and because only the ids in `Alive` are looked up. `WellFormed(trace)` is used at
each request to know on which side of `Alive` its id is.

`UtilAtMostOne` is a counting argument: the bytes of disjoint payloads are
disjoint sets (`Bytes`), all within the heap, so their cardinality, which is the
running total, is at most the heap's size. The functions of `mdriver.c` that
choose the first of several (`remove_range`, the least name of a libc block) are
handled by the existence of a least element, which needs no induction theorem.

### The timing package

`Held` needs no assumption on time. Its parts are `Counter` (the two words saved
by `start_counter` are those of the cycle `begun`, and own work fits in what has
passed), `Buffer` (a buffer that exists has the size that `clear` reads, because
`set_fcyc_cache_size` drops it), `Timed`, and `Sampled`: the array is
`Ranked`, that is, entry j is a sample of rank j among those seen, and the entries
ascend. `add_sample` writes the new sample into the last place or the next free
one and sifts it down. `SiftDown` moves it to the least position whose
predecessor is not larger; the entries above that position move up by one, their
rank rises by one, and the others keep theirs (`RankedInsert`). `KBest` is
`Ranked` without the order.

`ReadingExact` is the borrow: for all `new` and `old` less than `W * W` apart,
word-wise subtraction with the borrow of `get_counter` is `new - old`.

`Charged` is about ticks. The readings of `callibrate` are of different moments:
it reads the counter (`oldt`), works, reads the counter again (`newt`), works,
and only then reads the ticks. `CalLoop` and `CalEvent` say that there were
moments `b`, `o`, `n` at which the old ticks, the old count and the new count were
what the locals hold, and how much own work lies between them (`Paused`,
`Between`). From `ThresholdAssumption`, at most one tick falls between the two
readings of the ticks (`TicksApart`). If `callibrate` sees a tick that came after
its reading of the counter, the ratio is that of a pause without a tick, which is
at most `RECORDTHRESH` and is not recorded; otherwise the ratio is `TICK` and
a pause (`EventRatio`). So `cyc_per_tick` is at least the cost of a tick.
`Compensated` says that the ticks subtracted by `get_comp_counter` are no fewer
than those that fell between its readings of the counter, because the ticks are
read first at the start and last at the end. Together, a sample is at most the
function's own work if `cyc_per_tick` was not 0 when its ticks were subtracted; if
it was, the sample is the reading itself, which is the time that passed.

### Model-checked only

* `SearchEnds`, `Terminates` and `MeasurementEnds`: liveness under fairness is
  out of the prover's reach.
* The five statements that the code violates.

## 5. Not modelled

* Pure output: `print_seglist`, `print_heap`, `printresults`, `usage`.
* The performance index: floating-point averages of the results, after which the
  program ends. That its utilisation part is at most `UTIL_WEIGHT` follows from
  `UtilAtMostOne`; its throughput part is capped by the code.
* The manual test in `mm.c` (`MY_MMTEST`): one behaviour of `MM`.
* `clock.c` on other machines: the Alpha counter, which the Makefile (32-bit x86)
  does not build, and the version that only exits; code that is switched off in
  `fcyc.c` (`KEEP_SAMPLES`, `KEEP_VALS`, `DEBUG`).
* Rounding of doubles, and the division by n in `ftimer.c`: the model compares
  the exact sums.

## 6. Plan

Done: `MemLib` and `MemBrk`; `MM`; `Allocator` and the refinement; `MMCheck`;
`Driver` with its options and libc passes; the timing package; the safety and
refinement proofs of `MM` and `MMCheck`; the safety proofs of `Driver` and of the
timing package.

Next, in this order:

1. `Driver` composed with `MM` through `Allocator`: that the package `mm.c` keeps
   `Faithful` as `Driver` uses it follows from `Refinement` action by action.
2. The three liveness properties have no proof; what a proof by hand would need of
   `find_fit`, that the blocks it has been past (`Passed`) grow with every
   iteration, could be stated and proved as an action property.
