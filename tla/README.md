# TLA+ verification of perfsim

This directory models the CPU and memory simulator of this repository (`src/`, `include/`), its trace
reader and writer, its JSON and configuration, its command line, its workloads (as traces and as native
kernels), the sweeps of its experiment scripts and its hardware-counter tool in TLA+; checks the models with
TLC; and proves theorems about the cache, the hierarchy, the CPU, the simulator, the configuration, the sweeps
and the counter tool with TLAPS.
`PROJECT.json` lists components, runs, mutants, the map from definitions to source lines, hazards, findings
and theorems.

    tlc -workers 2 -config MCCpu_mshrs.cfg MCCpu.tla      # one run
    tlapm CpuProofs.tla                                    # one module of proofs

Paths below are relative to the root of the repository.

## 1. The system

A trace (records `N n`, `R a`, `W a`, `L a`) is streamed through a CPU timing model that calls a memory
hierarchy. When it ends, the counters are turned into metrics and a bottleneck verdict. Everything in the
simulator is sequential: components call each other and share no state. Concurrency and failure are in
what surrounds it: the experiment scripts, whose threads run simulations and share trace files, tracegen and
perfsim, whose files may fail to open or to be written, and perfcount, which forks.

| component | state | operations | hard behaviour | what makes it correct |
|---|---|---|---|---|
| Cache (`src/cache.cpp`) | tags, timestamps, dirty bits per way; a clock; statistics | `access`, `install_writeback` | long sequences of calls; the all-ones tag as "empty"; timestamps in place of a recency list | one copy of a line; exact LRU; a dirty line leaves only by a write-back; statistics balance; more ways are never worse |
| Memory, hierarchy (`src/memory.cpp`) | L1, optional L2, the cycle at which the bus is free, counters | `access`, `read`, `write`, `writeback_from_l1` | one access may cause two write-backs at two levels; requests reach the bus out of time order; write-backs are waited for by nobody | no store is lost between levels; traffic balances; the bus carries one line at a time; latency covers the queue |
| CPU (`src/cpu.cpp`) | fixed-point issue debt, min-heap of MSHRs, stall buckets | `compute`, `access`, `drain` | which MSHR a miss takes; stalls split by an older fill's queue share; the tail at drain; the 64-bit debt | cycles are partitioned; overlap never hurts; no more misses overlap than MSHRs; more MSHRs are never slower for the same misses; a dependent chain is serial; issue is exact |
| Simulator (`src/simulator.cpp`) | the two above | `execute`, `finish`, `classify_bottleneck` | two sets of counters for the same events; ratios of empty runs | the counters agree; the verdict names something that happened |
| Trace reader (`src/trace.cpp`) | 1 MiB buffer, position, line number, end-of-file flag | `next`, `ensure`, `skip_comment` | buffer boundaries and short reads anywhere; comments longer than the buffer; no final newline | the records are those of the lines of the file; errors name the right line; the reader ends |
| Workloads and tracegen (`workloads/`), trace writer (`src/trace.cpp`) | arguments read so far; buffer, file, exit status | the argument loop, five kernels as traces and natively, `emit`, `flush`, `close`, destructor | every kernel written twice; a single cycle for every seed; tiles at the edge; writes that fail half way while an exception unwinds | exit status 0 means a complete trace of what was asked for; the trace makes the accesses of the native kernel; the product is a product |
| Experiment scripts (`experiments/perfsim.py`, `run_experiments.py`) | trace file, stamp file, a pool of threads, temporary configurations, futures, the table | `ensure_trace`, `simulate`, `run_sweep`, `write_table` | crashes and failures between any two file operations; edits of the workload; threads sharing files; one run failing while others are at work | every run reads the whole trace that is wanted; a table has every row of its plan; a sweep ends |
| JSON (`src/json.cpp`) | position in a text | `parse`, `dump`, `set` | nesting, separators, escapes, keys given twice | a text is understood as what it means or refused; what is written can be read back |
| Command line (`src/main.cpp`) | options, results, stdout, the results file | the argument loop, configure, simulate, report, write | report and results may share stdout; any file may fail to open | the exit status tells whether the results are there |
| Configuration and sweeps (`src/config.cpp`, `experiments/perfsim.py`) | a base document shared by the points of a sweep; `Config` | `with_overrides`, `from_json`, `to_json` | a set count that is only implied by divisibility; numbers that do not fit; points that leak into each other | what is accepted can be built, is the machine asked for, and survives the results file |
| perfcount (`tools/perfcount.cpp`) | parent, child, pipe, counters | fork, arm, release, exec, wait, read | interleaving of two processes; either killed | values cover the command; nobody waits forever |
| Report (`src/report.cpp`), analysis, validation, plots | none | formatting | | not modelled |

Interactions: `Simulator::execute` calls `Cpu`, which calls `MemoryHierarchy::access` at its current
cycle, which calls `Cache::access`, `Cache::install_writeback`, `Memory::read` and `Memory::write`. The
outcome (level, latency, queue delay) comes back to the CPU. The reader feeds `execute`. `main` reads a
configuration through `Json` and `Config`, runs the simulator and writes results through `Json`. The scripts
call `tracegen` and `perfsim` as processes, hand them the trace and the configuration by file name and read the
results from perfsim's standard output with Python's JSON reader.

## 2. The modules

Sequential classes are modelled twice: an *Ops* module has the object as a record and its methods as
operators on that record (`Access(c, address, isWrite)` returns the new object and what the method
returned), and a second module has the object as a VARIABLE and one action per method. The composition
then uses the same operators: `HierarchyOps` has two instances of `CacheOps`, and `Simulator` extends
`CpuOps` and `HierarchyOps`.

| module | models | state and actions |
|---|---|---|
| `CacheOps` | class Cache | record `rows`, `tick`, `stats`; `FindWay`, `SelectVictim`, `Touch`, `Replace`, `Access`, `InstallWriteback` |
| `Cache` | a cache under any calls | `cache`, `result`; `DemandAccess`, `IncomingWriteback` |
| `LruCache` | abstract: per set a recency list of lines | implemented by `Cache` (`ImplementsLru`) |
| `CacheInclusion` | `Cache` next to one with fewer ways under the same calls | adds `smaller`; `BothAccess`, `BothInstall` |
| `HierarchyOps` | classes Memory and MemoryHierarchy | records; `MemoryRead`, `MemoryWrite`, `Fill`, `WritebackFromL1`, `HierarchyAccess` |
| `Hierarchy` | the hierarchy under any loads and stores at cycles that do not decrease | `hierarchy`, `outcome`, `now`, history `stored`; `Access` |
| `CpuOps` | class Cpu | record `stats`, `debt`, `mshrs`; `Issue`, `BeginAccess`, `FinishAccess`, `SiftDown`, `WaitFor`, `StallSplit`, `Drain` |
| `Cpu` | the CPU with any outcome from the hierarchy | `cpu`, `drained`, history `queued`; `Compute`, `MemoryAccess`, `Finish` |
| `CpuOverlap` | `Cpu` next to one with fewer MSHRs, the same records and outcomes | adds `fewer`; `BothCompute`, `BothMemoryAccess`, `BothFinish` |
| `MshrFile` | abstract: a bag of MSHRs and an exact clock; a miss takes one that frees up soonest and starts at the very cycle at which it has issued and that one is free | `now`, `owed`, `file`, `drained`; implemented by `Cpu` (`ImplementsMshrFile`) |
| `Simulator` | CPU over the real hierarchy, any trace, the verdict | `cpu`, `hierarchy`, `bottleneck`, history `call`, `queued`; `Compute`, `Memory`, `Finish`; implements `Cpu` and `Hierarchy` |
| `TraceReader` | class TraceReader over kinds of bytes | `rest`, `window`, `exhausted`, `line`, `phase`, history `records`; `NextTurn`, `CommentTurn` |
| `Workloads` | the five kernels, twice | operators: what a job emits (`Emission`) and what its native kernel does (`Native`); `ChasePermutation`, `LayoutFor`, `Visits`, `MatrixBody`, `NativeBody`, `Accumulate` |
| `Tracegen` | tracegen in both modes with its TraceWriter | `rest`, `job`, `todo`, `buffer`, `file`, `printed`, `status`; `Argument`, `Reject`, `RunNative`, `Open`, `Emit`, `Finish`, `FinishThrows`, `Destroy`, `DestroyThrows` |
| `Config` | a sweep over a preset, `from_json`, `to_json`, the digits `append_number` prints, and the results read again | `base`, `point`, `root`, `config`, `status`; `Point`, `UnknownKnob`, `FromJson`, `Report`, `ReadBack` |
| `Json` | class Json, its parser and printer | operators: `ParseValue`, `ParseFields`, `ParseElements`, `ParseCharacters`, `Set`, `DumpTo` |
| `JsonTexts` | reference: what a JSON text means | operators: `Meanings` cuts a text at its brackets, commas and colons in every way |
| `Perfsim` | one run of the perfsim executable | `words`, `options`, `place`, `results`, `stdout`, `file`, `status`; `Argument`, `EndArguments`, `Configure`, `Simulate`, `Report`, `WriteJson` |
| `Experiments` | a sweep of a script, and scripts one after the other | `workloads`, `wanted`, `trace`, `stamp`, `pc` of each thread, `futures`, `job`, `config`, `table`; one action per file operation or process |
| `Perfcount` | parent and child | `parent`, `child`, `pipe`, `writers`, `counter`; one action per system call |
| `CacheProofs`, `HierarchyProofs`, `CpuOpsProofs`, `CpuProofs`, `SimulatorProofs`, `InputProofs` (`Config` and `TraceReader`), `ExperimentsProofs` (with `Perfcount`), `TracegenProofs` | lemmas and theorems | |
| `MC*` | instances for TLC | |

Modules have a few operators marked `Mutant`: a plausible bug in the operator that follows.
`PROJECT.json` pairs each with the property that catches it.

Abstractions worth knowing:

- the tag arrays are grouped by set; `set_mask_` and the modulo agree for powers of two, so `SetIndex`
  is the modulo;
- the bus clock is a double in the code and a whole number of `1/SubCycle` cycles in the model, so the
  rounding of `llround` is modelled and the rounding of doubles is not;
- the queue fraction of an MSHR is kept as the two integers it is computed from;
- `std::sort` in `drain` leaves entries that complete together in any order: `Finish` takes any order;
- a hierarchy without an L2 (`has_l2` is FALSE) still has an `l2` in its record, which stays empty;
- a trace operand is its radix and number of digits: enough to see one cut short;
- a record in the writer's buffer is one item: a write that fails half way cuts between records;
- the random numbers of a workload are any sequence of draws, so a property that holds holds for every seed;
  the sums of the native kernels do not wrap;
- a configuration in `Config` is a function from sections and keys to values; a number is counted in halves,
  which is enough to tell whole numbers from others, and integers have `WordBits` bits. `TenDigits` are the numbers
  that `%.10g` prints as they are, and any other is printed as the nearest of them; whole numbers below `WholeLimit` (10^15)
  are printed exactly, and what is printed beyond `LargestDouble` reads as infinite;
- the path after `--out` is kept for what depends on it: standard output (`-`, the default) cannot fail to open;
- a text in `Json` is a sequence of items: a structural character, a blank, a character of a string, or a whole
  numeral or literal. `WellSplit` leaves out texts whose items would run together. A number is its
  shortest numeral, and `Printed` says which numeral `append_number` makes of it. Indentation is left out;
- in `Perfsim` the simulation is an outcome: `Accepts` says which documents `Config` accepts, and a trace is
  well-formed, malformed or missing. What `Config`, `TraceReader` and `Simulator` establish is not repeated;
- in `Experiments` a file is what was written to it and whether that was all; configuration files that a crash
  leaves behind are forgotten, since mkstemp never gives their names again;
- texts of errors and suggestions, and the derived ratios of the results, are left out.

## 3. The runs

`pass` runs complete without error; `violation` runs end in the counterexample described.

| run | question | instance | distinct states |
|---|---|---|---|
| `cache_sets` | does every order of calls keep a cache consistent and LRU, and never worse than one with fewer ways? | 2 sets of 3 ways next to 2 sets of 2, 4 lines competing for one set and one elsewhere, 5 calls | 185 760 |
| `hierarchy_levels` | is anything lost, counted twice or carried twice between levels? | with and without L2, L2 lines twice as long, 2 ways each, gaps of 0 and 5 cycles, transfers of 2.5 cycles, 5 accesses | 237 418 |
| `cpu_mshrs` | is CPU time accounted exactly, is the heap an MSHR file, and does an MSHR more ever hurt? | 3 MSHRs next to 2, a CPI of 1/4, hits and misses of four kinds, 6 instructions, end anywhere | 250 453 |
| `simulator_mixed` | do CPU, hierarchy and verdict agree? | with and without L2, all kinds of records over 3 lines, 5 instructions | 109 994 |
| `reader_compact` | does buffering change what is parsed? | all files of 3 lines of 6 kinds, look-ahead 8, buffer 9, any division into reads | 5 719 |
| `experiments_sweep` | do crashes, failures and edits leave stale traces in use, wrong rows in a table, or a script waiting? | 3 parameter sets edited forwards, a plan of 3 runs, 2 threads, crash or failure anywhere | 57 642 |
| `perfcount_kills` | does the handshake hold when either process dies? | 3 counters, both may be killed anywhere | 598 |
| `tracegen_jobs` | is a trace that tracegen reports as written complete, what was asked for, and that of the native kernel? | dimensions up to 4, all blocks, every permutation of the chase, both modes, command lines of three odd arguments, a buffer of 5 records, opens and writes that fail, traces to a file and to stdout | 50 091 |
| `config_sweeps` | is every accepted configuration usable, and the one that was asked for? | 775 documents, every geometry of 9 sizes, 6 line sizes and 5 associativities, 7 sets of overrides in any order, numbers printed with two binary digits for the ten decimal ones | 40 117 |
| `perfsim_process` | are configurations understood, can results be read back, does the exit status tell the truth? | every text that is a document or one item away from one, every command line of up to three options, files that are missing, malformed or cannot be opened | 243 362 |
| `reader_blanks` (violation) | is a whole record buffered when it is parsed? | all files of 7 records and empty lines | |
| `experiments_back` (violation) | is the stamp enough when parameters are edited back? | as `experiments_sweep`, a plan of one run, edits in any direction | |

Properties, by the hazard they are for:

- *Cache.* `UniqueResidency`, `TimestampOrder`: the first match and the oldest way are the only ones.
  `DirtyLeavesByWriteback`, `StatsAccount`: what the next level must receive. `ImplementsLru`: refinement.
  `Inclusion`: the stack property the sweeps over associativity rely on.
- *Hierarchy.* `NoStoreLost`: with the history `stored`, a line that was stored to becomes clean
  everywhere only with a DRAM write of its own, also when L2 evicts a line L1 still holds.
  `TrafficConserved`, `BusSerialised`.
- *CPU.* `StallPartition`, `IssueExact`, `HeapOrder`, `OverlapOnlyHelps`, `DependentChainSerial`,
  `BandwidthIsQueueing`. `ImplementsMshrFile`: cycles, debt and entries are those of a file of MSHRs without a heap, record
  by record, so a wait that is a cycle too long or charged twice is a violation. `MoreMshrsNeverSlower` compares two machines record by record:
  what the sweep over `cpu.mshrs` and the verdict's advice to increase it rely on.
- *Simulator.* `LatencyAccounted`: two components tell one story.
  `ReadsWithinBandwidth`: demand reads never exceed the bus, whatever write-backs are in front of them.
  `VerdictHasCause`. `ImplementsCpu`, `ImplementsHierarchy`: what was checked of a component against any
  environment holds in the composition.
- *Reader.* `FaithfulParse` against a definition of the file by its lines, each known by the place of its first byte;
  `Terminates`.
- *Experiments.* `SimulatesWanted`: every run reads the whole trace of the wanted parameters. `TableIsThePlan`:
  a complete table has one row per run, each of its own configuration. `SweepEnds`: a failing run does not leave
  the script waiting.
- *tracegen.* `SuccessIsComplete` against what the command line asks for; `TraceIsKernel`: the trace makes the
  accesses of the native kernel, over arrays that share no page; `ChaseIsOneCycle`; `MatrixIsProduct`: the
  checksum is that of the product, whatever the tiles.
- *JSON and command line.* `TextUnderstood` compares the parser with `JsonTexts`; `ResultsReadBack`: what the
  scripts read is what was written; `OutputsMatchStatus`.
- *Configuration.* `AcceptedIsBuildable` is what the other modules assume of their constants;
  `MachineIsThePoint`. `ReportedIsTheMachine`: the configuration in the results, printed and read again, is that machine;
  a double may lose digits, but rounding takes none out of the accepted range unless it is as large as the largest.
- *perfcount.* `ValueCoversCommand`, `NobodyWaitsForever`.

### Why the bounds are enough

A set is independent of the others but for the clock, so one crowded set and one other line are enough
for sharing. Three ways are the least with a victim that is neither the newest nor the next; four lines
overflow them. Two ways at both levels are the least with which L2 evicts a line L1 still holds. Three
MSHRs are the least for which the heap has two children to choose between; a sift of two levels needs
four, and `HeapStaysOrdered` proves it for all. Six instructions fill three MSHRs, wait for one, and wait
again. The look-ahead and the buffer of the reader have the proportions that matter (a record fits the
look-ahead, a comment does not fit the buffer, and the buffer is one byte longer than the look-ahead, so
every refill has little room); values of 40 bytes and 1 MiB would only make the same boundaries rarer. The
sweep has one workload because workloads share no file, more runs than threads so that a thread
comes back for a second run while the other is at work, and three parameter sets so that an edit can come between a crash
and the next script; `ExperimentsProofs` has any number of each. What the caches, the CPU, the simulator and the
configuration owe to the sizes of their instances, section 4 removes. Tracegen's sizes
are the least with a block that divides n, one that does not, one that exceeds it, and a chase with more
than one permutation; a page is smaller than the arrays, as it is for real matrices. The texts of
`perfsim_process` contain every kind of value in every container and each text is damaged in one place in every way. The geometries of the
sweeps contain every way in which a check can fail on its own, and doubles that rounding leaves alone, moves to the bound of the CPI and
carries beyond the largest. Bounds that exist only for TLC are
`MaxTick`, `MaxAccesses`, `MaxInstructions`, `MaxQueue` and `MaxGap`; the last two bound the environments of
the refinement and are larger than what the instance reaches.

### Deadlock and fairness

`Experiments` is checked for deadlock: a script can always be started again. The other configurations say
`CHECK_DEADLOCK FALSE`: a trace, a file, a process, a measurement or a sweep ends, or the bound on the
number of calls is reached. Where waiting is the question, liveness is checked instead.

Fairness is assumed in three modules. `TraceReader`: `WF_readerVars(ReaderNext)`, a single-threaded loop that goes on
while it can, with a file that delivers. `Perfcount`: `WF_vars(ParentStep)` and `WF_vars(ChildStep)`, the
operating system schedules both processes and the measured command ends; nothing is assumed of kills.
`Experiments`: `WF_vars(MainStep)` and `WF_vars(WorkerStep(w))` for each thread, threads are scheduled and the
processes they wait for end; nothing is assumed of crashes, failures, edits or of a script being started. The
other modules state safety only.

## 4. The proofs

Every listed theorem is about the specification that the runs check, for all values of its constants that
satisfy the module's assumptions, and for behaviours of every length. The assumptions (`CacheAssumption`,
`HierarchyAssumption`, `CpuAssumption`, `ExperimentsAssumption`, `PerfcountAssumption`, `ReaderAssumption`, `TraceAssumption` and the
`DriverAssumption`s) are what `config.cpp:73-157` guarantees of geometries and latencies, and less. `Config`
assumes that its defaults are a machine (`DefaultAssumption`, which TLC evaluates for the defaults of `config.hpp`)
and names the largest word as a number because the provers do not compute powers.

| module | theorem | statement |
|---|---|---|
| `CacheProofs` | `TypeCorrect` | `Spec => []TypeOK` |
| | `ResidencyUnique` | `Spec => []UniqueResidency` |
| | `TimestampsOrdered` | `Spec => []TimestampOrder` |
| | `DirtyNeverDropped` | `Spec => DirtyLeavesByWriteback` |
| | `StatisticsAccount` | `Spec => []StatsAccount` |
| | `MoreWaysHoldMore` | `BothSpec => []Inclusion` |
| | `ImplementsExactLru` | `Spec => ImplementsLru` |
| `HierarchyProofs` | `TrafficBalances` | `Spec => []TrafficConserved` |
| | `BusCarriesOneLine` | `Spec => []BusSerialised` |
| | `StoresReachMemory` | if L2 lines hold whole L1 lines, `Spec => NoStoreLost` |
| `CpuProofs` | `CyclesPartitioned` | `Spec => []StallPartition` |
| | `IssueIsExact` | `Spec => [](NoWrap => IssueExact)` |
| | `HeapStaysOrdered` | `Spec => []HeapOrder` |
| | `ChainIsSerial` | `Spec => []DependentChainSerial` |
| | `AccountsInOrder` | `Spec => []Accounts`, an invariant of the proofs |
| | `BandwidthWasQueued` | `Spec => []BandwidthIsQueueing` |
| | `OverlapHelps` | `Spec => []OverlapOnlyHelps` |
| | `MoreMshrsHelp` | `BothSpec => []MoreMshrsNeverSlower` |
| | `HeapIsMshrFile` | if `NoWrap`, `Spec => ImplementsMshrFile` |
| `SimulatorProofs` | `LatencyIsAccounted` | `Spec => []LatencyAccounted` |
| | `ReadsFitBandwidth` | `Spec => []ReadsWithinBandwidth` |
| | `VerdictIsFounded` | `Spec => []VerdictHasCause` |
| | `SimulatorImplementsCpu` | `Spec /\ []QueueBounded => ImplementsCpu` |
| `InputProofs` | `AcceptedCanBeBuilt` | `Spec => []AcceptedIsBuildable` |
| | `SimulatesThePoint` | `Spec => []MachineIsThePoint` |
| | `ResultsReadAgain` | `Spec => ReportedIsTheMachine` |
| | `ParseIsFaithful` | if every file satisfies `FitsLookAhead`, `ReaderSpec => []FaithfulParse` |
| `ExperimentsProofs` | `WantedIsSimulated` | `Spec => [](ForwardEdits => SimulatesWanted)` |
| | `TablesAreThePlan` | `Spec => [](ForwardEdits => TableIsThePlan)` |
| | `ValuesCoverCommand` | `PerfcountSpec => []ValueCoversCommand` |
| `TracegenProofs` | `SuccessMeansComplete` | if `"close" \notin Failures`, `Spec => []SuccessIsComplete` |
| | `TracesAreKernels` | under the same condition, `Spec => []TraceIsKernel` |
| | `ChasesAreOneCycle` | under the same condition, `Spec => []ChaseIsOneCycle` |
| | `MatricesAreProducts` | `Spec => []MatrixIsProduct` |

Each module but `CpuOpsProofs`, which has the lemmas on the operations of the CPU, has an inductive
invariant `Inv`, and further ones where a theorem needs more.

*Cache.* `Inv` is `WellFormed(cache) /\ result \in CacheResult`, where `WellFormed` joins the type, `UniqueLines`,
`OrderedTimestamps` and `RealLines`. None of these is inductive alone. A miss keeps a line unique only
because the lookup looked at the one set of the line; the new timestamp is unique only because the clock
is ahead of every timestamp; an empty way is not mistaken for a line only because every tag is the line of
a real address and so, with lines of at least 4 bytes, below the sentinel (`LineIsReal`). The argument is
on values and not on behaviours: `FindWayFinds` and `VictimIsOldest` say
what the searches return; `TouchKeepsWellFormed` and `ReplaceKeepsWellFormed` treat the two tails of an
operation, `TouchPreserves` and `ReplacePreserves` what they do to dirty lines; `AccessCorrect` and
`InstallCorrect` put them together.
`StatisticsAccount` adds to this `Accounted`, which is about all calls and not the last: lines in the cache are no more
than there were misses and write-backs received, and what was written back or is still dirty no more than the calls. The
sets in question change by one element in and at most one out (`OneInOneOut`).
`MoreWaysHoldMore` needs more than inclusion: every line of the smaller cache is in the larger one with the same
timestamp (`Covers`), and until a set of the smaller one is full it has all that the larger one has (`Complete`).
Then the victim of the larger set is either not in the smaller one or its victim as well (`StepKeepsCovers`).
`ImplementsExactLru` maps timestamps to positions. The position of a way in its recency list is its `Rank`, one more than the
number of filled ways with a newer timestamp; ranks of filled ways are exactly the numbers up to their number (`RanksAreNumbers`), so
the list has one line at each place (`RecencyIs`, `RecencyIsOnly`). A reference gives one way the newest timestamp:
the ranks of the newer ways rise by one and the others stay (`RenewedRanks`), which is what moving to the front does to
a list (`MovesToFront`). `HitPromotes` and `MissReplaces` say so of hit and miss, with what is answered.

*Hierarchy.* The first two theorems are independent of what the caches hold: a hit evicts nothing, and a miss counts one
miss and at most one write-back, whichever lines these are (`L1AccessCounts`, `L2AccessCounts`, `L2InstallCounts`).
The bus needs that every request of an access arrives no later than the access and both lookups, so that a
transfer that found the bus idle started before that (`ReadSerialised` and its companions).
`StoresReachMemory` is about what they hold. Its invariant `Owed` says that a line stored to and not yet written to DRAM
is dirty in L1 or in L2. What leaves L1 dirty is installed dirty in L2 (`L1Keeps`), and L2 gives up at most two dirty lines in
an access, one for each write that reaches DRAM (`Leaves`, `TwoLinesLeave`). The hypothesis, `Nested`, is
that the L2 line is a multiple of the L1 line; without it the statement is false (section 5, 7).

*CPU.* `CpuOpsProofs` says what each operation does to the counters: a stall adds to the cycles and to the
stall buckets alike, however it is split (`SplitIsStall`); what `drain` charges is one such stall, none if every fill
has completed (`TailIsStall`); `sift_down` restores the heap at any depth (`SiftDownRestores`) and loses no entry
(`SiftDownPermutes`). `Drain` and `SiftDown` are
recursive functions: `TailExists` and `PathExists` show that they exist, and what they compute is
reached through the least argument for which a statement would fail (`MinIsLeast`). Sums over the MSHRs are treated the
same way (`SumsExist`, `SumPick`). `Inv` has four of the properties and one more fact: no more loads are dependent
than there are accesses, without which a chain that
was broken could seem whole again. `NoWrap` says that no compute record makes the debt exceed its word; without it
`IssueExact` is false (section 5, 3).
`Accounts` is the invariant about the future: bandwidth stalls together with the queue delays of the entries
still outstanding, the only stalls yet to come, never exceed what was queued; and no fill is further away than its own
latency, so that the share of a wait never exceeds the queue delay of its entry (`QueuedShareIsBelow`). The latency of all misses
stays below the sum of the cycles at which the MSHRs free up, and that below the time of all MSHRs once `drain` has waited for
them.
`MoreMshrsHelp` compares two heaps of different sizes. Its invariant `Ahead` says that the larger machine is no later
and that the entries of the larger heap can be assigned to those of the smaller so that each of
the smaller has one that frees up no later (`OneEarlierEach`), and none of the larger frees up later than all of
the smaller (`NoneIsLast`). A miss replaces the two roots, which are least, and keeps both (`MissKeepsEarlier`, `MissKeepsLast`).
`HeapIsMshrFile` counts: the order of the heap makes no difference to its bag of entries (`PermutedIsSameBag`), and
replacing the root removes one entry from the bag and adds one (`ReplacedInBag`). The clock is exact: as long as the word
holds the debt (`NoWrap`), what `issue` pays is the quotient of debt and cycle and what it keeps the remainder (`PaymentIsExact`).

*Simulator.* `Inv` relates the two sets of counters (`Together`): both count the same accesses, the latency the CPU counts
is that of the levels that answered and of the queue delays, and the reads of DRAM end no later than the CPU's
clock and the fills it still waits for (`ReadsFit`). What a hierarchy answers is established once (`AccessAnswers`,
`AccessIsAnswered`): the outcome of the level that has the line, with the counters of the levels above it.
`VerdictHasCause` needs for each verdict what made its counter rise (`Caused`). `SimulatorImplementsCpu` is for
behaviours whose queue delays stay within `MaxQueue`, the largest that `Outcomes` of `CpuAlone` contains; then every
theorem on `Cpu` is one on the CPU inside the simulator.

*Configuration.* `Inv` says that the preset is untouched by the points made from it, and that an accepted
configuration is a machine (`IsMachine`) and the machine of its point; what was
accepted says nothing of the document any more once that is replaced by the results. `MachineIsBuildable` is the argument about
divisibility: a size that is a positive multiple of line size times ways is a whole number of full sets (`SetsFillCache`).
`RoundTrip` follows a configuration through `to_json` and `from_json`, with a level that is off, and `ResultsReadAgain` through
the text as well. The nearest number of ten digits has none of ten digits between itself and what is printed (`NearestExists`,
`NearestIsNeighbour`), so a bound that has ten digits, as that of the CPI and zero do, is not crossed
(`RoundedIsConfig`); whole numbers of a word are below `WholeLimit` and are printed as they are (`WholeIsExact`). What is printed reads as infinite
only when every number of ten digits from the double on is beyond the largest (`PrintedOverflows`).

*Reader.* A place in the file is the number of bytes parsed (`Place`), which is not a variable: the file less what
is buffered and what was not read yet. `Buffered` says that the buffer holds the bytes after that place and `rest` the bytes after those,
however short the reads were (`ReadOn`), and that nothing is left to read once `exhausted_` is set. `Parsing` says where the parser is: in `next` all
before the current line has been read and of this line only blanks (`InLine`), in `skip_comment` the line is a comment
(`InComment`), and the records are those of the lines before it, none of them malformed (`Lists`). Blanks and empty
lines advance it line by line (`BlanksPassed`, by induction on their number); a line that means nothing is passed
(`LinePassed`), one that holds a record adds it (`LineReturned`). What is buffered after the blanks goes beyond the line, but
no span crosses its end (`SpanInLine`), so the record is that of the line (`RecordOfLine`) as long as the whole line is
buffered with its newline (`LineIsBuffered`). This is where `FitsLookAhead` is needed: a line that is not a comment, with the
blanks and empty lines before it and its newline, is at most `MaxRecordBytes` long. Without it the statement is false (section 5, 1);
the files of `reader_compact` satisfy it (`MCCompactFit`, which TLC evaluates). Comments may be of any length. The theorem
is in `InputProofs`, and the names `ReaderInit`, `ReaderNext` and `ReaderSpec` keep the two specifications apart.

*Experiments.* `ForwardEdits` says that edits of the parameters lead through an order: no sequence of them leads
back (the edits of `experiments_sweep` do; without it `experiments_back` has the counterexample). `Inv` says that
the stamp is never ahead of the trace nor the trace ahead of the script, so that a stamp that matches
cannot vouch for anything else than a whole trace (`CachedIsGenerated`); that threads are at work only while the
main thread waits for them, hence find the trace generated (`PoolFindsTrace`); and that every thread has a run and a
file of its own, so that what is read is the configuration of the run (`OthersUndisturbed`, `FileIsOwn`).

*perfcount.* Counters are armed only while the child cannot have passed the pipe, and read only when it was waited
for. The theorem is in `ExperimentsProofs`, beside those on the scripts; the names `PerfcountInit`,
`PerfcountNext` and `PerfcountSpec` keep the two specifications apart.

*tracegen.* The invariant `Inductive` follows the program. While it reads its arguments (`Reading`), what it has made of
the parameters and what the rest of the command line makes of them (`AskedFor`) is what the whole command line asks for:
the reference reads the last value of an option, the loop overwrites earlier ones, and the two meet when nothing is left
(`AcceptedIsAsked`). While it emits (`Writing`), file, buffer and what is still to be emitted, joined, are the header and the
emission, whichever flushes there were; a flush that throws leads to no success. When it has succeeded (`Done`), all of that
is in the file, or the checksum of the native kernel is printed. What is left is about the workloads alone.
`WorkloadFaithful` says of each that the accesses of its emission are those of its native kernel (`IsTraceOf`); the layout
keeps the three arrays of the matrix kernel on pages of their own. `ChaseAccesses` rests on the shuffle: after every swap
each cycle has exactly one of the nodes that are still to be swapped (`OneEach`), whatever was drawn, so each swap joins two cycles
(`ShuffleJoinsAll`) and the walk from node 0 comes back after exactly `n` loads. `ChecksumIsProduct` turns the sum of C, which is built up
by one addition for each iteration of the loops over i and j, in the order of the loops, into one sum over all
multiplications (`ChecksumIsAdded`, `SummandsByVisit`), and that, since every index is in exactly one tile (`OneTile`) and also in the last one,
which may be smaller, into `iterations` times the sum over all i, k and j (`SummandsByIteration`). The order of the loops
goes through every iteration once (`OrderType`), and a sum over a finite set may be taken in any order and part by part (`SumReindexed`,
`SumOfParts`).
Three of the theorems have the hypothesis that `fclose` does not fail. The code ignores its result, and without the hypothesis they
are false (section 5, 10). `MatricesAreProducts` needs none. `ArgumentsAssumption`, `DefaultsAssumption` and
`DrawsAssumption` say that strtoull and `next_random` return natural numbers and that the parameters start as `struct Params` does.

Recursive functions (`FlattenSeq`, folds, the shuffle, `Drain`, `SiftDown`) are proved about without an induction theorem
on an operator: that a function with the recursive equation exists is shown for the functions up to each number, and what it computes
through the least argument at which it would be wrong, which would follow one at which it is right (`LeastExists`,
`InductionByRemoval`).

Only model-checked:

- the liveness properties `Terminates`, `SweepEnds` and `NobodyWaitsForever`, which are out of the prover's reach;
- `ImplementsHierarchy`: its mapping of the history `stored` is right only when the addresses of a trace are
  one per line, as in the instances;
- `TextUnderstood`, `ResultsReadBack` and `OutputsMatchStatus`: `Json`, `JsonTexts` and `Perfsim` use recursive
  operators and cannot have theorems.

## 5. Where code and documentation disagree

With a run of their own (`findings` in `PROJECT.json`):

1. *Blank lines use up the look-ahead* (`reader_blanks`, `src/trace.cpp:98`). `next` makes sure of 40 bytes and
   then skips blanks and empty lines, so the buffer may end inside the record behind them, and what `src/trace.cpp:88-89`
   says, that a whole record is present unless the file has ended, is not so. In the counterexample to `WholeRecordPresent` six empty
   lines leave the type of the record and the blank after it in a buffer of nine bytes; the operand is in the file, but the
   record is rejected because it "is missing its operand". Cut further on, the record is returned with the digits that are
   there and what is left of its line is parsed as another line. A file with blank lines around the 1 MiB boundary shows it.
   `reader_compact` therefore has no two empty lines in a row; there the reader is faithful, and `ParseIsFaithful`
   says of which files this is true in general.
2. *An old stamp vouches for a new, partial trace* (`experiments_back`, `experiments/perfsim.py:106`). Edit
   the parameters, interrupt the regeneration, edit them back: the stamp matches, the trace is truncated.
   `experiments_sweep` shows that this takes an edit back: with parameters that only move forward, crashes
   do no harm.

Seen while modelling, without a run of their own:

3. *The issue debt wraps* (`src/cpu.cpp:51`, against `include/cpu.hpp:79-81`). The product of the instructions
   of a compute record and the scaled CPI is taken modulo 2^64. At a CPI of 1, `N 4294967296` costs 0
   cycles. With `WordSize = 4` in its configuration, TLC finds `IssueExact` violated; the word of
   `cpu_mshrs` is long enough.
4. *perfcount is ended by SIGPIPE* (`tools/perfcount.cpp:153`) when its child is gone before it is released:
   `BrokenPipe` happens in `perfcount_kills`, and the error path after the write is never reached.
5. *Which MSHR matters* (`src/cpu.cpp:82`, against `include/cpu.hpp:96-97`). Two entries that free up at the
   same cycle may carry different queue fractions; the one at the root decides how a wait is split between
   the mshr and bandwidth buckets. Totals do not depend on it: the cycles are those
   of `MshrFile`, which knows no split. No property says which split is right.
6. *The bus is booked before the MSHR is held* (`src/cpu.cpp:65`, against `README.md:202-203`). A miss that finds
   every MSHR busy accesses DRAM at its issue cycle and then waits; the queue delay computed at issue is paid
   after that wait. With given outcomes an MSHR more is never slower (`MoreMshrsNeverSlower`); over the real
   hierarchy it can be: five misses to alternating lines on the machine of `simulator_mixed` without L2 take 33 cycles with one
   MSHR and 35 with two. The advice of `src/simulator.cpp:115` to increase `cpu.mshrs` can therefore cost cycles.
7. *L2 lines shorter than L1 lines lose stores* (`src/memory.cpp:54`). `read_cache` accepts such a
   configuration; a dirty L1 line is installed as one L2 line and its other part is never written to DRAM.
   With `L1LineSize = 8` and `L2LineSize = 4`, TLC finds `NoStoreLost` violated. `hierarchy_levels` has wider L2
   lines, `simulator_mixed` equal ones, and `StoresReachMemory` is the proof for all L2 lines that are multiples of L1 lines.
8. *A dependent chain can be called bandwidth bound* (`src/simulator.cpp:79`, against
   `tests/test_cpu.cpp:152-153`) when one transfer takes nearly as long as one access: more than 80 per cent
   utilisation, no queueing.
9. *Write-backs are free* (`src/memory.cpp:34`). Stores that hit L2 and cause DRAM writes are never
   delayed, so a run may carry any multiple of the configured bandwidth; README.md:187-190 can be read either
   way. `ReadsWithinBandwidth` is what does hold.
10. *A failing fclose is ignored* (`src/trace.cpp:224`). `tracegen sequential --n 4 --out /dev/full` exits with 0
    although nothing was written; `ensure_trace` would write the stamp. With `"close"` in `Failures`, TLC finds
    `SuccessIsComplete` violated.
11. *A failing write may abort tracegen* (`src/trace.cpp:189`). The destructor flushes again while the exception of
    the first flush is on its way; a second exception ends the process (`DestroyThrows`), and the error message
    and exit status 1 of `workloads/main.cpp:130-133` are not reached. No such path ends in success.
12. *A name of a trace may make results that cannot be read* (`src/json.cpp:149`). `append_escaped` escapes quotes,
   backslashes, newlines, carriage returns and tabs and writes every other control character as it is, which Python's json refuses.
   `ResultsReadBack` leaves such names out.
13. *Numbers lose digits on the way out* (`src/json.cpp:179`; `ReportedIsTheMachine` says what becomes of a configuration). A number that is no integer, or one from 10^15 on, is
   printed with `%.10g`, ten digits: a configuration read back from the results may differ from the one that was
   simulated, and a seed that large, printed by native tracegen, is another seed. `ResultsReadBack` compares with the
   numbers as printed. A frequency or bandwidth from 1.7976931345e308 on is printed as
   a number that `strtod` reads as infinite, and those results are refused as a configuration. `strtod` also takes `inf`; the checks of `Config` refuse it.
14. *A write that fails after the results file was opened is not noticed* (`src/main.cpp:117`): `perfsim --json /dev/full` exits with 0.
   With `"full"` among the disks of a scenario TLC finds `OutputsMatchStatus` violated.
15. *A table may be cut short* (`experiments/perfsim.py:163-173`): the old table is truncated before the new one is written, so
   a crash in between leaves a part of the new one under the old name. `TableIsThePlan` speaks of complete tables.

## 6. Plan

Done, in this order: `CacheOps`, `Cache`, `LruCache`, `CacheInclusion` and their proofs; `HierarchyOps`,
`Hierarchy`; `CpuOps`, `Cpu`, `MshrFile`; `Simulator`; `TraceReader`; the trace cache; `Perfcount`; `Workloads`,
`Tracegen`; `Config`; `Json`, `JsonTexts`, `Perfsim`; the trace cache replaced by `Experiments`; native kernels in `Workloads`; `CpuOverlap`;
the proofs about perfcount, hierarchy, CPU and experiments; the proofs of the other cache, CPU and hierarchy
properties, of the refinements of `LruCache` and `MshrFile`, and of simulator and configuration; the proofs about tracegen and
its five workloads; the proof about the reader.

Left to model:

- A composition of `Tracegen` and `TraceReader` over bytes: what a writer has written the reader returns,
  numbers included.
- `CpuOverlap` over the real hierarchy, to say for which traces an MSHR more costs cycles.

Left to prove:

- `ImplementsHierarchy`, for traces with one address per line.
- `SimulatorImplementsCpu` without `QueueBounded`, with the outcomes of `CpuAlone` in place of its bound for TLC.

## 7. Not modelled

- `src/report.cpp` formats numbers that `Simulator` has; it keeps no state and decides nothing. Its place in the output
  is in `Perfsim`.
- `experiments/analyze.py`, `validate.py`, `benchmark.py` and `plot.py` tabulate and draw; what they share with the sweeps is
  in `Experiments`. The contents of a row beyond whose run it is, too.
- Tests and committed results are used as documentation.
- Floating-point rounding of the bus clock beyond `1/SubCycle`, delays beyond 2^63 cycles (`llround`), and a trace
  value of more than 64 bits are outside the models.
- Two scripts at once on the same trace directory are outside `Experiments`: nothing in the repository runs them so,
  and both would write the same file.
