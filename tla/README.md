# A TLA+ model of the Firefly runtimes

Firefly compiles BEAM languages to native code and WebAssembly. The compiler is
sequential; what is hard to get right is the runtime that the compiled program
is linked with: it schedules many processes on one thread, lets them
wait, wakes them by messages and timers, spreads their exits along links and
monitors, gives them names and identifiers, and manages their memory. This
project models that runtime, checks it with TLC and proves its central
properties with TLAPS.

There are two generations of runtimes in the repository. `liblumen_alloc`,
`runtimes/core`, `runtimes/full`, `runtimes/minimal` and `native_implemented`
are the more complete one, which the Cargo workspace now excludes. `library/rt` with
`runtimes/tiny` is the one that the current compiler links against; it spawns only
the init process so far. Every `main` starts one scheduler thread, so the models of
processes have one: processes, timers and signals interleave at the points where
the thread switches between them, not between any two instructions. The allocators
are written for several threads (atomics, reader-writer locks), and their models have
several.

## Inventory

| Part | State | Operations | What is hard |
|---|---|---|---|
| timers (`core/src/timer.rs`) | two wheels of slots, two more slots, a table of the timers by reference | start, cancel, timeout (one tick after the other) | boundaries between wheels, timeout that comes late, cancel against transfer |
| run queues (`core/src/scheduler/run_queue.rs`) | processes that wait; queues normal/low (with delays), high, max | enqueue, dequeue, requeue, stop_waiting | a process lost or queued twice, low processes starved |
| scheduler loop (`full`, `minimal` `scheduler.rs`) | current process, the point in run_once | timeout, dequeue, run, requeue, propagate exit | exits and wake-ups at every point of the loop |
| process (`liblumen_alloc/src/erts/process.rs`) | status, priority, tables of links and monitors, flags, mailbox | run, wait, stop_waiting, exit, link, monitor, ... | two processes change each other's state |
| exit signals (`core/src/process.rs`, `process/monitor.rs`) | the entries still to be visited | DOWN and EXIT messages, exits of linked processes | the tables change while signals are on their way; locks |
| receive (`minimal/src/builtins/receive.rs`) | context: cursor, deadline, timer | start, next, pop, done | message against timeout, suspended with a cursor, timers left behind |
| mailbox, send (`process/mailbox.rs`, `core/src/send.rs`) | list of messages | push, cursor, remove, flush; to a pid or a name | pointers into the list; wakes the receiver |
| name registry (`core/src/registry.rs`) | names to weak references, the name each process keeps | register, unregister, lookup | processes that exit while registered |
| pids (`erts/term/pid.rs`) | counter, table of the pids | next, put | overflow of the number, exhaustion |
| tiny scheduler (`tiny/src/scheduler`) | two-part run queue, current and previous process | spawn init, yield, exit | the switch to and from the root process |
| block carriers (`carriers/multi_block.rs`, `blocks/*`) | headers, flags, footers, trees of free blocks | alloc, free, realloc with split and coalesce | neighbours that must agree |
| slabs (`carriers/slab.rs`, `blocks/block_bit_set.rs`) | vector of atomic words | alloc by load and compare-exchange, free | threads between load and exchange |
| size classes, segmented allocator (`size_class_alloc.rs`, `segmented_alloc.rs`) | lists of carriers under reader-writer locks | allocate, reallocate, deallocate, drop | locks dropped and taken again; routing by the caller's layout |
| garbage collector (`process/gc/*`, `process/alloc/*`) | young and old heap, fragments, move markers, virtual binary heaps | minor collection, full sweep | sharing, tenuring, references between generations |
| heap sizes (`process/heap.rs`) | words in each heap, counters, flags | allocate, collect_full, collect_minor | estimates that must hold for the worst case |
| compiler (`compiler/*`), libraries (`library/*`) | sequential | | large data |

PROJECT.json lists every part with what is modelled of it, and the hazards of
this code with the properties that watch each of them.

## Modules

Processes.

- `TimerHierarchy` - the timer wheels. A slot is the set of its timers, since the
  code keeps it sorted. `timeout` holds the lock over a loop of ticks; each tick
  is a step (`Tick`), as the clock moves on during the loop. `position` is where a
  timer believes itself to be, the slots are where it is: `cancel` uses the former.
- `RunQueues` - the run queues as operators on a record, used by
- `Scheduling` - one scheduler thread and the statuses of its processes. `at` is
  the point in `run_once`: "timeout", "dequeue", "running", "requeue",
  "propagate". What a process does is abstracted to what the scheduler sees of it:
  spawn, wake another one, use up its reductions, wait, exit, raise. To whom it is
  linked is left open here: at its exit any other process may be notified or told
  to exit. `run_once` of `full` and `scheduler_yield` of `minimal` are the same steps.
  A process is there (`Upgrades`) as long as a queue or run_once owns it,
  which is when `registry::pid_to_process` can upgrade its weak reference.
- `Signals` extends `Scheduling` with the tables of links and monitors, the
  trap_exit flag, the DOWN and EXIT messages and the functions that change them. Of an
  exception it keeps what propagation tells apart: exit with reason normal, an error or a throw with reason
  normal, and all others. `NotifyMonitor` and `SignalLink` visit one entry each.
- `Registry` extends `Scheduling` with the table of names and the name that each
  process keeps of itself: register, unregister, whereis, sends and timers to a name.
  Nothing takes the name of a process that exits out of the table, so an entry may
  refer to a process that is gone.
- `SelectiveReceive` - what `receive ... after` promises, in five actions.
- `Receive` - the receive state machine of one process with its mailbox, its
  timer and the scheduler around it. A message is its address, so the cursor is a
  message or Null. `ReceiveTimeout` keeps the encoding: 0 is immediate, u64::MAX is
  infinity. `Abstract` instantiates `SelectiveReceive` with `receiving <- Receiving` and `now <- clock`;
  a receive ends at `ReceivePop` or `ReceiveNextTimeout`.
- `UniqueIds` - what a source of identifiers promises; `PidCounter` - `Pid::next` and
  the table of pids, which implements it.
- `TinyScheduler` - the scheduler of the tiny runtime with its run queue.

Memory.

- `AbstractAllocator` - what an allocator promises: pieces that callers hold never
  overlap. Both of the next two implement it.
- `BlockCarrier` - a multi-block carrier: header words with size and flags, footers,
  split and coalesce, and which free blocks are linked into the trees. Callers
  hold the lock of the allocator, so an operation is a step. Sizes are in half words,
  so that sizes of no whole number of words occur. `Outgrows` says whether callers let data that has padding
  in front of it grow past the end of its block, which `realloc_block` allows.
- `BlockBitSet` - a slab and its bit set. Each thread's walk over the bits has a step
  for each load and each compare-and-exchange.
- `NextLargest` - the binary search for a size class, one step for an iteration.
- `SizeClassAlloc` - operations on the lists of slabs under reader-writer locks;
  `SegmentedAlloc` extends it with the single-block carriers for large requests and
  completes it into a specification, as the code of the two allocators is the same
  below the threshold.
- `ProcessValues` - what a process may rely on: its variables hold terms, which no
  collection changes. `Collector` implements it: heaps, addresses, move markers, minor
  collections and full sweeps, a word at a time, with fragments and
  reference-counted binaries. A binary is its count (`refc`) and whether a virtual heap ever had a link to it
  (`managed`): one that is built in a fragment has none before a collection moves it. The end of a collection drops the
  links of the heaps that it frees, and releases the first word of each fragment (`Releases`), with the count decremented
  as `ProcBin::drop` does it. `BuildCompound` stands for the tuples and cons cells of compiled code: `tuple_from_slice`,
  whose clones of ProcBins neither count nor link, is left out, and closures are not told from tuples. `CollectorTerms` adds the terms that addresses stand for, and
  with them the mapping to `ProcessValues`.
- `HeapSizing` - in words only: how `collect_full` and `collect_minor` size a new
  heap, what they do with the flags and limits, and when they shrink. What survives is
  any part of what was there.

`*Proofs` are the proofs of the module before the suffix. Some hold more than that:
`SchedulingProofs` also has the lemmas on `RunQueues` and the proofs of `Registry`; `ProcessProofs` is about
`TimerHierarchy`, `Receive` and `PidCounter`, `MemoryProofs` about `BlockBitSet` and `HeapSizing`;
`SegmentedAllocProofs` also has `NextLargest`; `CollectorCounts` continues `CollectorProofs` with the
reference counts. `MC*` are instances for
TLC. Definitions such as `RunsAlways` or `FlushNothing`, just before the
definition that they resemble, are faulty variants of it: with one of them in its
place, the property named in PROJECT.json is violated.

Four modules implement an abstract one, by `INSTANCE ... WITH` a mapping of its
variables: `Receive` (`SelectiveReceive`), `BlockCarrier` and `BlockBitSet`
(`AbstractAllocator`), `Collector` (`ProcessValues`); `PidCounter` (`UniqueIds`) is the
fifth, and `Signals` implements `Scheduling`, which it extends.

## What TLC checks

| Run | Instance | Shows |
|---|---|---|
| `timers` | wheels of 4 slots, 2 timers, time up to 13 ms, deadlines on the borders of the wheels; 207,984 states | no assertion fails; cancel finds its timer; none fires early, out of order, after its cancellation; none is left behind; each fires in the end or is cancelled |
| `scheduling` | 3 processes, all priorities, the delay of the code (7); 22,467 states | `InOnePlace`, `StatusMatchesPlace`, `NothingUnreachable`, `ExitIsFinal`, `EventuallyDequeued`, `ExitIsPropagated` |
| `signals_safety` | 3 processes of one priority, 2 monitors, no self-monitor; 1,907,684 states | links agree, one DOWN per monitor, none after a flush of a monitor in the table, exits follow links and nothing else, an abnormal exit stays one unless an error with reason normal arrives |
| `receive` | 3 messages, timeouts 0, 1, 2 and infinity, time up to 4 ms; 140,571 states | implements `SelectiveReceive`, no lost wake-up, no stray timer, a receive that can end does |
| `registry` | 3 processes, 2 names and `undefined` | table and processes agree on names, only the holder gets what is sent to a name, no name changes hands without unregister |
| `block_carrier` | a carrier of 60 words, 3 blocks held, sizes and alignments that need padding, no data that outgrows its block | headers tile the carrier and agree with flags and trees; implements `AbstractAllocator` |
| `block_bit_set` | 2 threads, 2 bits to a word; 3 blocks of which one has no bit, 4 blocks with a word too many, or 6 | no block handed out twice (`AbstractAllocator`), an error has a reason, each call returns |
| `segmented_alloc` | 2 threads, 2 classes, 3 slabs of 2 blocks, 2 regions, mmap failing at any time; 2,555,938 states | one owner for each block, large enough; each carrier is listed once mapped; lists do not change under a reader; no lock is held by one who waits |
| `collector` | 1 variable, 3 objects of 3 kinds, 1 message, 3 collections of either kind; 900,391 states | implements `ProcessValues`, no dangling reference or one from the old to the young generation, tenures what is mature, keeps binaries linked that were linked once |
| `signals_self_monitor`, `carrier_growth`, `tiny_yield` | 3 processes and 1 monitor; the carrier above; the init process | the findings below |

Bounds. Wheels of four slots have every kind of transfer and boundary, and time
runs past a full turn of both wheels. The deadlines are the last of the soon wheel, the
first two of the later wheel, which share a slot, and the first of the long-term slot; as
the wheels turn under them, they are started at every distance. Two timers are enough for order and for a
cancel that hits the wrong one. Two processes interact in a wake-up; a third one
makes chains of links, or keeps the queue filled while a low process shares it with a
normal one. Low processes are passed over seven times, as in the code. TLC checks liveness
on the whole state graph, which keeps the `timers` and `scheduling` instances small;
the safety properties of both are proved for any constants. Two references allow two
monitors of one process, by one or by two others. Three messages allow one that
does not match before and after the one that does. The signals and registry runs
have one priority; the priorities are covered by the scheduling run, which has every
behaviour of the queues. A carrier of 60 words holds three blocks with free
ones between and around them, so that a free block has free and used neighbours on either
side. Slabs of two words of bits make a thread cross from one word to the next; two
threads suffice for a lost exchange. Two classes with requests below, at and above
the larger one give every route of the segmented allocator. Three collections bring an object from the
young heap to the old one and out of it in a full sweep.

The smallest slab of the bit set run has a block that no bit stands for: the code never hands it out (see the
disagreements), and `ErrIsJustified` speaks of the blocks that have a bit. The `block_carrier` run has
`Outgrows = FALSE`: after data has outgrown its block the pieces overlap, as `carrier_growth` shows.
In the same way the collector run leaves out maps, match contexts and large
sub-binaries. `EachHasOneOwner` and `MappedAreListed` speak of the segmented allocator
until a thread has freed a block in the wrong place (`Defined`), which is among the
disagreements too; nothing can be said of the memory after that.

Deadlock is checked in the timers', scheduling, signals, registry and bit set runs: timeout
can always be called again, `Stopped` stands for a main loop that has ended, and a
thread can always allocate or free. It is off for `Receive`, where a process may wait forever
for a message that nobody sends, for `TinyScheduler`, which stops when nothing is scheduled, and
for `block_carrier`, `segmented_alloc` and `collector`, which stop at a bound or after
a fault.

Fairness. The thread goes on with its loop, so every step of `run_once` is weakly
fair. Compiled code counts reductions and yields when they are used up, so a
running process returns. The clock goes on, and `timeout` is called in every turn.
Inside of a receive the compiled code goes on to the next builtin. A thread that is
inside `alloc_block` of a slab goes on to its next load or exchange. Nothing else is
assumed of what processes and threads do: neither a send, a spawn nor an allocation, nor
which way a process returns, is fair. `EventuallyDequeued` and `ExitIsPropagated` are
conditional: processes of a higher priority that never wait do starve the others, by the
design of the queues. The `timers`, `scheduling` and `receive` runs check safety and liveness
together, without symmetry, which is not sound for liveness.

Type invariants are no properties of the runs. Those of timers, scheduling and receive
are proved (`TimerTypesHold`, `TypeCorrect`), that of `Signals` is part of its inductive invariant.

## Findings

- `signals_self_monitor`: a process that monitors itself and exits blocks the
  scheduler thread, because the status that `run_once` matches on stays read-locked
  while `propagate_exit` wants to write it (`full/src/scheduler.rs:209`,
  `minimal/src/scheduler.rs:479`). The comment above says that this was to be avoided.
  `NeverBlocks` proves that nothing else blocks it.
- `carrier_growth`: `grow_in_place` compares the new size with the usable size of the block, and
  forgets the padding in front of aligned data (`liblumen_alloc/src/blocks/block.rs:256`). `realloc_block` returns
  the old pointer, and the data reaches over the header of the next block, against the
  comment that the new size "fits in the current usable space of the block" (`:250`).
- `tiny_yield`: in the tiny runtime a process that yields is not rescheduled but
  fails an assertion (`tiny/src/scheduler/mod.rs:369`).

## Disagreements without a run

The following definitions state what a comment, a doc or an assertion says. They are
kept in their modules, and TLC finds each of them violated when it is added to a
configuration; no listed run checks them. Paths are below
`liblumen_alloc/src` unless they say otherwise.

`BlockCarrier`:
- `FreeIsTracked`: `coalesce` inserts a block into the trees only when it merged
  something, so other freed blocks are lost (`blocks/free_block.rs:334`;
  `carriers/multi_block.rs:221`).
- `PrevFindsTheBlock`: `prev` returns a pointer one word in front of the header
  (`blocks/block.rs:221`; `:205`).
- `FooterHoldsSize`: `try_split` writes a footer one word too low
  (`blocks/free_block.rs:272`; `blocks/block.rs:208`).
- `FitCanBeAllocated`: `find_best_fit` chooses a block that `try_alloc` refuses
  (`blocks/free_block_tree.rs:81`; `carriers/multi_block.rs:122`).
- `SplitIsLargeEnough`: a split may leave less than a header and the minimum
  (`blocks/free_block.rs:244`; `:237`).

`BlockBitSet`:
- `ErrMeansAllAllocated`: the blocks behind the last full word mostly have no bit and are never handed
  out (`blocks/block_bit_set.rs:318`; `:190`).
- `BlocksFitTheSlab`: the last block may end behind the slab (`carriers/slab.rs:60`;
  `blocks/block_bit_set.rs:92`).

`SizeClassAlloc`, `SegmentedAlloc`:
- `NobodyElseCreated`: each thread that waited for the write lock makes a carrier of
  its own (`size_class_alloc.rs:106`; `:104`).
- `LargeAreInSingleBlocks`: a slab block that grows to exactly the largest class is
  freed as a large one (`segmented_alloc.rs:304`; `:95`).
- `SizedAreInSlabs`: a large block that shrinks below the threshold is freed as a
  slab block (`segmented_alloc.rs:186`; `:325`).

`Collector` (below `erts/process`):
- `MessagesSurvive`: the fragments of messages in the mailbox are dropped by a
  collection (`../process.rs:1048`; `:1030`).
- `MapEntriesSurvive`: the entries of maps are not swept (`alloc/iter.rs:113`;
  `gc/collector/process_collector.rs:24`).
- `MatchedBinariesSurvive`: neither is the binary of a match context
  (`gc/collection_type.rs:445`; `:443`).
- `OriginalsSurvive`: a large sub-binary is copied without its original
  (`gc/sweep.rs:163`; `:137`).
- `LinkedWhereTheyLie`: a tenured binary is linked to the young virtual heap
  (`gc/sweep.rs:298`; `:296`).
- `UnlinksEitherGeneration`: unlinking looks in the young generation only
  (`gc/sweep.rs:290`; `:286`).
- `ProcBinsAreCounted`: a binary with two references is copied twice
  (`gc/sweep.rs:294`; `gc/collector/process_collector.rs:83`).
- `NoBinaryLeaks`: a fragment is dropped by a release of its first word, which for a ProcBin is a header and is
  skipped, so a binary that was built in a fragment and never moved is not released
  (`../term/release.rs:24`; `../fragment.rs:400`).
- `MovedAreNotReleased`: where the first object of a fragment was moved, the release follows the marker and
  drops the binaries of the tuple that survived (`../fragment.rs:403`; `../term/release.rs:10`).

  Besides, the drop that takes a count to zero decrements it a second time and then compares with one, so the
  memory of a binary is never freed (`../term/binary/process.rs:170`, called at `:299`; the comment at `:297` says
  "we are freeing the memory"); `Decremented` models it.

`HeapSizing` (below `erts/process`), found with sizes of a few words:
- `HeapsAreShrunk`: every shrink fails one of two assertions that contradict each
  other (`alloc/process_heap_alloc.rs:109`; `gc/young_heap.rs:71`).
- `FullSweepFollows`: the callers panic where a full sweep was to follow
  (`heap.rs:272`; `:271`).
- `EstimateIsPessimistic`: fragments of messages are not counted (`../process.rs:546`), a
  small sub-binary grows when it is copied (`gc/sweep.rs:154`; `heap.rs:186`), and a ProcBin or sub-binary
  leaves no marker, so each reference to it makes a copy (`gc/sweep.rs:272`, `gc/collection_type.rs:387`).
- `GrowthIsUnconditional`: `collect_minor` does not read the flag (`heap.rs:298`;
  `flags.rs:15`).

`Signals`, where no definition states the opposite and the actions themselves show it:
- `AsExit`: an error or a throw with reason normal is not expected, so it travels, but as an exit with reason normal
  (`erts/process.rs:1162`). A linked process that was to exit abnormally then ends as expected and its own links hear
  nothing (`runtimes/core/src/process.rs:132`: "it will go through propagating its own exit").
- `DemonitorMissing`: `demonitor` with flush of a reference that is not in the table, as after `monitor` of a
  process that was gone, returns without a flush, and the DOWN message stays
  (`native_implemented/otp/src/erlang/demonitor_2.rs:51`).

`Registry`:
- `UnregisterErrorIsTrue`: unregister frees the name of a process that is gone and
  fails as if there had been none (`runtimes/core/src/registry.rs:92`;
  `native_implemented/otp/src/erlang/unregister_1.rs:18`).

## What is proved

The theorems hold for all values of the constants that satisfy the named assumptions; TLC
evaluates those of the modules that it runs.

`ProcessProofs` proves every safety property of the timer run for every even
number of slots (up to the size that the u16 arithmetic allows), any deadlines and
any bounds. Assumptions: `SlotsAssumption`, `BoundsAssumption`, `TimesAssumption`.
The inductive invariant `TimerInv` adds to the properties how far the two wheels are apart
(`Aligned`), that each timer is in the slot that its deadline asks for (`InPlace`),
that the loop of timeout never runs past the clock (`Looping`), and that only timers
which were started fire or are cancelled (`Issued`); without them neither the u16
assertion nor the order between wheels can be derived. `SLOTS` is even because the
slots of the later wheel last half as long as the soon wheel.

`SchedulingProofs` proves the safety properties of the scheduling run for any set of
processes, any spawn priorities and any delay. Assumptions: `LowDelayAssumption` and
`ProcessAssumption`. The inductive invariant `IInv` joins the four invariants, which
need each other (a wake-up keeps a process in one place only because its status
says where it is), with `Control`: which process run_once holds at each of its
points and with which status. The lemmas on `RunQueues` reduce the queues to what the
argument needs: which processes an operation adds to the run queues or takes out
of them, and that none is twice in them. There is one lemma per kind of step.
`ExitFinal` is an action property from the same invariant.

`SignalsProofs` builds on it, under the hypothesis that no process monitors itself, for
any processes and number of monitors (`ReferenceAssumption`). `ImplementsScheduling`: each
step of `Signals` is one of `Scheduling` or leaves its variables alone, so the theorems above
hold with links and monitors too. `SInv` adds to the scheduler's `IInv` that no process is in its own
table of monitors (`NoSelf`, without which a step could block the thread), that a process
has no links before it is spawned (`NotYetLinked`, for `LinksAgree`), and which
linked processes `propagate_exit` has yet to tell and which are told (`Propagating`, for
`ExitReachesLinked` and `ExitComesFromLinked`). `NeverBlocks`, `LinksAreMutual`,
`ExitsReach`, `ExitsComeFromLinks` and `AbnormalStays` follow; the last with the one exception that the code makes, an
error or a throw with reason normal of a linked process.

For the monitors, `Monitoring` follows each reference: one that is anywhere was given out
by the counter (`Numbered`); it stands for one monitor, on which both tables and the messages agree, and
the monitored process has it while it is there (`Paired`); `propagate_exit` has only such
still to notify (`Notifying`); there is no message before it does, and one after (`OneDown`);
and what was flushed is in no table and no mailbox (`Gone`). `OneDownForEachMonitor` alone is not
inductive: without `Paired` a second table could hold the reference and send a second
`DOWN`. `MonitorsFireOnce` and `FlushIsFinal` follow, the latter for references that were in the table of the process.

For names `SchedulingProofs` does the same. Each step of `Registry` is one of `Scheduling` or leaves
its variables alone (`NamesImplementScheduling`). `RInv` joins the scheduler's `IInv` with `NamesAgree` and with
`NotYetNamed`: a process that was not spawned has no name and is in no entry of the
table. `TablesAgree`, `HoldersReceive` and the action property `NamesStay` follow, for any
processes and names.

`ProcessProofs` also proves that `Receive` implements `SelectiveReceive` (`Refines`), that no
wake-up is lost and no timer left behind, for any messages, patterns, timeouts and
clock. Assumptions: `MessageAssumption` and `TimeoutsAssumption`; the latter says that no
deadline reaches u64::MAX, which stands for infinity. `IInv` adds that a message has one place in the
mailbox (`Distinct`), that the cursor is in the mailbox and nothing up to it matched
(`Cursor`, from which a timeout passes over no match), and that the deadline in
the context is the one asked for, with its timer pending until it has passed (`Deadline`).
Of `PidCounter` it proves that pids fit their bits, that none is found in the table, and that the counter
implements `UniqueIds`, for every size of number and serial.

`SegmentedAllocProofs` proves the safety properties of the allocator run for any threads, classes,
slabs, regions and requests (`SizeClassAssumption`, `RegionAssumption`). The
inductive invariant `AllocInv` has the locals of each thread at each of its points (`LocalsOK`), the locks
exactly where the points say (`Locked`), and each mapped slab once, in the list of its class
(`Listed`): from these no list changes under its reader and no lock is kept. `Owners`
follows what each thread owns: `Old` is the piece a reallocation took from its caller, `Got`
the new one, and the blocks in use are those of callers and of these two tables, with no
piece twice. A step moves a piece from one table to another, and the lemma
`OwnersMove` says once and for all that such a move keeps one owner for each.
`SearchIsCorrect` and `SearchStaysInBounds` are about `NextLargest`, for every sorted slice, and
`SearchFindsTheClass` ties it to `ClassFor`, which the allocator uses in its place.

`MemoryProofs` proves that the lock-free bit set implements `AbstractAllocator`
(`BitSetImplementsAllocator`) and that `alloc_block` fails only for a reason (`ErrorsAreJustified`), for any
threads and slabs (`BitSetAssumption`). `BitInv` says that a bit is set exactly for the blocks that are held, and
that a walk which nobody disturbed has passed set bits only (`SetBefore`) and compares with a
word that is still the same (`Walks`). `ErrorsAreJustified` has no
hypothesis on the layout; of blocks without a bit it says nothing. `BitSetImplementsAllocator` has one: the blocks lie
inside the slab (`BlocksFitTheSlab`). It holds on the instance of the run; the disagreement above is a layout for which it
does not.
Of `HeapSizing` it proves that what a collection copies fits the
heap it was sized for, that the words asked for are there afterwards, and that the old heap has
room for what is tenured. All three are for heaps without short sub-binaries and without ProcBins or sub-binaries that several
references lead to (`CopiesAreExact`), the first two also for processes without messages in fragments: with any of these the
estimates are broken, as the disagreements above show. `SizingAssumption` takes from
`next_heap_size` that it returns more than it is given, the condition with which its loops end.

`BlockCarrierProofs` proves that headers, flags and trees agree (`HeadersStayTrue`) and that the carrier implements
`AbstractAllocator` (`CarrierImplementsAllocator`), for any size of word and carrier and any layouts
(`CarrierAssumption`). The former holds for every value of `Outgrows`, the latter has `Outgrows = FALSE` as a hypothesis.
Footers are part of neither: the code does not keep them right. The inductive invariant `CarrierInv` says of neighbours what the walk over all headers
finds: each block ends where another begins or where the carrier ends, and none overlaps
another (`Tiles`); the flag of a block tells whether the one before it is free (`Flags`); what is in the trees is free
(`Sound`); and each piece of data lies in an allocated block of its own (`Lives`, as long as nothing outgrew its block, `Intact`). `Tiles` is needed
because a split or a merge is right only where the block next to it begins, and
`Flags` because `coalesce` trusts them to walk backwards. The loop of `coalesce`
is written without recursion, as the least set of blocks that flags and footers lead to (`Trail`). To set a
flag, to cut a block in two and to merge a run of blocks are three changes of the headers (`Flagged`, `Cut`,
`Merged`) that keep the blocks `Sound` and what is held in place; every operation is made of them.

`CollectorProofs` and `CollectorCounts` prove three properties of the collector for any number of roots, objects, messages and
collections (`CollectorAssumption`). The inductive invariant `CollectorInv` follows the words of tuples
and lists. Between two collections all of them lead to objects that are there (`Sane`), there are no
markers, and neither the old generation nor what lies below the high water mark refers to anything younger
(`Quiet`). During one, a marker stands only in a heap that is being left and leads to the
generation that the object belongs to (`Marked`); what is tenured refers to what is mature or old
(`Tenures`); and what lies before the scan is swept (`Scans`, `RootsSafe`). `Tenures` is what the
ReferenceCollection relies on: when it sweeps a tenured object, everything the object refers to is tenured too. The proof is about two
changes of the heaps, to move one object (`Moves`) and to write one word (`Writes`), and about the object that a
process builds (`Adds`). `SurvivorsAreTenured` follows from `Marked`, whatever kinds the process builds. `TracedReferencesAreSound`
is about all references, those of slices included (`TraceInv`), and has a
hypothesis: the process builds no maps, match contexts or large sub-binaries (`Traceable`), the kinds whose
references the code does not sweep, as the disagreements above show. `CountedBinariesAreLinked` rests on
`CountInv`: every link of a virtual heap leads to a ProcBin that is there, no count is above one, a managed
binary with a positive count has a link, fragments have none, and those of the old virtual heap and of the target lead to
heaps that are kept. A move takes at most one link away and adds one at a new
address. At the end of a collection a count that is still positive saw no release at all, so none of the
links of its binary was dropped, and the one that it had is still there. Of a binary in a fragment that no collection
moved the theorem says nothing: see `NoBinaryLeaks`.

`PidCounter`, `NextLargest` and `HeapSizing` are proved and not run; their constants are not constrained by
an `ASSUME`, so their theorems have the assumption as a hypothesis.

Only model-checked:
- liveness (`EventuallyDequeued`, `ExitIsPropagated`, `ReceiveEnds`, the timers and calls that end): out of the
  prover's reach, as is fairness.
- `CollectionIsInvisible`: the term that an address stands for is a recursive function on the heap, and that a
  collection keeps it is an induction over terms, which the prover does not do. What is proved is that what a term
  refers to is still there. That the recursive functions of `next_heap_size` end is another induction over data.

## Scope

The definitions stand for about 4,100 lines of Rust, two percent of the repository. The
largest part of the rest is the compiler with its bindings to LLVM and MLIR: passes
that rewrite large trees one after the other and share no state. A model of a pass would
be the pass again, and what it should be checked against is the semantics of two
languages. Next come the functions of the erlang module, one file each of
sequential code on terms, and the libraries of terms, numbers and binaries.

Not modelled, and why:

- native futures (`full/src/future.rs`): a process that runs on behalf of a Rust caller;
  its states are those of any process, and its caller polls.
- `StandardAlloc`: routes between multi-block and single-block carriers as
  `SegmentedAlloc` does between slabs and single-block carriers.
- encodings of terms, layouts of the allocators of `library/*`, file formats, numbers and
  binaries: data without control.
- the compiler, start-up code, the bindings to the browser, I/O; distribution, which the code leaves
  unimplemented.

## Plan

1. Proofs: of `CollectionIsInvisible`, that the sweep of one word keeps the kind and the elements of the
   object it leads to, which is the step of the induction.
2. Composition of `Receive` with `TimerHierarchy` in place of `TimerTimesOut`,
   which now takes from the timers that none fires early and each fires in the end.
3. The run queue of the tiny runtime on its own, with the promise of its comments
   that a process runs again only after all others of the cycle.
4. Pure algorithms of `library/number` and `library/binary` against definitions.
