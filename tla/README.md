# cachetop in TLA+

Specifications of `cachetop` (`src/cachetop`), checked with TLC and proved with
TLAPS. cachetop shows cache behaviour per process (default) or for the whole
machine (`--system`). It starts `perf stat -I` as a child, parses its CSV while
it runs, aggregates thread counters into processes, and renders a live screen
that keys act on.

## 1. Inventory

| Component | Source | State it keeps | Operations | Talks to |
|---|---|---|---|---|
| Live session, dump | `__main__.py:136-153, 187-238`, `keyboard.py` | `stop`, `shared`, worker thread, terminal mode | render loop, `worker()`, `KeyReader.__enter__/__exit__`, finally block, `run_proc_dump` | worker by `shared["snap"]`, `stop`, `mon._stop`; perf by signals |
| Process monitor | `procmon.py:185-384` | `_info`, `_tid2pid`, `_mpki_hist`, `_stop`, `sort_key` | `snapshots`, `_discover`, `_refresh_info`, `_aggregate`, `_pid_of` | scanner, a `ThreadCollector` per refresh window |
| perf stream parsing | `collector.py:61-88`, `procmon.py:62-113` | `cur_ts`, `prev_ts`, the interval's rows, the child | `frames`, `stop` | perf by a pipe and SIGINT/SIGKILL |
| Process scanner | `procscan.py` | `_prev_ticks`, `_prev_t` | `sample`, `top_by_cpu`, `cpu_of`, `tgid_of` | `/proc` |
| Process screen | `__main__.py:156-184, 215-231`, `procui.py` | `UIState`, `displayed`, trends | `_handle_key`, `_displayed_pids`, `sorted_procs`, `build_proc_renderable` | worker by `shared["snap"]`, `mon.sort_key`, `mon.hist` |
| resctrl | `resctrl.py`, `__main__.py:243-301` | `_we_mounted`, `_mon_group` | `ensure_mounted`, `attach_pid`, `read`, `cleanup` | the kernel's mount, shared with every other process of the host |
| Key decoding | `keyboard.py` | the input queue of the terminal, `_q`, `_stop` | `_run`, `_classify`, `drain` | the terminal; the render loop by `_q` |
| Startup, capabilities | `__main__.py:28-133, 304-314`, `topology.py`, `events.py`, `caps.py` | topology, affinity, `Caps`, channels | `topology.detect`, `fmt_cpus`, `_apply_affinity`, `caps.detect`, `probe`, `_probe_individually`, `_print_event_coverage` | perf, sysfs, `/proc` |
| Metrics | `metrics.py`, `procmon.py:229-335, 376-379`, `ui.py:12-24` | counters per process and class of core, two bounded histories | `_aggregate`, `_derive`, `_level_metrics`, `_accum`, `update`, `sparkline` | the frames of a collector |

How they interact: the main thread owns the screen, the keys and `UIState`; the
daemon worker drives the generator chain `worker()` -> `snapshots()` ->
`ThreadCollector.frames()`. The two threads share `shared["snap"]` (one slot,
overwritten), the `stop` event, `mon._stop`, `mon.sort_key` and `mon._mpki_hist`,
all without locks. A generator is left at a yield by `break`, `GeneratorExit` or
an exception, and only `finally` blocks clean up behind it.

What is hard:

- *Ending.* `q`, Ctrl-C on the main thread alone or on the whole process group,
  a second Ctrl-C, perf that ends by itself, a wait for perf that times out, a join
  that times out; perf children and the terminal must be left in order.
- *A stream without end marks.* The end of an interval shows only when the next
  begins; the last one shows only at the end of the stream.
- *Ids that are used again.* `/proc`, perf and a cache that lives as long as the
  tool speak of thread ids at different times.
- *A shared mount.* Several instances and the administrator act on one resctrl
  mount between each other's system calls.
- *Two threads, one screen.* Snapshots arrive and are ranked while keys change the
  ranking, and the selection must survive that.
- *A key that begins another.* Esc is a key and the first byte of the arrow keys;
  only time tells.
- *Counters that are missing.* A PMU, a thread, an interval may lack any of them;
  missing is not zero, and sums of unlike counters are no shares.

What makes each component correct, in a sentence: the session ends and leaves
nothing behind; frames are whole intervals, in order, none lost; counters go to
the process they belong to and only chosen processes are shown; the selection is
always a row and stays with its process; resctrl is given back as found; perf runs
off the isolated CPUs and the channels are what counts; keys are decoded as typed;
metrics are sums over the right threads.

`PROJECT.json` lists all components, the hazards with their lines, and which lines
each definition stands for.

## 2. Modules

| Module | Models | Runs | Proofs |
|---|---|---|---|
| `LiveSession` | both threads, or the dump's one, perf children, terminal, Ctrl-C | `live_session` | `LiveSessionProofs` |
| `IntervalStream` | abstract: the intervals a consumer is promised | (property of `perf_stream`) | - |
| `PerfStream` | the frame loop of both collectors; implements `IntervalStream` | `perf_stream` | `PerfStreamProofs` |
| `ProcMonitor` | scanner, discovery, aggregation, id cache | `proc_monitor`, `tid_reuse` | `ProcMonitorProofs` |
| `Metrics` | sums, derived metrics, histories, sparkline | `metrics` | `MetricsProofs` |
| `ProcUI` | keys, selection, freezing, trends, publication | `proc_ui`, `trend_mixes_metrics` | `ProcUIProofs` |
| `SelectedRow` | abstract: a highlight on a list that changes under it | (property of `proc_ui`) | - |
| `KeyReader` | bytes, the reader thread, the queue, the loop that drains it | `keys` | `KeyReaderProofs` |
| `Resctrl` | instances and an administrator on one mount | `resctrl`, `mount_left_behind`, `pid_falls_back` | `ResctrlProofs` |
| `Startup` | topology, pinning, capabilities, probe, coverage | `startup` | `StartupProofs` |

`MC*` modules give TLC the constants. Definitions whose comment begins with "Mutant of" are plausible
faults of the definition that follows; nothing in a specification uses them.
They show, one for each property, that the property notices such a fault.

**LiveSession.** `main` and `worker` are the program points of the two threads at
which the other can run; `perf[p]` is a child's state, `pipe[p]` the intervals it
wrote and nobody read. `AfterInterrupt` says where `KeyboardInterrupt` takes the
main thread: to the exits of the `with` statement it is in, to `finally`, or out of
the program. `Interrupt(TRUE)` is Ctrl-C typed at the terminal (perf gets it too),
`Interrupt(FALSE)` a signal to the tool alone. All timeouts may expire at any
moment. `mode` chooses between the live view and `--dump N`, where the main thread
drives `snapshots()` itself: the worker's steps are then the main thread's, Ctrl-C
lands in them (`InterruptDump`, `AfterInterruptDump`: it closes the generator where it
is, and again if it comes in the `finally`), and `CountFrame` ends the loop at the
N-th snapshot. `ReadInterval`/`ReadEOF` abstract what PerfStream says in detail: one
interval is held back until the next line.

**PerfStream.** `said` is what perf printed per timestamp; `curTs`, `prevTs`, `rows`
are the parser's locals; `frames` what it yielded. `kind` chooses between the two
collectors, which differ in what a line without a value does and in when the tail is
yielded. A CSV line is a timestamp, a key and a value; lines that the parser skips
are left out. `IntervalStream` says what a consumer is promised, without a parser: the
frame of an interval is a function of what was printed, and it is handed out with the
first line of the next. `StreamSpec` is `IntervalStream!Spec` with `out <- frames` and
`open <- (reader = "reading")`.

**Metrics.** In the process view `Take(t)` is one round of the loop in `_aggregate`, for
the thread that comes next in perf's output (any order), and `Derive` what is made of the
three buckets; which class `cpu_of` says, or that it cannot say, is chosen freely. In
the system view `Update` is `MetricsState.update` for one frame. A counter is a number
or `None`. Rates are per interval, percentages, IPC and MPKI whole numbers (rounded down),
so that TLC can compare them; `Spark` has the source's rounding in integers, without the
cut to the last `width` points.

**KeyReader.** `input` is the terminal's queue, `reader` the place in `_run` and
`_classify`, `queue` what `drain()` takes. Bytes are symbols. `Press(key, n)` is a key
of which n bytes arrive at once; `EscAlone` is the 60 ms timeout, which may expire
whenever nothing is there. `calm` records that no key was torn and none was typed while
an Esc before it could still be joined by its bytes.

**ProcMonitor.** `owner`, `used` are the machine's threads and CPU ticks;
`ThreadEnds`, `ThreadStarts` and `Runs` happen between any two steps of the monitor.
A counter is abstracted to the thread it came from, so a process's counters are a
set of threads, and "charged to the wrong process" is visible. `Frame` is a frame's
arrival and `_refresh_info`; then `_aggregate` goes through the frame's threads in any
order, with a step for the look-up of a thread's process (`LookUpPid`) and, when isolated
CPUs are configured (`split`), another for that of its CPU (`LookUpCpu`), and threads
end and start between them. `reused` records ids used again while the cache or perf
still knew them, `moved` what came or went since the frame, `lost` what ended between its
two look-ups. A scan of `/proc` by `ProcScanner.sample()` is one step.

**ProcUI.** The main thread handles one key per step, then `Refresh` takes over the
published snapshot (unless frozen) and puts the selection right, then `Render`.
The worker derives process by process (a point of the trend under the sort key of
that moment), ranks process by process (Python's sort asks for the key once per
element), and publishes. Frames come from a small set `Frames`. Rows are given by
their number, so the stable, descending sort is one comparison `Above`. `SelectedRow` says
what the user is promised of the highlight, without worker, snapshots, ranking or
freezing: `ListSpec` is `SelectedRow!Spec` with the rows of the screen that was drawn
(`Listing`) for its rows, although the keys act on `displayed`, and `selected` for the
highlight.

**Resctrl.** `mnt` is who made the mount that is there; `Start` ... `Unmount` are the
system calls of `ensure_mounted`, `attach_pid`, `read` and `cleanup`; `Cut` ends an
instance anywhere (SIGTERM, SIGKILL, Ctrl-C outside the `try`). A `umount` may fail
because it is busy (`busy`), the `rmdir` of a group may be refused too (`kept`), and
`cleanup()` takes no notice of either. Byte counts are abstracted to the group they were read from.

**Startup.** `main()` up to the first frame, or to the end of `--show-events`. A CPU list
is a sequence of ranges and words: `Parse` is `_parse_cpu_list`, `Formatted` the loop of
`fmt_cpus`. `Setup` is `caps.detect()` on one of several `Machines`. Lists and the
answers of perf are chosen freely: names it does not know, which may or may not abort the
invocation, events that do not count, timeouts, names printed with or without the PMU.

## 3. Runs

Passing runs:

- `live_session` (live and dump; two perf slots, pipe of one interval, dump of two
  snapshots, two faults): one collector at a time; a worker that ended left no counting
  perf; after `mon.stop()` at most one more perf and one more snapshot; the terminal is
  restored; a stop request ends the program, a signalled perf ends, an orphan does not
  stay, snapshots keep coming. Two slots let one perf die slowly, or be left by a
  timeout, while the next runs; a slot is used again once its perf is gone; a fault is
  an empty discovery or a perf that ends by itself. `PipeCap` 1 is the pipe at its
  limit.
- `perf_stream` (two keys, up to three intervals and a shorter last one): what a consumer
  sees implements `IntervalStream`, and every frame holds what was printed for its
  interval. A mistake at a boundary needs two intervals, one carried over needs three.
- `proc_monitor` (three pids, one of them the tool; two threads; one id used again;
  `--top 1`; with and without `--pids`, with and without isolated CPUs): what a snapshot
  charges, splits and shows. Two threads let one end while the other is looked up.
- `proc_ui` (three processes, two metrics, two rows, three frames to choose from, of
  which two arrive): the frames swap places under each metric, tie, and lose a
  process; keys are not bounded. The selection is a row, moves along the rows that are
  seen, and the whole implements `SelectedRow`.
- `resctrl` (two instances, two acts of the administrator; any rmdir or umount may be
  refused): what each takes back.
- `startup` (three CPUs, eleven CPU lists, six machines, two PMUs, an event of any
  vendor, one L2 event per vendor): where perf and the tool run, what the tool says of
  it, what the probe finds. A gap in a list needs three CPUs; the lists have every set
  of them, words, a list out of order and a range that runs backwards.
- `keys` (three keys of seven kinds: letters, Esc, both forms of an arrow, a character of
  two bytes, an unknown sequence): decoding, what is taken after the exit, and that a
  key is obeyed. Two keys can run together in the input queue; the third is typed after.
- `metrics` (two threads, two PMUs, one level, five readings with zeros and gaps;
  histories of two points, three frames): every order and every combination of what is
  missing. The third frame is the one that pushes a point out.

Each violation run checks one statement of the repository that the code does not
keep, and its trace shows how:

- `mount_left_behind`: README.md:190-191, unmounted on exit. `--system` without
  `--dump` sets resctrl up, then fails to import rich, and `sys.exit` skips `cleanup()`.
- `pid_falls_back`: README.md:145-146, a group "for just that process". The result of
  `attach_pid` is dropped, and `read()` shows the root group.
- `tid_reuse`: procmon.py:230. The tid -> pid cache is never pruned: a thread's id that is
  used again by another process, to which perf then attaches, is charged to the old one.
- `trend_mixes_metrics`: procmon.py:304, procui.py:282. After `s` the trend holds the
  old metric's values.

What the passing properties leave out on purpose, because the code does not do it:
`TtyRestored` excludes Ctrl-C inside `KeyReader.__enter__`/`__exit__`;
`OwnMountOnly` ends where somebody unmounts an instance's mount (`_we_mounted` is
stale from then on); `CleanExit` excludes a busy umount, a refused rmdir and the directory that a failed
`attach_pid` leaves; `ChargedToOwner` and `ShowsTheSelected` exclude ids used again;
`ChildrenOffIsolated` excludes `--show-events`, which probes without pinning;
`GoodOnesRegister` assumes that perf is in time and prints `pmu/event/` (a bare name
is not seen by `_parse_supported`); `DecodedAsTyped` and `KeyObeyed` are about `calm` typing
(two bytes typed within 60 ms of an Esc are taken for the rest of a sequence);
`EndedWorkerLeavesNoPerf` excludes, in a dump, a second Ctrl-C inside
`ThreadCollector.stop` before its signal; `ShareOfLookups` is about threads and PMUs that
count a level's lookups and misses together.

**Fairness.** In `live_session`: weak fairness of the main thread and of the
worker: the scheduler runs both, and every wait of theirs has a timeout or is not
enabled. Weak fairness of `PerfQuits` and `PerfKilled`: a signalled perf that can print
exits, a killed process goes. `PerfPrints` (perf prints every interval, which is what
`-I` means) is assumed in the properties that name it. In `keys`: the reader is a
thread of its own and the loop drains the queue every 80 ms. No fairness makes the user
quit, a target exit or `Popen` fail. `MaxFaults` makes faults finite: a host on which
discovery never finds a process publishes nothing, and nothing is claimed of it.

**Deadlock** is checked except in `proc_ui` (and `trend_mixes_metrics`), `startup`, `keys`
and `metrics`, which stop: after `q` and the last frame, when startup is over, when the
keys are typed and the program has left, when the metrics are derived or the frames are
used up. The others have an explicit step for the end, or the environment goes on.

## 4. Proofs

For every value of the constants, TLAPS proves type correctness and every safety property,
invariant or action, that a passing run checks, in the eight modules with a `...Proofs`
module, and the two refinements, `PerfStream` of `IntervalStream` and `ProcUI` of
`SelectedRow`. Each comes from an inductive
invariant (`Init => IInv`, `IInv /\ [Next]_vars => IInv'`):

- `LiveSessionProofs`: `HeldInv` (a counting perf is the one the collector holds) and
  `CurInv` (at which program points it holds one, and that the finally block leaves it
  dead or dying) carry `OneCollector` and `EndedWorkerLeavesNoPerf`; `FlagInv` and
  `LateInv` (where the worker is says what late work is done) carry `LittleLateWork`;
  `ShownInv` bounds what a dump prints until it is over; `TtyInv` (cbreak only inside
  the `with`) carries `TtyRestored`. None of the properties
  is inductive alone: they do not know where the worker is.
- `PerfStreamProofs`: `HeldInv` (what is collected is what perf printed with `cur_ts`,
  and nothing later was printed) and `ReadingInv` (the frames end with `prev_ts`,
  before `cur_ts`). `StreamImplemented` proves the refinement: a line that begins an
  interval is a line of `IntervalStream` that hands out the one before, because the
  interval held is the only one pending (`HeldIsPending`); the end of the stream is its
  `Close`. `NothingLost`, `LastIntervalDelivered` and `WidthsCorrect` state, without the
  abstract specification, what follows from it for order, tail and widths.
- `ResctrlProofs`: `OwnerInv` (`_we_mounted` means the mount is ours until taken),
  `AskedInv`, `CleanInv` (what an instance still answers for) and `PidInv`.
- `ProcMonitorProofs`: `IdInv` (for an id not used again, `/proc`, perf and the cache
  agree), `CacheInv` (what was counted is cached), `ChosenInv` and `FrameInv` (nothing is
  summed of a thread yet to come). `CurInv` (between its look-ups a thread is counted and
  has no class) and `ClassInv` (`IsoSplit` for the threads looked up so far) carry
  `IsoSplit`. `FixedWithinWindow` is an action property, proved from single steps.
- `StartupProofs`: `PinInv` (no perf is started before the pinning, and afterwards only
  with the affinity it left) and `ProbeInv` (only what perf can count is believed, and
  the channels are chosen from that); `ChosenUnique` is the lemma on the choice.
  `AskedInv` and `DoneInv` (what was asked one at a time and is not left has been
  believed) carry `GoodOnesRegister`: the candidates of a slot that count have a least
  one (the naturals are well founded), and it is the one that is chosen. `SaidInv` (nothing
  is said before the pinning, and then the affinity) carries `RunsWhereItSays`, given
  `ReadsBack`: `_parse_cpu_list` undoes `fmt_cpus`, for `Behind` holds at every number the
  loop has passed (the ranges that are closed and the one at hand are the CPUs so far).
- `ProcUIProofs`: a finite set under a strict order has its elements at the ranks 1 to its
  cardinality (`Ranking`), by finite-set facts: the map to ranks is one-to-one into a
  set of the same size. So there is a first row, and a next one, for `SelectionOnScreen`
  and `MovesOnScreen`. `ScreenInv` (between keys the loop acts on what was drawn) and
  `WorkerInv` carry the rest. `ListImplemented` proves the refinement: up, down and Enter
  are `Move`, the sort keys `Reorder`, a refresh is `Replace`, and no step of the worker is
  seen. It needs `NoneInv` (before the first snapshot nothing is selected, and there is no way
  back to that), because the loop leaves the selection alone as long as there is no snapshot.
  That the selection stays with its process (`SelectionFollowsProcess`) is proved as well.
- `KeyReaderProofs`: `LateInv` (where the reader is says what it may still take) carries
  `LittleTakenLate`. `CalmInv` carries `DecodedAsTyped`: while the typing is calm, what was
  handled, then what is queued, then what the bytes still pending decode to (an Esc may be
  in the reader's hands) is what the typed keys are to give. A byte taken removes the first
  token of the pending bytes (`DecodeFirst`); a key typed adds its own at the end
  (`DecodeConcat`), which is where calm is needed: after an open Esc it would not.
- `MetricsProofs`: `ProcessInv` for the process view. A thread not yet taken has no class
  (`ClassInv`), `Accum` adds the same to the whole as to one part (`SplitWithinWhole`), and
  each bucket holds the sums over just the threads that are its so far (`BucketSums`),
  which at the end are those of `SumsOfThreads` and, with sums that grow with their terms,
  `ShareOfLookups`. `SystemInv` for the system view: each point of a history is that of a
  frame (`PointsOfFrames`), and the histories hold the last ones (`HistoriesTogether`).
  `SparkSpans` is arithmetic: the rounded quotient grows with the value.

Some of these rest on what a loop, a fold or a sum gives for every input. The induction
theorems of the library cannot be used for that, for they take an operator as a parameter;
the proofs take instead, of the sets, numbers or lengths for which a fact fails, a least one
(`WFMin`, with the well-foundedness of `<` or of the strict subsets of a finite set) and
show that there is a lesser: `Least`, `Smallest`, `SetInduction`. That a recursive function
exists is shown the same way (`LoopsExist`, `SumsExist`).

Assumed are only the `ASSUME`s on the constants: that special values (`NoPid`,
`Nobody`, `Word`, `NoSnap`, ...) are not ids, ranges,
snapshots or numbers, that ids and places in the catalogue,
which the code orders, are numbers, that bounds are naturals, that there is a CPU, and that
CPUs, PMUs and threads are finitely many. `DecodesAssumption` says which keyboards
`KeyReaderProofs` is about: a key's bytes are, one after the other, single bytes, an Esc with
the two bytes after it, or a lone Esc at the end, and its tokens are what the reader makes
of those. The keys it excludes are those that send Esc and one byte more (Alt and a letter):
the reader makes one Esc of the two, and of the next byte as well if it is there already,
so that what it makes of such a key depends on the one that follows.

Model-checked only: liveness (`StopEndsProgram`, `SignalledPerfEnds`, `NoOrphanForEver`,
`KeepsPublishing`, `KeyObeyed`), which with fairness and ENABLED is out of the prover's
reach; and the four violation runs, which show a behaviour and prove nothing.

## 5. Not modelled

Rendering (`ui.py` but for the sparkline, the tables, colours and widths of `procui.py`),
number and CSV formats, `/proc` and sysfs text, the model name and hostname of `caps.py`,
`run.sh`; processes with several threads in a resctrl group (`attach_pid` moves one
thread); the rate of restarts when perf exits at once, and of reads from a terminal that
is gone. The reasons are with the components and hazards in `PROJECT.json`. The window
that the CPU ranking at a refresh is about (since the last sample, which every frame
takes) is modelled as the code has it; no property says what it should be.

## 6. Plan

What is left, in this order:

1. `Resctrl` with threads, for what `tasks` moves.
2. `LiveSession`'s `ReadInterval`/`ReadEOF` instantiated from `IntervalStream`.
3. An abstract specification of the keys (tokens handed out in the order typed) that
   `KeyReader` implements while the typing is calm; `CalmInv` is its refinement.

Runs are to stay few: new questions join the runs of their module.
