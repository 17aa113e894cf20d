# A TLA+ development for gbrl

gbrl runs a command under `ptrace`, judges every system call against a policy
(kill, deny, freeze or allow), watches writes for the entropy of encrypted data,
logs what it saw to a CSV file and shows it in a terminal interface. A second
command runs WASM guests with WASI calls under an interceptor. The modules here
model the parts of it that can go wrong through ordering, interleaving and
failure; the configurations check them with TLC on small instances; eight
modules (`*_proofs`) prove the most important results with TLAPS for every value
of the constants.

## 1. Inventory

| Component | State | Operations | Interacts with | What makes it correct |
|---|---|---|---|---|
| ring buffer, `telemetry/ringbuf.go` | `buf`, atomic `head`, `tail` | `NewRingBuffer`, `Push`, `Pop`, `Len` | monitor pushes, CSV goroutine pops | a bounded FIFO queue without locks, free of slot races, also where counters wrap |
| CSV writer, `telemetry/csv_writer.go` | file, `csv.Writer` (buffer, sticky error), `done`, ticker | `NewCSVWriter`, `Start`, `Stop`, `drain` | ring buffer, `main` | what the ring accepted reaches the file, in order, once; one header; `Stop` flushes and returns |
| policy, `policy/policy.go`, `trie.go` | blocked set, trie, heuristic | `Load`, `Insert`, `IsAllowed`, `Evaluate` | monitor | the compiled form decides as the file does |
| monitor, `monitor/monitor.go` | loop position, `inSyscall` | `Run`, `handleEntry`, `handleExit` | kernel, policy, tracker, ring, `eventCh`, `StepCh` | nothing refused is executed, everything executed was judged, the log tells what happened |
| entropy heuristic, `heuristic/entropy.go` | count per descriptor | `Observe`, `Reset` | monitor, `instrumentedTracker` | the alarm comes with the write that reaches the limit |
| terminal interface, `cmd/gbrl-tui/main.go` | `stepMode`, `monitoredPID`, `eventCh`, widgets, `entropyStore` | keys F1 F2 F3 Q, five kinds of goroutine, `record`, `snapshot` | tview's event loop, monitor | shows the latest events and whole readings, never hangs, quits |
| launcher, `launcher/launcher.go` | none | `Start` | kernel | the tracee is stopped at its first instruction |
| memory reader and dumper, `memory/*.go` | a dump file | `ReadBytes`, `ReadString`, `Dump` | monitor, F3, a tracee that runs | what is read is what the tracee has; the dump file can be read back |
| WASM executor, `executor/executor.go` | `runtime`, `module`, `intercept`, `cancel`, `closed` | `Load`, `Run`, `Terminate`, memory access | wazero, `cmd/gbrl-wasm` | one open runtime or none; the interceptor is the one of the last `Load` |
| WASI host functions, `executor/wasi.go` | the loop of a call, guest memory | `fd_write`, `path_open`, `poll_oneoff`, `clock_time_get`, `clock_res_get`, `random_get` | interceptor, guest | every byte for the host was decided by the interceptor; the guest is told the truth |
| interceptor, `interceptor/*.go` | none of its own | the hooks of `SyscallInterceptor`, `AllowAllInterceptor` | WASI functions | |
| `cmd/gbrl-wasm` | none | `main` | executor | |
| benchmarks | none | time measurements | | |

The README of the repository also names `gbrl-malclass`, of which there is no
source.

The hard behaviours are: the lock-free ring between two goroutines; a CSV
goroutine that is stopped while events still arrive, a disk that fails, a
process that is killed between two flushes; a tracee that is stopped for
syscalls, for signals and by a stray SIGTRAP, that can be killed at any moment,
and a monitor that toggles between two halves of a call and is not locked to the
thread that may use ptrace; a user interface whose handlers post closures to the
loop that called them; readings that one goroutine writes and another copies; a
dump of a memory that changes while it is read; and host functions that walk
tables of a guest, with lengths on 32 bits and buffers that may overlap, while
an interceptor may refuse in the middle. `PROJECT.json` lists each hazard at its
line with the properties that speak about it.

## 2. Modules

    BoundedQueue  <--implements--  SpscRing  <--  MCSpscRing  -->  RingIndex
         |                             ^
         | used by                     | extends
         v                             |
      CsvLog  <--  CsvLog_proofs    SpscRing_proofs

      Policy  <--extends--  PolicyLoad  <--  MCPolicyLoad, PolicyLoad_proofs
         ^
         |  extends
      Monitor  <--  MCMonitor, Monitor_proofs
         |
         |  implements
         v
      SyscallGate

      Wasi  <--extends--  Executor  <--  MCExecutor, Executor_proofs

      Tui  <--  MCTui, Tui_proofs         Entropy   <--  Entropy_proofs
                                          DumpFile  <--  DumpFile_proofs

**BoundedQueue** is the abstract specification of the ring buffer: atomic pushes
and pops on a bounded FIFO queue. **SpscRing** is the ring buffer with one
action for each load or store of `head` and `tail` and each copy of an item
(`ppc` and `cpc` say where `Push` and `Pop` are); Go's `sync/atomic` is
sequentially consistent, so interleaving these accesses is all that can happen.
Counters live modulo `Laps * Cap` in place of 2^64. `Contents`, the items in the
slots between tail and head, is the refinement mapping. `Len` is left out:
nothing calls it. **RingIndex** has what SpscRing takes for granted, `n & mask`,
with real bit operations; MCSpscRing assumes, and TLC evaluates, that it is the
remainder for every capacity that is accepted, and for no other.

**CsvLog** puts the queue of BoundedQueue between the monitor goroutine and the
goroutine of `CSVWriter` and adds the file, the `csv.Writer` (its buffer may
spill to disk in the middle of any row; an error sticks), `main` and the end of
the process at any moment. A row is a number, and `Part(r)` the beginning of row
`r` without its newline: a write that fails, or that the end of the process
breaks off, may leave one (`BrokenOff`), and what a later session appends
continues its line. `cut` says that the first row of the buffer is partly on disk.

**Policy** has the pure part of `internal/policy` as operators: cleaning and
splitting of paths, the trie as a set of nodes and a set of terminal nodes,
`Evaluate`, and the part of the table of syscall names the models use.
**PolicyLoad** is `Load`, one entry of the file at a time, over all the files of
MCPolicyLoad, whose names of path segments are the constant `Segments`. What a
path is cleaned to is `Cleaned`, a recursive function over its segments.

**Monitor** is `monitor.Run`, one action per ptrace or wait4 call and per branch
of the loop. An entry stop takes three: `GetRegs`, `HandleEntry` (what is read
of the tracee, the tracker, the policy, the event), and what is enforced; a kill
or the end of gbrl may come between them, and then `Reads` fails and the event
is one of a dead call. The memory of a stopped tracee does not change in between,
which is why the reads, the verdict and the pushes are one action. What is
external is kept apart: the tracee (`TraceeCalls`, `KernelFinishes`,
`SignalArrives`, `TrapArrives`), the kernel's side of ptrace (`Obeys`, `Resume`,
`Dies`) and the Go scheduler (`Migrate`). ptrace requests of a thread other than
the tracer's, or to a tracee that is not stopped, fail with ESRCH; a successful
execve posts a SIGTRAP because `PTRACE_O_TRACEEXEC` is not set; the tracee of a
tracer that exits is detached and runs on. Q detaches at once, if its goroutine
happens to be on the tracing thread (`PressQ`), and the program exits later
(`Exit`). A call is `[nr, path, fd, high, large]`: `high` stands for data at or
above the entropy threshold, `large` for a write the tracker is not shown (more
than 1 MiB, or in memory that cannot be read), `NoPath` for no path or one that
could not be read. `verdict` and `wrote` are history.
**SyscallGate** is the abstract specification of this loop and its tracee: a gate
that takes one call after the other, judges it once by the policy and by the
high-entropy writes it has seen, and lets it be executed or skipped, or no
further; a tracee that dies while its call is judged leaves an event without an
effect (`EndUnheard`, `LogDead`). `Stage` and `Underway` are the refinement
mapping. The first signal stop, move to another thread, or Q maps to `Lose`, from
which on nothing is promised: with section 5, more would not be true.

**Tui** is the rest of `gbrl-tui`: the goroutines, `eventCh`, the four keys and
tview's event loop. `post[g]` says whether goroutine `g` is about to send its
closure to the loop or waits until it has run; the input capture itself runs on
goroutine `main`. `traceRow` is the counter by which the table is rolled, apart
from the rows. `monitor.Run` is reduced to what the others see of it.

**Entropy** follows one write from `handleEntry` to the screen, which Monitor
and Tui cut short: `Observe` under the policy's threshold, `record` under the
constant 7.2 and the mutex of `entropyStore` (two actions, one per assignment,
so that a copy taken without the mutex would show), the poll goroutine that
copies the store at every tick and waits for the event loop to draw, and the
freeze. Entropies are tenths of a bit. `high` and `past` are history.

**DumpFile** is `memory.Dump`, one action per region, against a tracee that
unmaps, remaps, writes or exits in between, and a disk that takes a part of a
write. The file is a sequence of words; `ReadBack` is a reader of the format,
which the repository does not have; it is told how many entries there are.

**Wasi** is the table of host functions: a call that asks the interceptor once
is one action, the loops of `fd_write` and `poll_oneoff` take one action per
element. `answer` is where a call is: running, refused with an errno, frozen in
`select {}`, or panicking on an index. Memory is what a call reads of it: the
table of iovecs, and for `poll_oneoff` units of 16 bytes, because wazero's
`Read` returns a view of the guest's memory and the subscriptions, the events
and the word for `nevents` may overlap. The guest lays out the subscriptions
that begin in its table, which is shorter than their number says where the
length has wrapped. `judged` and `out` are history. **Executor** adds
`GuestExecutor`: runtimes and contexts are numbered, 0 is nil; a guest runs
between `Run` and `RunReturns`, and before that, for its start section, between
`LoadInstantiates` and `LoadEnds` or `InstanceFails`, and makes any calls it
likes. A hook may call `Terminate` meanwhile.

| Code | Model |
|---|---|
| `Push`, `Pop` | `PushCall` .. `PushPublish`, `PopCall` .. `PopAdvance` |
| `select` in `CSVWriter.Start` | `SelectDone`, `SelectTick`; `drain` is `DrainOne`, `DrainEnd`; then `Flush` |
| `policy.Load` | `LoadEmptyPath`, `LoadFails`, `LoadReads`, `BlockEntry`, `FsEntry`, `LoadReturns` |
| loop of `monitor.Run` | `SetOptions`, `Top`, `ResumeTracee`, `Wait4`, `RegsFail`, `GetRegs`, `HandleEntry`, `HandleExit`, `Enforce*`, `Forward` |
| key handlers | `F1`, `F2`, `F3`, `Q` in Tui; `PressF1`, `Kill`, `PressQ` in Monitor |
| `QueueUpdateDraw` | `Post`, `Send`, `LoopUpdate` |
| `Observe`, `record`, `snapshot` | `Observe`; `RecordEntropy`, `RecordHits`; `Snapshot`, `Draw` |
| `Dump` | `ReadMaps`, `Create`, `DumpFails`, `SkipRegion`, `ReadRegion`, `ReadFails`, `WriteCount` |
| `fd_write`, `doWritev`, `writeToFD` | `FdWrite`, `Iovec` (`Vec`, `Decided`, `WriteToFD`), `FdWriteEnds` |
| `poll_oneoff` | `PollOneoff`, `PollSub` (`Event`), `PollEnds` |
| `GuestExecutor` | `LoadInstantiates`, `LoadFails`, `LoadEnds`, `InstanceFails`, `AlreadyLoaded`, `Run`, `RunRefuses`, `RunReturns`, `Terminate` |

## 3. Runs

Definitions named as mutants in comments are plausible bugs; each property is
known to be violated when one of them replaces the definition it follows.

| Run | Instance | Shows |
|---|---|---|
| `ring` | capacity 4, 3 laps, 2 items; index arithmetic on 6 bits, capacities up to 33 | types, no slot race, refinement of BoundedQueue, no deadlock |
| `csv` | ring of 2, 5 events, 2 sessions | nothing lost or reordered, `Stop` flushes, no second header, the file only grows; events reach the disk, `Stop` returns |
| `policy` | files of up to 2 + 2 entries, 4 heuristic sections, paths of up to 3 segments | the trie decides as the list does |
| `monitor` | 9 calls, 2 descriptors, limit 2, 2 signals, 2 migrations | the safety properties of section 4, refinement of SyscallGate; no wedge, death is noticed |
| `tui` | `eventCh` of 2, update queue of 1, table of 2, 3 events, 2 keys, 1 dump | the table shows the latest accepted events; events are shown, quitting ends the loop |
| `entropy` | 2 descriptors, entropies 6.5, 7.2 and 7.8, thresholds 6.0, 7.2 and 7.5, limits 0 to 2, 4 records | the alarm is on time, the panel is never torn, an alarm comes up |
| `dump` | 3 regions of 2 pages, one of them special, 2 changes of the tracee, writes of nothing, a half or all | the entries read back, nothing left alone is missing from the file, `Dump` returns |
| `wasm` | a word of 128, tables of 0, 1, 2, 16 and 17 iovecs, 0 to 3 subscriptions in 5 places, `nevents` before, in and after the events or outside, 3 Loads, 2 calls | what goes out was decided, success is complete, no index past a buffer without a wrap, one runtime or none |
| `monitor_judged`, `monitor_trap`, `tui_step`, `dump_count` | as above or smaller | each refutes one sentence of a comment or of the repository's README, see section 5 |

Why the bounds are enough. Four slots are more than two, the smallest ring in
which a slot race, an overtaking pop and a partly filled ring differ, and three
laps let both counters wrap with the other on either side; the theorems of
section 6 then hold for all of them. Five events on a ring of two fill it,
overflow it and refill it after a drain, and two sessions give every pair of an
end (clean, crash, write error, each with a row broken off or not) and a start.
Two entries give every relation of two paths that matters to the walk (equal,
prefix, sibling, root, relative); three path segments walk past the deepest
entry. A limit of two is the smallest for which the write that reaches it is not
the first; two descriptors show that counts are kept apart; one of the writes is
`large`, so that writes nobody sees lie between those that count; two signals
and two migrations let Run lose the tracee's rhythm, or its thread, and find it
again. A table of two rows rolls with three events; an update queue of one makes
the goroutines compete for it. The three entropies lie below, at and above the
constant 7.2, and the thresholds on both sides of it; four records on two
descriptors leave writes of the other descriptor between two of one. With three
regions a failed read has a region before and one behind it, and one change
before and one after the first read is possible. On a word of 128 a table of 16
iovecs, one of 3 subscriptions and the sum of two buffers of 100 wrap, as 2^29,
89478486 and 4 GiB do in the code, and 17 iovecs wrap to a table of one; the
five places have the buffers of `poll_oneoff` apart, in either order, equal,
overlapping and past the end. Two calls show what a call leaves behind for the
next, three Loads a failed one before and after one that succeeds.

Fairness. The liveness properties are checked in the same runs, under
`FairSpec` or, in Entropy and DumpFile, `Spec`. In `csv` the goroutine and its
ticker run, with strong fairness for the `done` case: Go's select chooses at
random among what is ready. In `monitor` only Run is assumed to be scheduled. In
`tui` the event loop, the monitor and the drain goroutine run; strong fairness of
`Send` holds because a Go channel serves its senders in order. In `entropy` the
monitor goroutine and the event loop run, with strong fairness for `Snapshot`: a
goroutine that waits for a `sync.Mutex` gets it, by its starvation mode. In
`dump` the goroutine of F3 runs. `wasm` has no liveness property: a guest may
loop. Keys, ticks of the clock other than tickers, signals, the tracee and the
calls of `Stop` and of `Push` are never assumed to happen.

Deadlock is checked in `ring`. Elsewhere the system may stop: processes end, Run
returns, the monitor parks, a guest is frozen, bounds run out.

## 4. What is checked

* *Ring.* `NoSlotRace`: producer and consumer never copy through the same slot.
  `ImplementsQueue`: the ring refines BoundedQueue, ErrFull and ErrEmpty only at
  the limits.
* *Log.* `NothingLost`: while the disk works, what the ring accepted is on disk,
  in the `csv.Writer` and in the ring, in order, and on disk every event has its
  line, but for the first of a session that finds a broken row (section 5).
  `OneHeader`: no session writes a header to a log that is not empty, not even to
  one that has only a part of the header. `StopFlushesPending`, `LogOnlyGrows`,
  `EventReachesDisk`, `StopTerminates`.
* *Policy.* `TrieMatchesEntries`, with the entry `/` left out (see section 5).
* *Monitor.* `ImplementsGate`: without signals and migrations (`Calm`) the
  toggle never loses step; no call passes unjudged or is judged, logged or
  counted twice, and what becomes of it is what its verdict says.
  `RefusedNeverExecutes`: with any signals, a refused call is not executed as
  long as the goroutine keeps its thread. `FrozenInTime`: of the high-entropy
  writes the monitor can see, fewer than the limit are executed per descriptor;
  the others are not counted by the code and pass without limit.
  `LogTellsOutcome`, `NilMeansGone`, `FrozenStaysPut`, `StopIsServed`,
  `DeathIsNoticed`; the last two leave out step mode and the freeze, where
  section 5 shows that they fail.
* *Interface.* `TableShowsLatest` (the counter `traceRow` included),
  `EventIsShown`, `QuitEnds`; the liveness
  properties stop where F1 or F2 hang the event loop.
* *Entropy.* `AlarmOnTime`: the goroutine parks at the write that makes the
  limit on one descriptor, neither before nor after. `PanelIsPast`: what is drawn
  is the store between two records. `AlarmReachesPanel`: an alarm the store knows
  is drawn though nothing is ever recorded after it.
* *Dump.* `EntriesReadBack`: in a file without a failed write the entries follow
  each other to the end and read back to what was captured. `UntouchedIsInFile`:
  what the tracee leaves alone is in that file, once and whole, whatever happens
  to the regions before it. `DumpEnds`.
* *Guests.* `OutputFollowsDecisions`: at any point of `fd_write` the host was
  handed exactly the buffers let through, once and in order; a write error may
  keep it from getting all of one. `SuccessMeansAll`: success is reported only
  when every part that was judged was not refused, and by `fd_write` only when
  every buffer was judged, with the sum of the lengths; that includes buffers
  that were dumped, were for another descriptor or failed on the host.
  `PollAnswersItsSubscriptions`, for events that overlap nothing else;
  `PanicOnlyOnWrap`, for any layout; `DefaultRefusesNothing`; and `LoadedIsWhole`
  for the life cycle.

## 5. Where the code disagrees with what is said of it

With a run that TLC refutes, each against the sentence quoted in `PROJECT.json`:

* After a signal has been forwarded, `continue` resumes the tracee again, and an
  entry stop it has reached meanwhile is resumed without being looked at
  (`monitor_judged`).
* The trap after an execve is forwarded and kills the tracee (`monitor_trap`).
* The first F1 hangs the interface (`tui_step`); F2 does the same.
* The region count of a dump is at offset 20, over the upper half of the pid, and
  not at 24, where the first entry is (`dump_count`); a reader has to know.

Facts of the code met while modelling. No run states them, but the conditions of
the properties of section 4 do, where they are about one:

* Telemetry: `Len` reads head before tail, so a `Pop` in between makes it
  negative. Two gbrl processes that open one new log at once may both write the
  header. After a session that ended in the middle of a row, the first event of
  the next one continues that line and is no row of the log (the exception in
  `NothingLost`); a log whose first write left a part of the header never gets one
  (`Part(Header)` in `OneHeader`).
* Policy: the entry `/` opens nothing but `/` itself once there is another entry
  (`TrieMatchesEntries` leaves it out), though the comment on `Insert` allows
  subtrees of every terminal node. A heuristic section without `entropy_window`
  is ignored as a whole, and the window itself is never used. `SYS_ACCEPT4`
  names another number (280) than accept4 has (288).
* Monitor: relative paths are judged from the root, not from the tracee's
  directory. The goroutine is not locked to the thread that may use ptrace:
  where `PtraceGetRegs` fails on another one, the loop resumes the tracee
  unjudged, and where `PtraceSetRegs` does, its error ignored, a denied call is
  executed (`migrations = 0` in `RefusedNeverExecutes` and `Calm`). The death of
  a frozen tracee, or of one that waits for a step, does not make Run return
  (the exceptions of `DeathIsNoticed`). After a forwarded signal Run may also
  return with ESRCH while the tracee lives. Quitting gbrl releases a frozen
  tracee: `FrozenStaysPut` ends with Q. In step mode one F1 advances half a
  call, from a stop to the next. High-entropy writes of more than 1 MiB, or of
  memory that cannot be read, are executed uncounted. A limit of 0 or less,
  which `Load` accepts, freezes at the first write that counts, as a limit of 1
  does.
* Entropy: nothing calls `Reset`, so a descriptor that is closed and reused keeps
  its count. A write below 7.2 that raises an alarm under a lower threshold never
  comes up in the panel, and `Hits` counts alarms only, which means at most one.
  `monitoredPID` is never cleared.
* Dump: `Dump` returns nil although writes have failed. `Special` skips every
  region without a path, so the anonymous memory of the tracee is not in the
  dump.
* Guests: `random_get` and `poll_oneoff` ask no hook, though `OnRandomGet`
  exists and the README of the repository calls their interception
  policy-enforced; of them `SuccessMeansAll` says nothing. The buffers
  `OnWriteBuffer` is given are views of the guest's memory, not copies. An error
  of the host's stdout is not reported to the guest. A frozen call is not
  released by `Terminate`. A refused `fd_write` is an errno for the guest, which
  may go on and exit normally. `Load` after `Terminate` succeeds, but the next
  `Terminate` closes nothing, since `closed` is never reset. A failed `Load`
  leaves its context uncancelled. A hook that terminates the executor out of the
  start section of its guest makes `Load` close a nil runtime, which panics.
  `gbrl-wasm` ends in `os.Exit`, which skips the deferred `Terminate`.

## 6. What is proved

Every safety property that a passing run checks is a theorem, and so is every
action property and both refinements: each holds for every value of the constants
that the assumption of its module admits. There is one module of proofs per
component.

`SpscRing_proofs`, for every capacity of at least one, every number of laps of at
least two and every set of items:

* `RaceFree`: `Window` is the inductive invariant: the occupied slots are
  between 0 and Cap, the local copies of head and tail are those of the owner's
  counter, and a producer that has passed its check, or a consumer that has,
  keeps its room, or its item, whatever the other does. Two positions in one
  window of at most Cap have different slots, which is where Cap dividing the
  modulus is used (`SlotsDiffer`); the arithmetic of a wrapping counter is in the
  lemmas before it.
* `RingIsQueue`: the ring implements BoundedQueue, with `Contents` for its queue.
  `Data` is the invariant on top of `Window`: a written item is still in its slot
  when it is published, a taken item when its slot is freed. `RowPush` and
  `RowPop` say that an advance of head appends to the contents and one of tail
  drops the first; `RowWrite` that the write of a free slot is invisible, by
  `SlotsDiffer` again. Every other action is a stutter (`RefineStep`).
* `TypeCorrect`: the ranges of the locals (`Types`) are inductive by themselves;
  that no more than Cap slots are occupied is part of `Window`, and that they hold
  items only follows the contents from step to step (`ContentsStep`).

`CsvLog_proofs`, for every capacity and any number of events and sessions, from
`LogAssumption`: `TypeCorrect`, `NoEventLost`, `StopIsComplete`, `HeaderOnce`
and `LogGrows`. The first half of `NothingLost`, `Kept`, is an equation between
four sequences and is almost inductive by itself; what it needs is that a
working disk has a header (`Header1`), so that the rows after it are this
session's (`WrittenGrows`, by `AfterConcat`), and that nothing is in memory
between sessions (`Memory`). The second half follows from it: what a session has
put on disk is then made of accepted events, no parts, so only the row before
its first can be one. What a broken-off write leaves is rows of its own and at
most one part, and a header or its part only in front (`BrokenOffRows`,
`BrokenOffHeader`), which gives `HeaderOnce`. `Pending` carries the rest of
`StopFlushesPending` through the last drain and the last flush: with the ring
empty, disk and buffer hold all that was accepted, so at least what had been
accepted when `Stop` was called.

`PolicyLoad_proofs`, for every policy file with any number of entries over any
segments, from `PolicyLoadAssumption`:

* `TrieDecidesAsEntries`. While `Load` inserts, the trie is exactly the prefixes
  of the entries so far, those marked terminal that are entries themselves
  (`IInv`). The walk of `IsAllowed` looks for the first part that is missing or
  terminal: where a path is under an entry, the shortest such entry is that part
  (`Least`), and every part before it is there because it is a prefix of that
  entry; where it is under none, the first missing part is not terminal, and the
  walk that misses nothing ends at a node that is no entry. It rests on what
  `Parts` returns being a sequence, by induction over the segments (`Cleaned`).
* `TypeCorrect` follows from the same invariant.

`Monitor_proofs`, for every set of calls, every policy and any number of signals
and migrations, from `MonitorAssumption` alone:

* `IInv` is the type invariant with four parts. `Place` says where the tracee
  can be while Run is at each point (stopped at a syscall, or dead, or let go by
  Q, while Run looks at it; frozen likewise). `Limit` says that a descriptor
  whose count has reached `FreezeAt`, the limit or 1 if that is less, has frozen
  Run or is about to; without it the type of `hits` is not inductive. `Parked`
  says that the verdict Freeze leads to `select {}` and nowhere else. `Refusal`
  follows a refused call from its entry stop to the resume. Each part has a
  lemma with one step per action.
* `TypeCorrect`, `RefusedNeverRuns`, `FreezeHolds` (an action property) and
  `NilIsHonest` follow from it, the last with its own induction.

Its second half adds what holds while no signal stops the tracee, the goroutine
keeps its thread and the user has not quit (`Calm`), for any number of calls:

* `CalmInv` relates the place of the tracee to that of Run. `InStep`: at an
  entry stop Run has either not looked yet, with `inSyscall` false, or looks at
  it, or holds the verdict of this very call; in the kernel is only a call that
  was allowed, or one whose number was overwritten. It is the invariant behind
  the toggle, which no single variable shows. `InLog`: the last event is the one
  of this call with its outcome, unless the tracee died meanwhile. `InCount`: an
  observable write is counted before it is executed.
* `JudgedBeforeExecuted` (`ExecutedIsAllowed`, which no run checks because
  `ImplementsGate` says more), `WritesBounded` and `LogIsTrue` are its
  consequences.
* `RunIsGate`: Monitor implements SyscallGate. By `InStep`, `handleEntry` finds
  the tracee at the entry stop of a call that has no verdict (`GateJudges`), or
  dead since it copied the registers (`GateEnds`, `GateLogsDead`), and the
  resume from an entry stop finds it with the one just given, its number
  overwritten if that is Deny (`GateFollows`); the exit stop, the toggle and the
  way between are stutters (`GateMoves`), and what ends the calm is `Lose`.

`Tui_proofs`, for any capacity of `eventCh`, size of the table, queue and number
of events: `TableIsLatest`. `Latest` counts instead of concatenating: the events
accepted are those shown, the one in the hand of the drain goroutine (`InHand`,
from its receive until the event loop has run its closure) and those in
`eventCh`, and each of the three is the right segment of `sent`. `Bodies` says
that only the drain goroutine's closure holds a row, so that no other goroutine
adds one, and `RowAdded` that rolling by `traceRow`, which is one ahead of the
length of the table, and appending moves the segment of the table by one.

`DumpFile_proofs`, for any number of regions, any page count and any changes of
the tracee, from `DumpAssumption`:

* `DumpIsComplete`: lines come by ascending address (`Lines`), so a region is
  captured at most once, and only when Dump is past it (`Captured`); a region
  that is untouched is as its line says, and captured when Dump is past it
  (`Untouched`). So every such region is captured once, and in a file without a
  failed write the entries are what was captured, by the next theorem.
* `DumpReadsBack`: while no Write has failed, there are places `pos` in the file
  at which the entries lie, each ending where the next one begins (`Laid`). The
  reader finds them by adding up the length words: by induction over the entries,
  `EntryAt` is `pos` (`PlacesAgree`). An appended entry leaves those before it
  where they are (`LaidGrows`), and so does the count, which replaces a word of
  the header.
* `TypeCorrect`.

`Entropy_proofs`, for any descriptors, entropies, thresholds, limits and number
of records: `Below` says that all counts are below the limit unless the alarm is
on its way, which makes the type of the counts inductive and gives
`FrozenOnTime`; `Held` and `Copies` say that outside of the mutex the store is
the latest past store, and the copies are past stores, which gives
`PanelWasStore`; `Hits` that the first alarm is the last.

`Executor_proofs`, for any word, memory, tables, subscriptions and number of
calls, and any interceptor:

* `WasiInv` has one part per question. `Table` and `Buffers` say what a running
  loop knows of its arguments (the table is as long as the wrapped length lets it
  be, both buffers are in the memory); every index the loops compute is then in
  range, or the length has wrapped (`TableFits`, `SpanFits`): `PanicNeedsWrap`.
  `Trace` is `OutputFollowsDecisions` judgement by judgement, with the fact that
  what has gone out is not ahead of the loop (`UpTo`), without which the order is
  not inductive: `OutputIsDecided`.
* On top of it, `Chosen` says that a call is made by a running guest only and
  under the interceptor of the last `Load`, so that a `Load` changes it for no
  call in progress: `DefaultAllows`. `LoadedIsWhole` is inductive with the
  numbering of the runtimes, since a Load under way has a runtime or has been
  terminated: `LoadedWhole`. `TypeCorrect` is there too.
* `Succeeds` follows the two loops to their success. `Tallied`: before iovec `i
  + 1` those judged are the buffers before it that are not empty, in order, and
  the counter is the sum of their lengths modulo the word (`RemainderOfSum`:
  wrapping at every addition is wrapping once): `SuccessIsWhole`. `Answered`:
  while the events overlap nothing (`Apart`), the events before subscription `i
  + 1` are answered, the wait is the shortest of the clocks among them, and the
  rest of the memory, the subscriptions to come included, is as the guest laid
  it out, but for the word for `nevents` at the end (`Told`): `PollIsAnswered`.

How induction is done. The induction theorems of the library take a predicate as
a parameter, which the installed provers cannot instantiate. The modules that
need one state it for sets: a set that has 0, and with every natural number its
successor, has them all (`Induct`), because the naturals are well founded under
less-than. With the set of the places up to which a recursive function is
defined, or as intended, this gives the existence of `EntryAt`, `Cleaned` and
`Sums` and what they compute.

Only model-checked: all liveness, which the prover does not handle; the index
arithmetic on bits, which it cannot evaluate; and the runs that refute a sentence.

## 7. What is not modelled

Entropy arithmetic, YAML, formatting of rows, layout of the screen and the clock
(in Tui they only compete for the event loop), network and mount namespaces,
threads and children of the tracee (the code does not trace them), pids and
their reuse, two gbrl processes on one log file, and `gbrl-wasm`, which is one
fixed order of the calls of Executor. `ActionDump` has no action because
`Evaluate` never returns it, `wait4` no error because nobody else collects the
tracee, and `Reset`, `Len` and `CallRecord` none because nothing uses them.
`ReadGuestMemory`, `DumpMemory` and `PID` change nothing. `stepMode` is read as
it is at that moment, though the data race on it would allow a stale value.
wazero is external: its own WASI functions, which are there beside the
overridden ones, compilation and the guest's code are choices; it is taken to
instantiate nothing in a runtime that has been closed. Of an entry of a dump the
permissions and the path are words without contents; a page changes as a whole,
so a read that overlaps a write of the tracee within a page is not told apart
from one before or after it.

## 8. Plan

Done: every component that keeps state, the refinements of the ring buffer and
of the monitor, and every safety and action property of the passing runs as a
theorem.

Left, in this order:

1. The safety half of `EventIsShown`: nothing that `eventCh` accepted is skipped
   by the drain goroutine, however the loop ends.
2. An abstract `Log` (accept, persist, end of a session) that CsvLog implements.
3. Monitor and Entropy composed, with `close(2)`, if the code comes to look at it.
