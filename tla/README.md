# TLA+ models of the msh telemetry recorder

This directory holds TLA+ models of the repository's code, the TLC
configurations that check them, and `PROJECT.json`, which maps every model
definition to the source lines it translates and lists the runs, mutants,
findings and hazards.

## 1. Inventory

### The system

The repository is a set of Python scripts around one long-running program, the
**telemetry recorder** `src/record data/standalone-recorder_v2.py`. It polls
MTConnect controllers over HTTP and appends the samples to per-machine JSONL
logs. Its earlier version is `src/standalone_recorder.py`. The other scripts are
consumers: they read the logs after the fact. `auto_connect.py` is an unrelated
screen-automation tool that lives in the same repository.

| Component | Code | State it keeps | Operations |
|---|---|---|---|
| Snapshot Parser | `extract_mtconnect_values`, `try_number` (v2 91-135, 53-62) | none | XML → flat dict plus `sequence`; returns `{}` on a parse error |
| Sequence Deduplicator | `last_sequence`, `fetch_loop` 153-168 | `last_sequence` | accept if there is no sequence (heartbeat) or it differs from the last one |
| Backoff Controller | `per_source_backoff`, 169-174 | delay per source | double up to `BACKOFF_MAX` on an exception, reset on a recorded sample |
| Poller | `fetch_loop` 138-183 | `next_tick`, loop position | one request per source per cycle, append to the buffer, update the dedup and backoff tables |
| Sample Buffer | `buffer`, `buffer_lock` | list of samples | locked append with an overflow valve; locked swap-and-clear |
| Flusher | `flush_loop`, `flush_buffer_to_disk` 185-222 | `to_write` | drain; meant to append each entry to `DATA_DIR/<machine>/<day>.jsonl` and then `state_save`, but the drain leaves `to_write` empty (section 3) |
| State persistence | `state_load`, `state_save` 67-88 | `STATE_FILE` | load once at start; `state_save` (temp file and `os.replace`) is never reached |
| Shutdown Coordinator | `request_stop`, `run` 225-252 | `stop_event` | signal → stop flag → main thread's final flush → process exit |
| First recorder | `src/standalone_recorder.py` | unlocked `buffer`, `last_sequence` | the same loops with no lock and no state file |
| Stop detection | `find_stops.py` `main`, `group_stops` | none | per day file, group stop timestamps into intervals with gap ≤ 2 s |
| Playback simulator | `data_simulator.py` | Streamlit session `index`, `playing`, `last_run` | play/pause, reset, step on rerun |
| Screen automation | `auto_connect.py` | `pause_event`, `cooldown_event` | listener callbacks, resume thread, main click loop |
| Batch analyses | the other scripts | none | pandas statistics and plots over the logs; gap counts of sequence numbers |

**How they interact.** In the recorder, three threads share one process:

- the fetch thread (`fetch_loop`);
- the flush thread (`flush_loop`);
- the main thread (`run`), which also runs the signal handler.

The fetch and flush threads share `buffer`. It is guarded by `buffer_lock`
for the append and for the drain. At shutdown the main thread calls
`flush_buffer_to_disk` as well. It does this while the two worker threads
are still running, because they are daemon threads and are never joined.

The drain is `to_write, buffer[:] = buffer, []` (v2:190). Python evaluates
the right side first, so `to_write` is bound to the buffer list itself, and
`buffer[:] = []` then empties that list. The write loop therefore never
runs, `written` stays 0, and `state_save` is never called. The recorder as
written accepts samples and discards them at the next flush; it writes no
log line and no `STATE_FILE`, and `state_load` finds nothing at a restart.
The models follow the code, not the intent (finding `drain_discards`).

**What is hard.**
- Interleavings of three threads around one lock.
- A drain whose aliasing a test that only checks the emptied buffer misses.
- A final flush that runs while the daemon threads still append.
- Overflow arithmetic at the buffer bound.
- The retry policy of the backoff.

The `hazards` list in `PROJECT.json` names each of these at its line.

**What makes each component correct.**
- Buffer: it stays within `MAX_BUFFER_SIZE`, and overflow evicts the oldest samples.
- Flusher: every accepted sample is logged or explicitly dropped, and each
  machine's log is in arrival order (this fails: `drain_discards`).
- Shutdown: no buffered sample is lost.
- Backoff: a success resets the delay, and a failing source never delays the
  others.
- Dedup: a sample is accepted iff it is new.

## 2. Plan

Modules, in order of importance. ★ marks a module that is built and checked.

1. ★ `Recorder` (+ `MC_Recorder`): the v2 recorder's three threads, buffer,
   dedup, backoff, drain, shutdown, crash and restart.
2. ★ `RecorderClock` (+ `MC_RecorderClock`): `fetch_loop` with a discrete
   clock and the data abstracted away, so the blocking backoff sleep and the
   per-source polling delay (spec 4.2) can be stated (section 8).
3. ★ `RecorderAbstract`: what the recorder promises. Accepted samples move to
   the per-machine log in order, and they are lost only by explicit eviction,
   a write error or a crash. `Recorder` is then checked against it with
   `INSTANCE ... WITH` a refinement mapping; the code does not implement it
   (`drain_discards`, section 3).
4. ★ `RecorderV1` (+ `MC_RecorderV1`): `standalone_recorder.py`, with the
   unlocked flush and append as Python executes them.
5. `Parser`: `try_number` and the key choice of `extract_mtconnect_values` as
   operators over a small token alphabet. This separates the malformed-XML
   heartbeat from a document without `lastSequence`, and controller sequence
   regression (spec 9) is added to `Recorder`.
6. ★ `StopGroups` (+ `MC_StopGroups`): `find_stops`, `group_stops` and
   `main()`'s loop over day files, checked against a reference definition of maximal runs with gaps of at
   most `MAX_GAP_SECONDS`. The reference is a set comprehension; no
   recursion is needed.
7. ★ `Playback` (`data_simulator.py`) and ★ `AutoConnect`
   (`auto_connect.py`).
8. ★ `MissingSequence`: the gap count of `missing_per_day_by_machine.py`,
   composed with `RecorderV1`'s log (section 4).

## 3. The `Recorder` module

**State.**

| Variable | Code |
|---|---|
| `srcSeq` | each controller's `Header/@lastSequence` (environment) |
| `lastSeq` | `last_sequence` (`NONE` = key absent) |
| `backoff` | `per_source_backoff`, in units of 0.5 s |
| `buffer` | `buffer` |
| `stop` | `stop_event` |
| `up` | process alive |
| `pc`, `idx`, `pending` | where each thread is; `parsed` in `fetch_loop` |
| `nextId`, `evicted`, `discarded`, `crashLost`, `killed` | history: arrival numbers and where samples went |

A sample is `[id, machine, seq]`. The id is a ghost arrival number. The
fields extracted from the XML are not modelled, because no property reads
them. There is no variable for the logs, `to_write`, `written` or
`STATE_FILE`: the code never writes the logs or the state file, and
`to_write` is always empty.

**Actions.** Each action is one atomic step of the code between two points
where another thread can act:

- fetch thread: `FetchLoop`, `FetchBreak`, `FetchError`, `FetchEmpty`,
  `FetchDuplicate`, `FetchAccept`, `FetchAppend` (the locked block, overflow
  valve included), and `FetchUpdate` (`last_sequence` and backoff after the
  lock);
- both callers of `flush_buffer_to_disk`: `DrainEmpty` (`if not buffer:
  return`) and `Drain`. `Drain` is lines 190-216 as they execute: the
  aliased tuple assignment empties the buffer, the loop over the empty
  `to_write` does nothing, and `if written:` skips `state_save`. The
  drained samples go to the history set `discarded`;
- flush thread: `FlushLoop`;
- main thread: `MainWait` and `Exit`. The interpreter exits when `run()`
  returns, and the daemon threads die with what they hold;
- environment: `Advance` (a controller's sequence grows), `RequestStop`,
  `Crash` (memory lost) and `Restart` (`state_load` finds no `STATE_FILE`,
  so `last_sequence` starts empty).

A sleep has no effect on the state, so it is modelled as the point where the
other threads may act. No run needs fairness: every property is a safety
property.

**Runs.**

| Run | Expect | Shows |
|---|---|---|
| `recorder_steady` | pass | With one source, a crash and a restart, every variable keeps its type (`TypeOK`); the mutant removes the `BACKOFF_MAX` cap. |
| `recorder_system` | pass | With both sources, a signal, a crash and a restart, the overflow valve keeps the buffer within `MAX_BUFFER_SIZE` (`BufferBound`). It evicts the oldest entries first while the flushers drain the buffer concurrently (`EvictsOldest`). |
| `drain_discards` | violation | `Refinement`. One sample is accepted and appended; the flush thread's drain empties the buffer, and the sample is in no log, was not dropped and was not lost in a crash. |
| `shutdown_loss` | violation | `ShutdownKeepsBuffered`. The main thread flushes an empty buffer and returns. The fetch thread, which tests `stop_event` only between sources, appends afterwards, and the process exits with the sample still buffered. |

The bound `MaxBuffer = 2` only reaches the `or 1` branch of the drop count.
With the code's `MAX_BUFFER_SIZE` of 50,000 the drop is always `len // 10`,
at least 1, so `BufferBound` and `EvictsOldest` hold for it for the same
reason. The `// 10` branch (bound 20, two entries dropped) was checked with
one source and no crash or signal, in about 1.1M states; with a signal
added it is beyond TLC's reach here, so no run keeps it.

Each property of a passing run has a mutant in `PROJECT.json`, and TLC finds
each mutant violating it:

- the backoff cap removed;
- `>` instead of `>=`;
- eviction of the newest entries.

**Refinement.** `RecorderAbstract` states what the spec promises about an
accepted sample, with threads, locks and files abstracted away. Its state
is a queue of unresolved samples per machine, the per-machine logs, the
dropped and lost sets and an arrival counter. Its actions:

- `Accept(s, v)` appends a sample to machine `s`'s queue;
- `Write(s)` moves the head of the queue to the log, so a sample is logged
  once and in arrival order;
- `Drop(D)` discards queued samples on purpose;
- `CrashLose` loses everything queued.

Clean shutdown is not a way to lose a sample. `Recorder` instantiates it as
`Abs` with this mapping:

| Abstract | Concrete |
|---|---|
| `queue[s]` | the samples of `s` in `buffer`, or in `parsed` before its append (`InFlight`), sorted by arrival |
| `alog` | empty for every machine: nothing is ever written |
| `dropped` | `evicted` |
| `lost` | `crashLost` |
| `count` | `nextId` |

`Refinement == Abs!Spec` is checked as a PROPERTY. The fetch step maps to
`Accept`, an eviction to `Drop` and `Crash` to `CrashLose`. A drain of a
non-empty buffer removes samples from the queue with none of these, and TLC
reports that step (run `drain_discards`). Had the drain bound `to_write`
to the old list and a new one to `buffer`, the write loop would map to
`Write`.

**Bounds.**
- One source suffices for the per-machine properties. Two sources are used
  where `SOURCES` order matters.
- `MaxSeq` is 0 or 1. Heartbeats (`NONE`) still create new samples.
- `MaxSamples` is 3, which is enough to fill a buffer of 2 and overflow it.
- There is at most one crash, one restart and one signal.
- `BackoffMax` equals `BackoffInitial` in the runs that do not check backoff.
  The delay's value affects no other state in this model, because sleeps are
  abstract.

Every counterexample above needs at most 3 samples and one event of each
kind.

**Not modelled here.**
- Wall-clock time: the tick drift correction and the length of the sleeps
  (`RecorderClock` models them).
- The XML content beyond the sequence.
- The write loop (194-211) and `state_save` (81-88): they are unreachable
  because `to_write` is always empty, so modelling them would add behaviour
  the program does not have.

## 4. The `RecorderV1` module

`src/standalone_recorder.py` has the same fetch, flush and main threads as
v2, but it has no lock, no state file, no backoff and no buffer bound. It
writes one log file for all machines. Python runs each bytecode atomically,
and the model's steps follow from that:

- `FetchAccept` stamps `parsed` and loads the global `buffer`.
  `FetchAppend` calls `append` on the list it loaded. Another thread may run
  between the two.
- `FlushCheck` is `if not buffer`. `FlushWrite` is one iteration of
  `for entry in buffer`: the loop walks the live list by index, so it also
  writes entries appended during the walk.
- `FlushClear` is `buffer = []`. It rebinds the global. A fetch thread that
  loaded the old list before the rebind appends to a list nobody reads;
  `stale` records that.
- `Interrupt` sets `stop_event`. `JoinThreads` waits for both threads, then
  the main thread runs the final flush, and then `Exit`.

| Run | Expect | Shows |
|---|---|---|
| `v1_shutdown` | pass | The log stays in arrival order (`LogOrder`). Because v1 joins both threads before its final flush, a clean exit leaves nothing buffered (`ExitLeavesNothingBuffered`). This is the property v2 lost (`shutdown_loss`). |
| `v1_lost_update` | violation | `NoLostSample`. The flush walk ends, the fetch thread loads `buffer`, `buffer = []` rebinds it, and the append goes to the orphaned list. The sample is gone, and `last_sequence` already says it was recorded. This is the lost update v2's `buffer_lock` removes. |

The mutants are:
- `insert(0, …)` instead of `append`;
- joining only the flush thread;
- the dedup test without `is not None`, which makes TypeOK fail because a
  `None` sequence gets recorded.

The bounds are two sources, sequences up to 2, and 4 samples. The lost update
needs one sample and one flush.

**Composition with the gap count.** The batch analyses read
`DATA_DIR/*.jsonl`, which is the first recorder's layout; the v2 recorder
writes per-machine directories instead. The module `MissingSequence`
translates the gap count of `missing_per_day_by_machine.py`:

- `RowsOf` is the per-machine timestamp sort;
- `SequenceGap` is `diff().fillna(1)`;
- `MissingCount` is `clip(lower=1) - 1`;
- `MissingOfMachine` is the sum per machine, over all days.

`RecorderV1` feeds it the log as rows (`LogRows`). Each machine gets one
sample per fetch cycle, stamped with the cycle's start time, so within a
machine the timestamp order is the arrival order.

`MissingCountExact` (in `v1_shutdown`) says that for every machine the count
equals the number of sequence values inside the machine's logged range that
the log does not hold. This must hold across any interleaving of the
machines in the shared file and any lost sample. The mutant replaces the
per-machine diff with the cross-machine diff of
`analyze_missing_sequence_number.py` (`MissingAcrossMachines`). TLC breaks
it with two samples: `s1` at 0 and then `s2` at 2 charge a phantom gap to
`s2`. That older script has exactly this defect, which its successor's
comment at line 46 fixes.

Not modelled:
- counter resets and clock steps, which `clip` turns into hidden gaps (a
  hazard in `PROJECT.json`);
- the other analysis scripts, which are plots and statistics with no
  control flow to check. `corrolation.py` repeats `find_stops.py`'s
  per-file grouping (modelled in `StopGroups`, with other constants), then
  credits a stop's whole duration to the hour it starts in (a hazard, with
  no property: its check would be a violation run, and the project already
  has its 12);
- in `RecorderV1`, the date at flush time that names the first recorder's
  log file (samples taken just before midnight land in the next day's
  file). `StopGroups` models its effect on the analyses that read those
  files.

## 5. The `AutoConnect` module

`auto_connect.py` runs these threads:
- a mouse listener and a keyboard listener, from pynput. Every callback
  calls `trigger_pause`;
- one daemon `resume` thread for each pause that is started;
- the main loop.

`trigger_pause` is four steps:
1. `CheckCooldown`;
2. `SetPause`;
3. `SetCooldown`;
4. `SpawnResume`.

`resume` is three steps: `ResumeWake` (the end of `sleep(60)`),
`ResumeClearPause` and `ResumeClearCooldown`. The main loop is:
- `MainWait`, which sleeps while paused;
- `MainCheck`;
- `MainLocate`, where the template is found or not;
- `MainClick`;
- `MainSleep`.

Time is abstract. User input (`Input`) is bounded by `MaxEvents` and gets no
fairness. The threads get weak fairness, because the OS runs them.

| Run | Expect | Shows |
|---|---|---|
| `autoconnect_resume` | pass | However the listeners and the resume threads interleave, once input stops the pause is lifted for good (`EventuallyResumes`, 3 events). The mutant is a `resume` that drops `pause_event.clear()`. |

Both listeners can pass the `cooldown_event` test before either sets it,
so two resume threads run for one pause, and the later one can end a pause
set by new input after the first one finished. The model reaches this
state (two resume threads pending) with two inputs. Nothing in the
repository claims a single resume timer, and the two timers end within a
few steps of each other, so no run states it. The hazard list keeps it.

The main loop tests `pause_event` once and then clicks after a screen grab,
so input that arrives in between still gets clicked. The model reproduces
this in one input. It is listed as a hazard without a run.

## 6. The `StopGroups` module

`find_stops.py`'s `main()` reads each `DATA_DIR/<day>.jsonl` file in date
order and runs `find_stops` and `group_stops` on it alone. Those files are
the first recorder's layout: it names a file by the date of the flush
(`standalone_recorder.py:93`), so a row lands in its timestamp's day or, if
the flush came after midnight, the next day. Flushes write in time order, so
a later row is never in an earlier file. `find_stops` filters the rows;
`group_stops` sorts them, groups them by machine and walks each machine's
timestamps. The model works like this:
- `Init` chooses the rows of all files: up to 3 rows of 2 machines,
  timestamps 0..3, days of 2 s, one numeric column, each row in its day's
  file or the next, files monotone in time.
- `NextFile` takes the next file (`FileRows` is `load_jsonl`: the file's
  rows sorted by time), or ends `main()`.
- `Begin` runs the filter and takes the groupby keys; no stops means the
  file is skipped.
- `NextMachine` opens a group, with `start, last = None, None`.
- `Step` is one loop iteration: a gap `<= MaxGap` extends the interval,
  otherwise it is closed.
- `EndMachine` appends the open interval; `EndFile` hands the file's
  intervals to `main()` (they are plotted, and `corrolation.py`
  concatenates them).

Properties:
- `GroupsAreMaximalRuns` compares each file's result with an independent
  set-based definition: the maximal sets of stop times in which each point
  but the last has a successor at most `MaxGap` later, ordered by machine
  and start.
- `SplitOnlyUndercounts` is about the cut between files. A stop running
  across a file boundary is reported as two intervals (TLC reaches such
  states: the per-machine sums then differ). The property says the cut only
  splits: every reported interval lies within one stop of the whole log,
  and the per-machine duration sum that `corrolation.py` pivots never
  exceeds the whole log's. It relies on the files splitting the log in
  time.

The run reaches 1,959,746 distinct states in about 40 s. `MaxGap = 1` with
timestamps 0..3 puts gaps below, at and above the boundary, and the two days
give rows in the next day's file.

The mutants are:
- `<` for `<=` at the gap boundary;
- `start - last` for the duration;
- a group that does not reset `start, last` (the interval then starts at
  the previous machine's stop), caught by `SplitOnlyUndercounts`.

Timestamps are whole seconds; the numeric-column count is the same in every
file. JSON parsing in `load_jsonl` and the plots are I/O and are not
modelled.

## 7. The `Playback` module

Streamlit reruns `data_simulator.py` from the top on every interaction and
every `st.rerun()`. Only the session state and the widget values survive.
One run is one action:
- `TogglePlay`, where the button flips `playing`;
- `Reset`, where the callback runs before the script;
- `SelectMachine`, where `df` is refiltered;
- `AutoRerun`, the rerun the previous run requested.

All four share `FinishRun`, which is lines 68-96. `st.slider(value=index)`
and `df.iloc[index]` raise when the index is past the frame, and the run
then ends without `st.rerun()`. Otherwise, when playing and the step time
has elapsed, `FinishRun` advances, clamps and stops at the end. Whether
`now - last_run >= speed` holds is a nondeterministic choice. `AutoRerun`
gets weak fairness, because Streamlit honours `st.rerun()`. The user gets
none. The cfgs say `CHECK_DEADLOCK FALSE` because an app with no rerun
pending waits for input.

| Run | Expect | Shows |
|---|---|---|
| `playback_equal` | pass | With two machines of 5 rows and 6 inputs, the index stays within the frame (`TypeOK`), and playback stops once the user stops clicking (`PlaybackEnds`). The mutants drop the clamp and drop `playing = False` at the end. |
| `playback_switch` | violation | `IndexInRange`. Playing a 4-row frame and then selecting a 2-row machine keeps an index of 2 or 3, past the new end. Every later run raises until Reset is pressed. |

## 8. The `RecorderClock` module

`Recorder` abstracts time away. `RecorderClock` keeps the clock of
`fetch_loop` and abstracts the data instead. Time counts ticks of 0.1 s, and
the run uses the code's constants:

- `POLL_INTERVAL` is 2 ticks;
- `REQUEST_TIMEOUT` is 10;
- `BACKOFF_INITIAL` is 5;
- `BACKOFF_MAX` is 80.

A request to a reachable source takes one tick. `Init` chooses which
sources are unreachable for the whole behaviour. The steps are:

- `Loop`: the cycle starts;
- `RequestOk`: the request succeeds, and the backoff is reset only if the
  sample is recorded;
- `RequestFail`: the request raises after the timeout and the backoff
  doubles;
- `BackoffSleep`: `time.sleep(per_source_backoff[name])`, inside the loop
  over `SOURCES`;
- `Tick`: sleep to `next_tick`, or reset it when the loop is behind;
- `Done`: stutters once no cycle may start before `MaxTime`.

| Run | Expect | Shows |
|---|---|---|
| `backoff_blocks` | violation | `HealthyPolledOnTime`: before a request to a reachable source, no more than one poll interval plus every source's request timeout has passed since its previous request. With `s1` unreachable, `s2` is requested at 2.0 s and then at 5.1 s. In between, `s1` timed out (1 s) and slept its doubled backoff (2 s) inside the shared loop. |

`MaxTime` is 6 s, which is enough for two failures of `s1`. Stop signals and
the data path are left to `Recorder`.

## 9. Findings

| Run | Code | What |
|---|---|---|
| `drain_discards` | v2:190 | The drain's tuple assignment binds `to_write` to the buffer list and then empties it, so nothing is ever written to a log and `state_save` never runs (spec 4.4). |
| `shutdown_loss` | v2:248 | The final flush does not wait for the daemon threads, so a sample appended after it is lost (spec 4.6). |
| `backoff_blocks` | v2:174 | The backoff sleep runs inside the shared loop over `SOURCES`, so an unreachable source delays the healthy ones (spec 4.2). |
| `v1_lost_update` | v1:98 | `buffer = []` after an unlocked walk loses a concurrent append. |
| `playback_switch` | data_simulator:70 | The session index outlives a change of machine. |

Also checked before, and no longer a run: per spec 4.2, a successful fetch
should reset the backoff. The code resets it only when the sample is
recorded (v2:169); the hazard list keeps this.

Not done: plan item 5 (a `Parser` module, with controller sequence
regression, composed into `Recorder`). `extract_mtconnect_values` walks an
XML tree; `Recorder` abstracts it to its one effect on the control flow, a
`sequence` or none (`ParsedSeqs`). A faithful parser model would mostly
model the XML itself. Its edges (a data item named `sequence` overwrites
the header's; whitespace-only text becomes `""`) are in the hazard list.
Controller sequence regression is an open question in the spec (section 9
there), not a rule the code breaks. The other hazards without a property
(v2:169 and v2:142, v1:94 and v1:116, corrolation.py:89) are either a
one-step disagreement visible at the line, or need a model of data (wall
time, file errors) that no other property uses. Their notes in
`PROJECT.json` say which.
