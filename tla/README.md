# A TLA+ verification of ConjureAlign

ConjureAlign is an audio plugin (Rust, on a vendored nih-plug) that records two
input buses, finds the delay and the polarity between them on a background
thread, and delays the main bus accordingly, declaring latency to the host so
that the delay may also be negative. This directory holds TLA+ models of the
plugin, the TLC configurations that check them on small instances, and TLAPS
proofs of what matters most. All paths below are relative to the repository.

    tlc -workers 2 -config CapturePhase_safety.cfg MCCapturePhase
    tlapm CapturePhaseProofs.tla

`PROJECT.json` lists the runs, which definition models which lines, a mutated
definition for every checked property (a plausible bug the property catches),
the disagreements between code and comments, and the hazards.

## 1. The system

### Components

| component | state it keeps | operations | who touches it |
|---|---|---|---|
| capture phase machine (`src/capture.rs`, `src/lib.rs`) | atomics `phase`, `generation`, `request`, `stop_request`; the capture buffers in an `AtomicRefCell`; `prev_capture`, `active_config` | `initialize`, `reset`, `process`; `request_capture`, `request_stop`, `cancel_capture`, `display_phase`; `analyze_and_publish` | the host's calls (under the wrapper's plugin lock), the GUI thread, the bg-worker |
| gate and recording (`src/dsp/gate.rs`, `src/lib.rs`, `src/analysis.rs`) | two envelopes, hold, closed streak; buffers, `filled`, splice list | the record loop, auto-finish; seam guards of the analysis | audio thread, then the task |
| delay line and latency (`src/dsp/delay.rs`, `src/lib.rs`, `src/shared.rs`) | active, fading and pending tap, fade position; `last_latency`; packed window and rate | `set_target`, `process`, `reset`; `current_target`, `reported_window`; the editor's `net_shift` | audio thread; the editor reads mirrors |
| detected values, snapshot (`src/params.rs`, `src/snapshot_persist.rs`) | offset, polarity, confidence, graphs; persisted in the project | stored by the task, restored by state loads | bg-worker, host's main thread, editor |
| session markers (`src/session_marker.rs`) | one JSON file per process, stage, fault file | create, stamp, remove on drop, sweep of stale ones | every instance, the next process |
| preferences store (`src/config.rs`) | cached `Config`, one file for all processes | consent, device id, update bookkeeping, running version | every instance of every process |
| network worker, update check (`src/net.rs`, `src/update.rs`) | bounded queue, shutdown flag, `Weak` registry; status, in-flight flag | enqueue, drain, join; check once, publish status | editor, crash and analytics code |
| analytics (`src/analytics.rs`) | per-instance `session_sent`, per-process `UPGRADE_CLAIMED` | flush a session, commit the version when delivered | GUI thread, network worker |
| crash reporter (`src/crash.rs`) | client registry, retry time, hook and sweep `Once`s | follow the consent, install, tear down, sweep | editor, startup |
| background task worker (nih-plug's `event_loop`) | one shared thread, bounded task queue | `schedule`, shutdown on last drop | all instances of the process |

The rest: numerics (correlation, spectra, windowed sinc), drawing, host
detection, the framework's plumbing, the format wrappers, packaging.

### How they interact, and what is hard

* The host calls `initialize`/`reset`/`process` one at a time per instance, but
  a state load writes parameters and persisted fields **before** it takes that
  lock, and the audio thread may run a block in between.
* The GUI never locks: it sets `request`/`stop_request` and cancels with a
  store and two compare-exchanges, against a phase that three others move.
* The task runs long after the block that dispatched it. `initialize()` may not
  free the buffers under it; it waits, bumps the generation, and either reclaims
  the phase (the cell is free) or leaves it to the task (the cell is borrowed).
  The audio thread's `borrow_mut()` panics if it is ever wrong about this.
* Detected values reach `process()` as separate atomics, and the editor
  recomputes the applied shift from mirrored ones.
* Marker, preferences and the process-wide workers are shared by instances and,
  through files, by processes that start, crash and quit independently.

What makes each part correct is stated as its properties below; `hazards` in
`PROJECT.json` lists at its line what is hard to test, covered or not.

## 2. What is modelled

| module | of | composed with |
|---|---|---|
| CapturePhase, CaptureCycle | `capture.rs`, `lib.rs`, the capture button | implements CaptureCycle |
| CaptureGate, CaptureRecord | `dsp/gate.rs`, the record loop, seam guards | CaptureRecord extends CaptureGate |
| AlignDelay, Alignment | `dsp/delay.rs`, targets, latency, `net_shift` | Alignment uses AlignDelay |
| BackgroundWorker | `background_thread.rs` | - |
| SessionMarker, CrashReporter | `session_marker.rs`; `crash.rs`, `veh.rs` | CrashReporter extends SessionMarker |
| Preferences, NetServices | `config.rs`; `net.rs`, `update.rs`, `analytics.rs` | NetServices extends Preferences |
| Http | `net.rs`, the client | its bound is NetServices' "requests end" |
| Analysis, Welch, ViewMath, Snapshot | `analysis.rs`, `spectrum.rs`, `view_math.rs`, `snapshot_persist.rs`, panels | Snapshot extends the three |
| Editor | `editor/mod.rs` and the panels' caches | - |

`MC*` modules give TLC the values a `.cfg` cannot write; `*Proofs` hold theorems
(CapturePhaseProofs, CaptureRecordProofs, AlignmentProofs, BackgroundWorkerProofs,
CrashReporterProofs, NetServicesProofs, SnapshotProofs, EditorProofs).

### CapturePhase - the capture phase machine

One plugin instance, three threads. A program counter `pc` stands for whichever
of `initialize`, `reset`, `process` holds the plugin lock; `gui` is one editor
frame with at most one click; `tpc`, `task`, `queue` are the bg-worker. Each
action is one access to shared state, so a check and the act that follows it
are two steps with everything else between them. Action names follow the code:
`InitWaitOver … InitTail` are `initialize()` from its 500 ms wait to its tail,
`ResetStop … ResetCapturing` are `reset()`, `BlockStart … FinishDispatch` are
`process()`, `ClickCancel`/`CancelStop`/`CancelPhase` are `cancel_capture()`,
`TaskTake … TaskRepair` are the executor with `catch_unwind` and
`analyze_and_publish`. The host activates with any configuration, starts
processing, loads state and moves the parameter.

Data is abstracted to lengths: a configuration is its buffer length in quanta,
`filled` counts quanta. What the gate decides per sample is a choice here
(`RecordDrop`) and modelled in CaptureRecord. A state load writes the parameters at
any moment of the audio thread's calls and has `initialize()` run later, with blocks
in between. Bounds: `MaxGen` generation bumps. `CanLose` (full task queue), `CanPanic`
(analysis panics) and `PromptTask` switch environments on and off.

**PromptTask** is the timing assumption of the code's own comments, in its two
places. `StaleCheck`: a task that `initialize()` overtakes between its first
generation check and its second is out of that window when the host comes back with
its next call (`lib.rs:228-237`, "instruction-scale window"). `InReleaseGap`: while a
task is between its results and its release, no successor *finishes*
(`lib.rs:338-345`, "a successor cannot reach ANALYZING inside a microseconds-wide
gap"); it may be armed and recording by then, which is what the release's
compare-exchange is for. Without the first `borrow_mut()` can panic, without the
second a late release can end a successor's analysis; see the known divergences.

`CaptureCycle` is the abstract promise: one capture at a time, each finished one
published at most once and before the next is finished; a capture is armed only when
no analysis may still be completed, and only a snapshot that was complete may reach the
editor after its successor was armed (`overtaken`). CapturePhase implements it under
the mapping `stage <- phase`, `due <- Due`, `shown <- shown`; `Due` is `analysis` while
some task is current, `snapshot` or `overtaken` while one carries results. The
cycle does not say that a capture is published: a dispatch lost to a full queue stays
Analyzing there as well.

### CaptureGate, CaptureRecord - what one capture records

CaptureGate is the gate's `step`: envelopes with instant attack and release,
hold, hysteresis, the saturating closed streak. Envelopes are levels of any height
and a release takes one level a sample, so a louder sample releases for longer; NaN
and infinity are one sample value. CaptureRecord
runs the record loop sample by sample with the splice list, promotion,
auto-finish, stops and cancels. A buffer position holds the number of the
contiguous stretch of input its sample came from, which makes "a discontinuity"
a property of the buffer; `Guarded` is the region the analysis zeroes.

### AlignDelay, Alignment - what is applied and what is shown

AlignDelay is the delay line as a record of taps: `Retarget` is `set_target`,
`Advance` one sample of `process`, `ResetLine` is `reset`. Alignment composes it
with its environment: the latency `initialize()` reports, `current_target()` as
two steps (offset, then polarity), the fast path that keeps an older line, the
two writers of the detected values (task and state load, store by store), host
edits of all four parameters, the editor's mirror. Milliseconds are integers and
delays integers of 1/`Sub` sample, so that clamping, rounding to whole-sample
latency and the window are computed as the code does; f32 rounding is not
modelled. Confidence, which no decision of this path reads, is left out, as are
sample content and FIR kernels. A fresh instance's placeholder line is
represented by a minimal one: nothing reads it before `initialize()`. State loads
and activations do not overlap (both are main-thread calls of a host).

### BackgroundWorker - the shared task worker

nih-plug's patched `background_thread.rs`: per instance the life of its wrapper and
the worker its handle points to, per worker its thread, the task in hand and its
bounded channel, and `HANDLE_MAP` as `current`. `Create` upgrades the map's `Weak`
or spawns, `schedule` offers a task, `Destroy` drops the wrapper, which the
worker itself may still own while it runs one of its tasks; then the last handle
dies on the worker (`Finish`), which only offers the shutdown message and
detaches, instead of sending and joining (`SendShutdown`, `Join`). Queued tasks of
a dead wrapper become `Dead` messages.

### SessionMarker, CrashReporter - how a death is reported

SessionMarker holds the files and the operations on them: one marker and one
fault file per process id ("life"), the stage, removal in its separate steps,
and the sweep of other lives' files entry by entry, up to its cap. CrashReporter
supplies three threads: `main` makes the host's calls, `ui` draws the editors' frames,
`late` is the background worker on which an instance may die. Their steps are the code's
`set_stage_if`, `sync_consent` (decided under the lock, applied outside it, so that
`initialize()`, frames and teardowns race), `reporter()`, install and uninstall, and the
teardown in field order. Installing the exception handler may fail, with or without the
fault file made, and the reporter is armed all the same (`built = "bare"`). An installed
handler writes through its open handle: a fault recorded after another instance's
teardown removed the file is lost (`veh = "removed"`). A fault, a panic of the transport
thread or a crash may happen at any step. Life 0 is a host that runs beside this one.
Histories (`owed`, `last`, `ended`, `covered`, `wiped`, ...) are only read by properties.

Coarser than the code: `Sync` reads slot and answer in one step (the lock is held
between), `uninstall`'s two swaps are one, and all editors draw on one thread.

### Preferences, NetServices - answers, checks, reports

Preferences is `config.rs`: a cache per process, the file, the temporary file all
processes share, and a save in its two steps with a crash possible between them.
NetServices extends it for one process with the network worker (`net.rs`), the
update check (`update.rs`) and the session report (`analytics.rs`): the worker's
thread and the one being joined, their queues, the steps of `Worker::drop`, the
claim, status and guard of a check, the session's and the process's claims on a
report, posting, committing, and what the user clicks. Requests fail or succeed
as they like; the config lock is a step's guard.

### Http - one request

The job's thread through name lookup with its helper thread, the addresses in
turn, the handshake, one write, the reads, and the framing of the answer. `now`
counts seconds and a socket operation takes any time up to its timeout. Bytes are
whole items (a size line, an item of content, the break after a chunk), so the cap
and the server may cut anywhere between them. `HandshakeReads` bounds what the
client leaves unbounded: it makes each operation of a handshake time out, not their number.
`RecordReads` bounds the same for a read: over TLS, one read of the stream goes to the
socket until a whole record is in, each time with a timeout of its own, and the deadline is
looked at only in between.
`dechunk` is a recursive function over positions in the answer, not a RECURSIVE operator,
so that it can be reasoned about. The specification is `RequestSpec`. The ASSUME says that a
handshake takes an operation at least, that connecting is given no more time than the whole
request, and that no chunk but the closing one is empty, as HTTP has it.

### Analysis, Welch, ViewMath, Snapshot - from a capture to a drawn curve

Analysis is which outcome `analyze()` reports, in which order it decides, and the
sizes it publishes. Welch is the index arithmetic of the spectrum estimate: hulls for
either sign of the lag, chunks between splices, windows, the fallback. ViewMath is
pan, zoom and clamp, each with a rounding error of one step either way. Snapshot
composes them: the task publishes, the host saves and restores, or restores a
session somebody edited, with any segment size stored as the selection, listed or not; the panels resolve segment sizes and draw with a view
the user pans and zooms until the next snapshot resets it. Encoding is modelled by the lengths it writes and the
checks `decode()` makes of them. Views are whole numbers: that a non-finite stored view is
dropped before the clamps (`correlation_view.rs:144`) is not modelled.

### Editor - frames

One frame under the unwind boundary: pick up the snapshot, drop a trim edit the
host has applied, draw from caches keyed by the snapshot's address, queue edits. An
address is free again as soon as neither cell nor editor holds it, so a new
snapshot may come back at an old one. A behaviour has one `subject`, snapshots or
trim edits, since they meet only in the shift a frame draws.

## 3. The runs

| run | question | instance |
|---|---|---|
| `capture_safety` | do the safety properties hold under every interleaving, and does the machine implement CaptureCycle | buffers of 1 and 2 quanta, two generation bumps, lost dispatches, panics |
| `capture_liveness` | does Analyzing always end, does a pending capture arm once the host plays | `FairSpec`, one bump, nothing lost |
| `record` | does the splice list miss no gap, do the guards suffice, does a capture end | 12 samples, at most 2 splices, levels 0, 1 and 3 around thresholds 1 and 2, NaN |
| `alignment_safety` | do taps stay in range, are fades clean, does the editor tell the truth | 1.5 and 2 samples/ms, two Max Shifts, fades of 1 and 2 samples, NaN trim |
| `alignment_settles` | does the line reach its target | `FairSpec`, one rate |
| `background_worker` | is everyone served, does every teardown end, does an accepted task run | 3 instances, 2 workers, queue of 2 |
| `crash_reporter` | is every death accounted for, is nothing else reported, is what is armed whole | 2 instances, one life and a neighbour, cap of one report |
| `network_services` | are claims given back, does unload end, is an upgrade reported before it is forgotten | 1 instance, queue of 1, two versions, one answer, one restart |
| `http` | when is a request over, what does the caller get | timeouts 2, 3 and 10 s, up to 6 addresses, 2 handshake operations, 4 socket reads a record |
| `snapshot` | do estimate, wire format, selector and clamps agree | captures of 3 to 8 samples, at most one seam, stored sizes listed, automatic and unlisted |
| `editor` | do frames show the current snapshot, do nudges add up | 3 addresses, 3 snapshots, 2 sizes, trim of 2 steps either way, queue of 2 |
| `preferences_two_hosts` | finding, below | two hosts, one version |

**Why these bounds meet the interesting cases.** Two buffer lengths make a stale
index overrun; one bump separates a stale task from a current one, two let a
stale one meet a further reclaim. Twelve samples hold two splices more than the
linger apart, the list then being full and the rest recorded unconditionally; a
window of 3 makes guards clip at the start, at the end and at each other; level 3
is above the open threshold, so that a release takes longer than from it. A fade
of 2 is the shortest that can be met in the middle, a rate of 1.5 samples/ms needs
rounding, a kept line needs two Max Shifts. A third instance can be created while
one orphans a task and one joins; a queue of 2 is full under either teardown. A
life of this host and a neighbour give the sweep two files, one more than its cap.
With one life of this host the only marker a sweep can report is the neighbour's; that
the stage of an earlier life's is the one it had reached is shown by the proof
(`ReportsTrue`) alone. `OneAnswer` and `Calm` (MCCrashReporter) bound the run further: the
answer changes once in a life, and once the neighbour has ended, plugin code runs on one thread
at a time; until then all three interleave.
Two versions are an upgrade, and a restart is what reports it; a queue of one is
full whenever a second job comes. Six address timeouts exceed the deadline, and
byte caps of 4, 7 and 20 cut answers in the head, in a chunk and not at all; four socket
reads a record, at a timeout each, exceed the handshake's and pass the deadline. Captures
of 3 to 8 samples are refused, clamped and cut by a seam; an unlisted stored size of 6 fits
the longest of them. Three addresses let the cell,
the editor and a newcomer hold different ones, with reuse after.

**Properties**, by hazard:

* *A task that outlives its capture.* `BorrowNeverPanics` and `IndexInBounds`: it
  never meets the next one's buffers. `ReleasesOwnPhase`: it ends only its own, also when
  its successor is armed or recording as it releases.
  `AnalysisEnds`, `RefinesCycle`: the machine as a whole is the atomic cycle.
* *Clicks against host calls.* `CancelLands`, `IntentSurvivesHostCalls`, `PendingArms`;
  `LoadArmsNothing`, with blocks at any moment of a load: a parameter a load wrote
  arms nothing, except in a block before the load's `initialize()`.
* *Recording with gaps.* `GapsTracked`, `GuardsCoverSeams`, `CaptureEnds`;
  `ClosesInSilence`: how long a silent input keeps the gate open depends on the loudest
  sample it followed, and on nothing else.
* *A delay that changes while it fades.* `TapsInRange`, `NeverFadesIntoItself`,
  `FadesRunWhole`, `SettlesInTwoFades`, `SettlesOnTarget`, `EditorMirrorsTarget`.
* *A worker that its own task destroys.* `Served`, `TeardownEnds`, `AcceptedTaskRuns`.
* *A process that dies anywhere.* `ReportsAreTrue`, `WindowIsReported`;
  `DeathsAccountedFor`, with the two ways evidence is destroyed that the code does not name
  (`wiped`); `ArmedIsWhole`, for a client that did not come up beside a teardown, and with
  the handler where it could be installed.
* *Claims and queues of the network services.* `UndecidedShowsChecking`, `CheckEnds`,
  `UnloadEnds`, `NoThreadOutlivesInstances`, `UpgradeNotConsumed`, `NoIdWithoutConsent`.
* *A server that trickles, an answer that is cut.* `CallBounded`: the deadline, plus the
  socket operations nobody interrupts for it (`Unwatched`): one over plain TCP, over TLS as
  many as a handshake and the write or one record take. `BodyFaithful`.
* *Sizes that two parts compute apart.* `SavedIsRestored`, `SegmentsAreSound`,
  `PanelAgreesWithTask`, `ClampsOrdered`; the first and the third say what becomes of an
  unlisted stored size.
* *Caches and edits across frames.* `FramesShowCurrent`; `NudgesBuild`: nudges add up
  as long as only they write the trim and none was taken for applied while queued.

Deadlock is checked except where the system really stops: a host that has exited for
good (`crash_reporter`, `network_services`, `preferences_two_hosts`) and a request
that has returned (`http`).

### Fairness

* `CapturePhase!FairSpec`: a call the host made runs to its end (straight-line
  code; the wait of `initialize()` is bounded), and the worker thread drains its
  queue. Nothing obliges a host to call or a user to click; that a host plays is
  the premise of `PendingArms`, not an assumption.
* `CaptureRecord!FairSpec`: the host runs blocks with samples in them; strong
  fairness for a sample, since blocks may be empty now and then.
  `Alignment!FairSpec`: the same, and begun calls complete.
* `BackgroundWorker!FairSpec`: a teardown that has begun is scheduled, and so is each worker.
  A task ends, which for the analysis is bounded computation.
* `NetServices!FairSpec`: saves, teardowns, checks and the worker's steps are
  scheduled, and a request ends. The last is what `CallBounded` shows of Http, given that
  handshakes and records come in boundedly many reads. Strong fairness for a worker being joined: it asks for the
  config lock that others keep taking.

No fairness is assumed of the user, the host, the parameters, the analysis' verdict or a
cancel. The other specifications state none: their properties are safety.

### Finding

`preferences_two_hosts`: `config.rs` says that a user who says no in one project has
said no everywhere, reaching other processes at their next launch. Two hosts run;
one is told "no" and saves; the other, which cached the earlier "yes", saves its
whole copy with its next bookkeeping, and the next launch reads a "yes". That it takes two hosts
is proved: `OneHostKeepsAnswer`, `ServicesKeepAnswer`.

### Known divergences

Met while modelling. Each is excluded from the passing runs by the named constant, stands
as a condition in the named property, or needs a property nobody states.

* `PromptTask = FALSE`: a task preempted between its generation check and its borrow
  collides with the next `borrow_mut()`, which panics; one preempted before its release
  ends the analysis of a successor that finishes meanwhile. The comments argue that
  no successor can exist within the gate's hold; arming waits for no hold.
* A block between a load's parameter writes and its `initialize()` takes the restored
  Capture parameter for a click and arms (`lib.rs:719`). Nothing keeps it out: this is the
  condition `loading` in `LoadArmsNothing`.
* `reset()` drops a Stop clicked on an Armed capture while the host is suspended, and
  turns Armed into a request (`lib.rs:671`); a Cancel overlapping it
  misses with both compare-exchanges (`CancelLands` excepts it as "rearmed").
* A dispatch refused by a full task queue leaves Analyzing until an activation
  with another configuration.
* A state load overlapping the end of an analysis leaves the graphs of one beside
  the detected values of the other (`lib.rs:337`).
* A marker's teardown looks for a fault, then removes marker and fault file
  (`session_marker.rs:212-224`). A marker another thread makes, or a fault it records, in
  between is removed with them; and where an instance without a marker keeps the exception
  handler installed, faults go to a removed file from then on. A death after either leaves
  no trace: the histories `wiped` of `DeathsAccountedFor`.
* `Reporter::drop` runs outside every lock: a client brought up beside it may have its handler
  uninstalled and its session ended by it, and stays so (`built = "beside"` in
  `ArmedIsWhole`; `crash.rs:595-610` calls racing grants fine, and of a teardown racing
  a grant says nothing). Where the handler's install fails, the reporter is armed without
  one, as `veh.rs` documents (`"bare"`).
* A marker is never detached when the answer becomes no, so files are still written after
  it (`session_marker.rs:303`); a grant taken back leaves an empty fault file; the
  sweep's latch is used up even if its job was refused.
* An upgrade is reported twice when the post succeeds and the process
  dies before the commit; a claim is used up when consent vanished or the queue
  was full; a report queued before "no" is still posted.
* `spectrum_view.rs:115-121` says of "an unlisted or garbage persisted value" that "the GUI
  and the analysis task can never disagree about the same stored value". They do: the task
  honours any stored size that fits (`lib.rs:314-317`, `spectrum.rs:257-262`), the panel
  listed ones only. The run stores such a size; `PanelAgreesWithTask` has the case as its
  second disjunct. In the app it lasts until the Spectrum tab is first drawn, which
  rewrites the selection.
* With it goes a loss: if that size is no power of two, or above the decoder's largest, the
  task publishes a spectrum `decode()` refuses (`snapshot_persist.rs:235`), and a
  session saved with it reopens without graphs (second case of `SavedIsRestored`).
* An edit is taken for applied when the parameter has its value (`mod.rs:521-525`),
  although it may still be queued: of two nudges there and back the second equals
  the parameter before either is applied, and a third nudge starts from wherever the
  parameter then is (`mod.rs:1355`). This is the condition `~taken` in `NudgesBuild`.
* A pending trim edit stays pending when automation overwrites it in the queue, so
  a later nudge starts from the old value; `NudgesBuild` speaks of nudges alone.
* The request's deadline is called a "wall-clock ceiling on one whole request"
  (`net.rs:29-33`), and the comment in `exchange` has one blocked read past it as the worst
  case (`net.rs:253-256`). The write and each handshake operation carry only their own
  timeout, and over TLS `stream.read` (`net.rs:261`) loops over socket reads until a record
  is complete: a server that trickles a record passes the deadline by as many timeouts
  as it sends pieces. `CallBounded` says so (`Unwatched`).
  A post succeeds once it is written, whether or not the server answers.
* A chunk size near the largest integer overflows `after_size + size` (`net.rs:386`); such size
  lines are not in `Wire`.
* `decimate.rs` calls itself peak-preserving, but a column ends at its own beginning plus
  `per_bin` and the next begins at `start` plus a multiple of `per_bin`
  (`decimate.rs:32`), two roundings of one edge. A sample on it may fall in neither: in
  f64, with start 0, span 14430 and 728 columns, sample 3330 is not drawn. This is by
  calculation; decimation has no module.

## 4. What is proved

TLAPS proves the following for every value of the constants the ASSUMEs allow. The
premises some theorems have are the environments the runs switch on as well:

| premise | what it says | needed by |
|---|---|---|
| `PromptTask` | an overtaken task leaves its check-to-check window before the host's next call, and no successor finishes while a task is between results and release | `BorrowSafety`, `CycleRefined`, `ReleaseOwnsPhase` |
| `AudioRates` | half a sample in a millisecond at least (500 Hz) | `MirrorHolds` |
| one process | `Processes = {p}`: no second host is up | `OneHostKeepsAnswer` |

What is known to fail without them is in section 3, under the finding and the known
divergences. The conditions that stand in a property's own formula are no premises; its
theorem has them as the property does.

**CapturePhaseProofs.** `TypeCorrect`; `IndexSafety` (`[]IndexInBounds`, from
`TypeInv` and the fact that only `Reallocate`, `ArmDrop` and `RecordDrop` change
lengths); `BorrowSafety`: under PromptTask, `[]BorrowNeverPanics`, for any number of
generations, queued tasks, losses and panics. `BorrowNeverPanics` is not
inductive: the audio thread's right to the buffers rests on `phase # ANALYZING`,
which rests on no task being after them. The invariant adds `CellInv` (who
holds the cell, as a function of both program counters), `GenInv`
(generations only move on; at most one current task, none unless Analyzing) and
`WindowInv` (no task is after the buffers once the plugin thread may own them;
after a bump, and until a dispatch, nothing is current). A task with its results
stored is after nothing any more, and lingers before its release as long as it likes.

`CycleRefined` is the refinement, `Spec => RefinesCycle`. Most steps leave the tasks
alone and move the phase along one edge of the cycle, if at all (`PlainStep`); the task's
own steps, the dispatches and the bump are the cases where `Due` changes
(`TasksStep`). What they need beyond the invariant above is `LatestInv`: a task after the buffers,
or current, is that of the latest capture, which has no successor yet; one with
its results stored may have a successor armed or recording, and if the phase is
Analyzing it is its own. `ReleaseOwnsPhase` is that last part, the reason for the CAS at
`lib.rs:346`. `IntentSurvives` needs none.
`LoadsArmNothing` rests on `LoadInv`: once the `initialize()` of a load has run,
`prev_capture` agrees with the loaded parameter, blocks between the load's two halves
included. `CancelSucceeds` adds what
holds between the two compare-exchanges (`CancelInv`): the phase may have gone on
to Capturing, which the second will meet, but not be Armed.

**CaptureRecordProofs.** `NoGapUntracked` (`[]GapsTracked`) and `GuardsSuffice`
(`[]GuardsCoverSeams`), for every capture length, capacity, gate setting, window
and input. `RInv` adds to the types that the present stretch is the last
recorded one or its successor, according to `prev_record`, and that recording
never pauses on a full list (`StretchInv`), and that between any two positions of
different stretches there is a splice (`Separated`).
Guards suffice because two samples of different stretches within a window of
each other have a splice between them, and it guards one of the two.
`SilenceCloses` (`[]ClosesInSilence`) rests on `GateInv`: an envelope has come down a
level for every silent sample from the loudest level it followed, however far above the
threshold that was, and below the close threshold an open gate has used up a sample of
its hold for each. The bound, `Linger`, is the release from that level plus the hold.

**AlignmentProofs.** `IInv` is the types, `LineOK` (a fade never leads to its own
tap, a pending tap only during a fade and never equal to the tap fading in) and
`Budget` (samples left to fade and samples since the target changed do not
exceed two fades). From it `CleanFades`, `TwoFadesSuffice` and, as an action
property, `WholeFades`. `CapacitySuffices` adds `RangeInv`: the line was sized
for the present rate at the largest Max Shift, and every tap is in range; with
monotonicity of division it bounds rounded latency plus clamped shift by
`max_delay`, for every rate and every Max Shift edit a kept line sees.
`MirrorHolds` adds `WindowInv`: from its publication on, the window the editor reads is
the one `current_target()` clamps to, and it is never empty, which the editor
takes for "none".

**BackgroundWorkerProofs.** `InstancesServed` (`[]Served`), for any number of
instances, workers and queue places. `Served` alone says nothing of what is about to
end a worker; the invariant adds that a worker being torn down has no owners, that no
shutdown message waits for one that has, and that a thread that is gone left an
empty channel for its successor.

**CrashReporterProofs.** For any number of instances, lives and reports, with teardowns
and calls on all three threads and no premise. `ThreadInv` says which thread is in which
call or teardown, and of whom. `ReportsTrue` (`[]ReportsAreTrue`) ties each marker file
to its life: at the stage the life has reached, there only while a marker is attached,
its removal is under way or a fault is on record (`MarkerInv`); what the sweep has read
and found is of lives that ended badly, at their stage (`SweepInv`). `WindowsReported`
adds `WindowInv`: who is stamping while which instance opens, and that an instance
which is ready has a marker as long as the answer stands; an instance dying
beside them detaches its own marker and moves no stage. `FaultInv` says that while there
is something to account for the marker is on disk at the present stage, and a recorded fault
in its file, unless a teardown overtaken by either took it (`wiped`); from it `DeathsKept`, by
what each step can do to a file, the sweep or the reports. `ArmInv` spans a client's
life from its handler to its registration: one thread at most builds it, and unless
it came up beside a teardown none is under way and hub, session and, if it could
be installed, handler are there (`ArmedWhole`).

**NetServicesProofs.** `IdsNeedConsent`: for any number of processes that overwrite each
other's files and crash between the two steps of a save, `NoIdWithoutConsent`; with
the types it is inductive, the weight being on what each mutation makes of an honest copy.
`ServicesKeepConsent` is the same in the composition. `OneHostKeepsAnswer` and
`ServicesKeepAnswer` show what the finding needs: `LastAnswerHolds` does hold while one host
at a time is up. `AnswerInv` says that the temporary file then holds what this host
wrote there, its copy carries the last answer from the click on, and the file does once no save
is under way, whichever of the copy's other fields was being saved. In the
composition `NetIInv` adds that a thread is where its job allows and that an
instance not loaded holds nothing. `ThreadsJoined` rests on
`Life` (the live thread has an attached instance, the old one a join in progress).
`ChecksShow` rests on `Claim`: of the asking instances, the queues' places and the threads, one at
most holds an undecided check (`OneHolder`); it alone has the claim, and only its own
guard can change the status. `UpgradesReported`, an action property, rests on `Carried`:
every report that may commit the version carries the upgrade from the recorded
one, wherever it waits, and is delivered before it commits.

The request is proved about in the same module. `RequestsBounded` (`[]CallBounded`) adds `InTime`
to the types: what each stage can have used of the deadline, so that the socket operations
left before it is looked at again (`Unwatched`: one over plain TCP; over TLS those of the
handshake and the write, or of one record), at a timeout each, still fit the bound. `BodiesFaithful` (`[]BodyFaithful`): for every answer,
however it is chunked and wherever the cap or the server cuts it, what is handed on is a prefix of
what the server announced, and all of it when all of the answer arrived. It is an
induction over the answer, which the library's induction theorems cannot express
here; the lemmas state it of sets instead: a property of positions that fails
somewhere fails at a least one (`SmallestOf`). Both folds are first
characterised by their equation (`FlattenUnfolds`, `DechunkUnfolds`), the layout of the wire
by where each chunk lies on it (`Layout`, `ArrivedLayout`); then the decoder's result at each
size line is what the chunks from there on hold (`LoopFaithful`).

**SnapshotProofs.** For every capture within the caps (`InCaps`), every gesture, rounding and
edit of a session. `SegmentsSound` says of the estimate's index arithmetic that the
windows of a segment lie inside the capture and inside one chunk of it, and the
fallback's inside the capture; `SegmentsAlwaysSound` that this holds of all that is drawn, from
`CellInv`, the shape of what the cell holds. `ClampsSafe`: each gesture and each
stored view keeps the clamps' bounds in order. `SessionsKept` and `PanelsAgree` rest on
`RestoredInv`: what the cell holds is storable (within all of `decode()`'s checks, its
sizes consistent) if its segment size is one `decode()` takes, which a listed choice
always gives, and was analyzed at the size the panel resolves or at an unlisted one the
task found to fit. `Storable` is what publishing establishes, `EncodedBack` and
`RestoredStorable` what saving and loading keep, `Undecodable` why the rest restores
nothing.

**EditorProofs.** For any number of snapshots, addresses, sizes and queue places.
`FramesCurrent` rests on `CacheInv`: as long as the editor holds a snapshot its address
is not reused, so every cache keyed by that address is either of this snapshot
or empty. `NudgesAddUp` on `NudgeInv`: a pending edit nobody else's write disturbed is what
was asked for, and is let go of only when nothing is queued behind it, unless it was
taken for applied too early (`taken`).

**Only model-checked.** Liveness under fairness, which is outside the prover's reach:
`AnalysisEnds`, `PendingArms`, `CaptureEnds`, `SettlesOnTarget`, `TeardownEnds`,
`AcceptedTaskRuns`, `CheckEnds`, `UnloadEnds`. Every invariant and every action property of
a passing run is stated by a theorem.

## 5. Plan

Every component with state of its own has a module and every safety property a theorem. Worth
adding next:

1. The three hazards without a property: a stop dropped by `reset()` (`lib.rs:671`), an
   analysis that ends inside a state load (`lib.rs:337`), a decline during the client's start
   (`crash.rs:620`). Today's code meets each; a property is worth its run once the
   intended behaviour is written down.
2. The claims of `spectrum_view.rs:115-121` and `net.rs:253-256` without the exceptions
   `PanelAgreesWithTask` and `CallBounded` make, once the code is meant to keep them.
3. The peak-preserving claim of `decimate.rs`, in exact arithmetic.

## 6. Not modelled

Floating point: sample values, correlation, transforms and kernels are judged by the
repository's own tests; f32 rounding appears only where a comparison hangs on
it (latency, clamps). Decimation to columns, layout, painting and text. The contents of TLS records, URL syntax, and the
buckets and scrubbing of what is sent. Host detection (a lookup made once), the C++
format wrappers, xtask and the preview binary have no state machine. Of nih-plug
only what reaches the plugin is modelled (activation, reset, state loads, queued
parameter edits, the background worker), not its input events or bus plumbing.
Memory orderings weaker than sequential consistency are left out: the phase
moves by compare-exchanges with AcqRel success, the buffers are guarded by the cell, and
each action is one access; what the relaxed flags (`request`, `stop_request`, the
detected values) may add on weakly ordered hardware is not shown.
