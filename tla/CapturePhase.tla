---------------------------- MODULE CapturePhase ----------------------------
(***************************************************************************)
(* The lock-free capture phase machine of one plugin instance: src/lib.rs  *)
(* (process, initialize, reset, analyze_and_publish, the task executor)    *)
(* and src/capture.rs (CaptureState, CaptureHandle).                       *)
(*                                                                         *)
(* Three threads share the atomics and the AtomicRefCell around the        *)
(* buffers.  Each action is one access to shared state:                    *)
(*   plugin thread  initialize / reset / process, mutually exclusive under *)
(*                  the wrapper's plugin lock, so one program counter pc;  *)
(*   GUI thread     one editor frame or one click at a time (gui);         *)
(*   bg-worker      runs queued Analyze tasks one by one (tpc, task).      *)
(* Besides them the host writes the capture parameter without the lock.    *)
(***************************************************************************)
EXTENDS Naturals, Sequences

CONSTANTS
  Configs,          \* (sample rate, channels) pairs the host may activate with
  BufLen,           \* buffer length, in recording quanta, allocated for each
  NoConfig,         \* active_config == None
  MaxGen,           \* bound on initialize()'s generation bumps
  PromptTask,   \* TRUE: a task does not stall in its instruction-scale windows
  CanLose,      \* TRUE: execute_background may find the task queue full
  CanPanic      \* TRUE: the analysis may panic

ASSUME CapturePhaseAssumption ==
  /\ NoConfig \notin Configs
  /\ BufLen \in [Configs -> Nat \ {0}]
  /\ MaxGen \in Nat
  /\ {PromptTask, CanLose, CanPanic} \subseteq BOOLEAN

VARIABLES
  phase, generation, request, stop_request,        \* CaptureState's atomics
  borrow,                                          \* AtomicRefCell: who holds data
  main_len, filled, target_len,                    \* CaptureData
  capture_on,                                      \* params.capture
  prev_capture, active_config,                     \* ConjureAlign's own fields
  config, playing, loading,                        \* what the host is doing
  pc, rising, now, done,                           \* plugin thread and its locals
  gui,                                             \* GUI thread
  queue, tpc, task,                                \* bg-worker
  \* History variables: read by properties only, never by a guard.
  shown,            \* the snapshot shown is the latest armed capture's, or an
                    \* earlier one's or none
  loadedOn,         \* capture_on is TRUE because a state load wrote it
  cancelling        \* what became of the capture the running cancel found

shared   == <<phase, generation, request, stop_request>>
data     == <<borrow, main_len, filled, target_len>>
hostVars == <<capture_on, config, playing, loading>>
local    == <<rising, now, done>>
worker   == <<queue, tpc, task>>
history  == <<shown, loadedOn, cancelling>>
vars == <<shared, data, hostVars, prev_capture, active_config, pc, local,
          gui, worker, history>>

Phases == {"IDLE", "ARMED", "CAPTURING", "ANALYZING"}

\* compare_exchange on phase, as a function of its current value.
Cas(from, to) == IF phase = from THEN to ELSE phase

\* A task is the generation it was dispatched with; cap is history: "cur" while
\* no capture has been armed since its own.
Task(g) == [gen |-> g, cap |-> "cur"]
Aged(t) == [t EXCEPT !.cap = "old"]
NoTask  == [gen |-> 0, cap |-> "old"]

(***************************************************************************)
(* The host calls the plugin through the wrapper's lock, one call at a     *)
(* time.  PromptTask is the timing assumption of the comments in           *)
(* analyze_and_publish, which speak of two windows.  "In that              *)
(* instruction-scale window no successor capture can exist yet": a task    *)
(* that initialize() overtakes between its first check and its second is   *)
(* out of there when the host comes back with another call.  "A successor  *)
(* cannot reach ANALYZING inside a microseconds-wide gap": no successor is *)
(* finished between a task's results and its release, though it may be     *)
(* armed and recording by then.                                            *)
(***************************************************************************)
StaleCheck ==
  /\ tpc \in {"borrow", "recheck"}
  /\ task.gen # generation
  /\ phase # "ANALYZING"

HostMayCall ==
  /\ pc = "idle"
  /\ PromptTask => ~StaleCheck

\* A capture found here beside a task that has yet to release is its successor.
InReleaseGap == phase = "CAPTURING" /\ tpc \in {"store", "release"}

Init ==
  /\ phase = "IDLE" /\ generation = 0 /\ request = FALSE /\ stop_request = FALSE
  /\ borrow = "none" /\ main_len = 0 /\ filled = 0 /\ target_len = 0
  /\ capture_on \in BOOLEAN
  /\ prev_capture = FALSE /\ active_config = NoConfig
  /\ config = NoConfig /\ playing = FALSE /\ loading = FALSE
  /\ pc = "idle" /\ rising = FALSE /\ now = "IDLE" /\ done = FALSE
  /\ gui = "idle"
  /\ queue = <<>> /\ tpc = "none" /\ task = NoTask
  /\ shown = "earlier" /\ loadedOn = capture_on /\ cancelling = "none"

-----------------------------------------------------------------------------
(***************************************************************************)
(* Host: activation, state loads and parameter automation.                 *)
(***************************************************************************)

\* The slow path of initialize() may bump the generation: the bound.
MayInitialize(c) == active_config = c \/ phase # "ANALYZING" \/ generation < MaxGen

InitSteps == {"initWait", "initBump", "initProbe", "initRealloc", "initReclaim",
              "initTake", "initAllocate", "initTail"}

InitializeEntry(c) == IF active_config = c THEN "initTail" ELSE "initWait"

\* clap activate / VST3 setActive: initialize(), with reset() left to the
\* start_processing / setProcessing that precedes the first block.
Activate(c) ==
  /\ HostMayCall /\ ~loading /\ MayInitialize(c)
  /\ config' = c /\ playing' = FALSE
  /\ pc' = InitializeEntry(c)
  /\ UNCHANGED <<shared, data, capture_on, loading, prev_capture, active_config,
                 local, gui, worker, history>>

\* set_state_inner writes the parameters first, without the plugin lock, so at
\* any moment of the audio thread's calls; activations share its thread.
LoadParams(on) ==
  /\ config # NoConfig /\ ~loading
  /\ pc \notin InitSteps
  /\ capture_on' = on /\ loading' = TRUE
  /\ loadedOn' = on
  /\ UNCHANGED <<shared, data, config, playing, prev_capture, active_config, pc,
                 local, gui, worker, shown, cancelling>>

\* ... then runs initialize() and reset() under one hold of the lock.
LoadInitialize ==
  /\ HostMayCall /\ loading /\ MayInitialize(config)
  /\ pc' = InitializeEntry(config)
  /\ UNCHANGED <<shared, data, hostVars, prev_capture, active_config, local, gui,
                 worker, history>>

\* Host automation or a generic UI toggles the capture parameter.
ToggleCapture ==
  /\ capture_on' = ~capture_on /\ loadedOn' = FALSE
  /\ UNCHANGED <<shared, data, config, playing, loading, prev_capture,
                 active_config, pc, local, gui, worker, shown, cancelling>>

-----------------------------------------------------------------------------
(***************************************************************************)
(* initialize(): everything skipped on the fast path is between InitWait   *)
(* and InitTail.                                                           *)
(***************************************************************************)
InitUnchanged == UNCHANGED <<hostVars, prev_capture, local, gui, worker, history>>

\* CaptureState::allocate_locked
Reallocate ==
  main_len' = BufLen[config] /\ filled' = 0 /\ target_len' = 0

\* The 500 x 1 ms wait: either a check finds the phase released ...
InitWaitOver ==
  /\ pc = "initWait" /\ phase # "ANALYZING"
  /\ pc' = "initTake"
  /\ UNCHANGED <<shared, data, active_config>> /\ InitUnchanged

\* ... or the last one still finds it Analyzing.
InitTimeout ==
  /\ pc = "initWait" /\ phase = "ANALYZING"
  /\ pc' = "initBump"
  /\ UNCHANGED <<shared, data, active_config>> /\ InitUnchanged

InitBump ==
  /\ pc = "initBump"
  /\ generation' = generation + 1
  /\ pc' = "initProbe"
  /\ UNCHANGED <<phase, request, stop_request, data, active_config>> /\ InitUnchanged

\* try_borrow_mut: Ok reallocates through the guard, Err keeps the buffers.
InitProbe ==
  /\ pc = "initProbe"
  /\ \/ /\ borrow = "none"
        /\ borrow' = "plugin" /\ pc' = "initRealloc"
        /\ UNCHANGED active_config
     \/ /\ borrow # "none"
        /\ active_config' = NoConfig /\ pc' = "initTail"
        /\ UNCHANGED borrow
  /\ UNCHANGED <<shared, main_len, filled, target_len>> /\ InitUnchanged

InitRealloc ==
  /\ pc = "initRealloc"
  /\ Reallocate /\ borrow' = "none"
  /\ pc' = "initReclaim"
  /\ UNCHANGED <<shared, active_config>> /\ InitUnchanged

InitReclaim ==
  /\ pc = "initReclaim"
  /\ phase' = Cas("ANALYZING", "IDLE")
  /\ active_config' = config
  /\ pc' = "initTail"
  /\ UNCHANGED <<generation, request, stop_request, data>> /\ InitUnchanged

\* borrow_mut() panics when the cell is already borrowed; nothing of the
\* plugin runs after a panic has crossed into the host.
BorrowMut(next) ==
  \/ borrow = "none" /\ borrow' = "plugin" /\ pc' = next
  \/ borrow # "none" /\ pc' = "panicked" /\ UNCHANGED borrow

\* allocate()
InitTake ==
  /\ pc = "initTake"
  /\ BorrowMut("initAllocate")
  /\ UNCHANGED <<shared, main_len, filled, target_len, active_config>> /\ InitUnchanged

InitAllocate ==
  /\ pc = "initAllocate"
  /\ Reallocate /\ borrow' = "none"
  /\ active_config' = config
  /\ pc' = "initTail"
  /\ UNCHANGED shared /\ InitUnchanged

\* Mutant: prev_capture is not seeded from the restored parameter.
MutInitTail ==
  /\ pc = "initTail"
  /\ stop_request' = FALSE
  /\ loading' = FALSE
  /\ pc' = IF loading THEN "resetStop" ELSE "idle"
  /\ UNCHANGED <<phase, generation, request, data, capture_on, config, playing,
                 prev_capture, active_config, local, gui, worker, history>>

\* Both paths: a pending stop is dropped, a pending request is not.
InitTail ==
  /\ pc = "initTail"
  /\ stop_request' = FALSE
  /\ prev_capture' = capture_on
  /\ loading' = FALSE
  /\ pc' = IF loading THEN "resetStop" ELSE "idle"
  /\ UNCHANGED <<phase, generation, request, data, capture_on, config, playing,
                 active_config, local, gui, worker, history>>

Initialize ==
  \/ InitWaitOver \/ InitTimeout \/ InitBump \/ InitProbe \/ InitRealloc
  \/ InitReclaim \/ InitTake \/ InitAllocate \/ InitTail

-----------------------------------------------------------------------------
(***************************************************************************)
(* reset(): from start_processing / setProcessing(true) / clap reset, or   *)
(* right after the initialize() of a state load.                           *)
(***************************************************************************)
ResetUnchanged == UNCHANGED <<generation, data, hostVars, prev_capture,
                              active_config, local, gui, worker, shown, loadedOn>>

StartProcessing ==
  /\ HostMayCall /\ config # NoConfig
  /\ playing' = TRUE
  /\ pc' = "resetStop"
  /\ UNCHANGED <<shared, data, capture_on, config, loading, prev_capture,
                 active_config, local, gui, worker, history>>

\* Mutant: reset() clears the capture request along with the stop.
MutResetStop ==
  /\ pc = "resetStop"
  /\ stop_request' = FALSE /\ request' = FALSE
  /\ pc' = "resetArmed"
  /\ UNCHANGED <<phase, cancelling>> /\ ResetUnchanged

ResetStop ==
  /\ pc = "resetStop"
  /\ stop_request' = FALSE
  /\ pc' = "resetArmed"
  /\ UNCHANGED <<phase, request, cancelling>> /\ ResetUnchanged

ResetArmed ==
  /\ pc = "resetArmed"
  /\ phase' = Cas("ARMED", "IDLE")
  /\ pc' = IF phase = "ARMED" THEN "resetRequest" ELSE "resetCapturing"
  /\ cancelling' = IF phase = "ARMED" /\ cancelling = "live" THEN "rearmed" ELSE cancelling
  /\ UNCHANGED <<request, stop_request>> /\ ResetUnchanged

\* Mutant: an Armed capture is dropped, not turned back into a request.
MutResetRequest ==
  /\ pc = "resetRequest"
  /\ pc' = "resetCapturing"
  /\ UNCHANGED <<phase, request, stop_request, cancelling>>
  /\ ResetUnchanged

ResetRequest ==
  /\ pc = "resetRequest"
  /\ request' = TRUE
  /\ pc' = "resetCapturing"
  /\ UNCHANGED <<phase, stop_request, cancelling>> /\ ResetUnchanged

ResetCapturing ==
  /\ pc = "resetCapturing"
  /\ phase' = Cas("CAPTURING", "IDLE")
  /\ pc' = "idle"
  /\ UNCHANGED <<request, stop_request, cancelling>> /\ ResetUnchanged

Reset == ResetStop \/ ResetArmed \/ ResetRequest \/ ResetCapturing

-----------------------------------------------------------------------------
(***************************************************************************)
(* process(): one block.  What the gate decides per sample (modelled in    *)
(* CaptureGate and CaptureRecord) is a choice here: how much of the room   *)
(* left the block records, and whether the silence has lasted long enough  *)
(* to finish.  The locals are cleared after their last use.                *)
(***************************************************************************)
BlockUnchanged == UNCHANGED <<hostVars, active_config, gui, tpc,
                              loadedOn>>

BlockStart ==
  /\ HostMayCall /\ playing
  /\ rising' = request /\ request' = FALSE
  /\ pc' = "blockEdges"
  /\ UNCHANGED <<phase, generation, stop_request, data, prev_capture, now, done,
                 queue, task, shown, cancelling>>
  /\ BlockUnchanged

BlockEdges ==
  /\ pc = "blockEdges"
  /\ stop_request' = FALSE
  /\ rising' = (rising \/ (capture_on /\ ~prev_capture))
  /\ prev_capture' = capture_on
  /\ pc' = IF stop_request \/ (~capture_on /\ prev_capture)
           THEN "stopArmed" ELSE "armCheck"
  /\ UNCHANGED <<phase, generation, request, data, now, done, queue, task, shown, cancelling>>
  /\ BlockUnchanged

StopArmed ==
  /\ pc = "stopArmed"
  /\ phase' = Cas("ARMED", "IDLE")
  /\ pc' = "stopCapturing"
  /\ UNCHANGED <<generation, request, stop_request, data, prev_capture, local, queue,
                 task, shown, cancelling>>
  /\ BlockUnchanged

\* The CAS Capturing -> Analyzing and where it leads if it succeeds.
FinishCapture(dispatch, otherwise) ==
  /\ PromptTask => ~InReleaseGap
  /\ phase' = Cas("CAPTURING", "ANALYZING")
  /\ pc' = IF phase = "CAPTURING" THEN dispatch ELSE otherwise

StopCapturing ==
  /\ pc = "stopCapturing"
  /\ FinishCapture("stopDispatch", "armCheck")
  /\ UNCHANGED <<generation, request, stop_request, data, prev_capture, local, queue,
                 task, shown, cancelling>>
  /\ BlockUnchanged

\* execute_background: try_send on the shared task queue; a full queue drops it.
Dispatch ==
  /\ \/ queue' = Append(queue, Task(generation))
     \/ CanLose /\ queue' = queue
  /\ UNCHANGED <<shared, data, prev_capture, local, task, shown, cancelling>>
  /\ BlockUnchanged

StopDispatch == pc = "stopDispatch" /\ pc' = "armCheck" /\ Dispatch

ArmCheck ==
  /\ pc = "armCheck"
  /\ pc' = IF rising /\ phase = "IDLE" THEN "armTake" ELSE "record"
  /\ rising' = FALSE
  /\ UNCHANGED <<shared, data, prev_capture, now, done, queue, task, shown, cancelling>>
  /\ BlockUnchanged

ArmTake ==
  /\ pc = "armTake"
  /\ BorrowMut("armDrop")
  /\ UNCHANGED <<shared, main_len, filled, target_len, prev_capture, local, queue,
                 task, shown, cancelling>>
  /\ BlockUnchanged

\* Mutant: sized for the configuration instead of the buffers.
MutArmDrop ==
  /\ pc = "armDrop"
  /\ target_len' = BufLen[config] /\ filled' = 0 /\ borrow' = "none"
  /\ pc' = "armStore"
  /\ UNCHANGED <<shared, main_len, prev_capture, local, queue, task, shown, cancelling>>
  /\ BlockUnchanged

ArmDrop ==
  /\ pc = "armDrop"
  /\ target_len' = main_len /\ filled' = 0 /\ borrow' = "none"
  /\ pc' = "armStore"
  /\ UNCHANGED <<shared, main_len, prev_capture, local, queue, task, shown, cancelling>>
  /\ BlockUnchanged

ArmStore ==
  /\ pc = "armStore"
  /\ phase' = "ARMED"
  /\ pc' = "record"
  /\ queue' = [i \in DOMAIN queue |-> Aged(queue[i])] /\ task' = Aged(task)
  /\ shown' = IF shown = "latest" THEN "earlier" ELSE shown
  /\ cancelling' = IF cancelling = "live" THEN "none" ELSE cancelling
  /\ UNCHANGED <<generation, request, stop_request, data, prev_capture, local>>
  /\ BlockUnchanged

Record ==
  /\ pc = "record"
  /\ \/ phase \in {"ARMED", "CAPTURING"} /\ now' = phase /\ pc' = "recordTake"
     \/ phase \notin {"ARMED", "CAPTURING"} /\ UNCHANGED now /\ pc' = "idle"
  /\ UNCHANGED <<shared, data, prev_capture, rising, done, queue, task, shown, cancelling>>
  /\ BlockUnchanged

RecordTake ==
  /\ pc = "recordTake"
  /\ BorrowMut("recordDrop")
  /\ UNCHANGED <<shared, main_len, filled, target_len, prev_capture, local, queue,
                 task, shown, cancelling>>
  /\ BlockUnchanged

\* done: the buffers are full or the closed streak reached the auto-finish.
RecordDrop ==
  /\ pc = "recordDrop"
  /\ filled' \in {filled} \cup (filled .. target_len)
  /\ done' \in BOOLEAN /\ (filled' >= target_len => done')
  /\ borrow' = "none"
  /\ pc' = "promote"
  /\ UNCHANGED <<shared, main_len, target_len, prev_capture, rising, now, queue,
                 task, shown, cancelling>>
  /\ BlockUnchanged

\* Mutant: a blind store.
MutPromote ==
  /\ pc = "promote"
  /\ LET promoting == now = "ARMED" /\ filled > 0
         after     == IF promoting THEN "CAPTURING" ELSE now
     IN  /\ phase' = IF promoting THEN after ELSE phase
         /\ pc' = IF after = "CAPTURING" /\ done THEN "finish" ELSE "idle"
  /\ now' = "IDLE" /\ done' = FALSE
  /\ UNCHANGED <<generation, request, stop_request, data, prev_capture, rising,
                 queue, task, shown, cancelling>>
  /\ BlockUnchanged

\* A failed CAS takes the phase it found: a cancel that landed mid-block wins.
Promote ==
  /\ pc = "promote"
  /\ LET promoting == now = "ARMED" /\ filled > 0
         after     == IF promoting THEN Cas("ARMED", "CAPTURING") ELSE now
     IN  /\ phase' = IF promoting THEN after ELSE phase
         /\ pc' = IF after = "CAPTURING" /\ done THEN "finish" ELSE "idle"
  /\ now' = "IDLE" /\ done' = FALSE
  /\ UNCHANGED <<generation, request, stop_request, data, prev_capture, rising,
                 queue, task, shown, cancelling>>
  /\ BlockUnchanged

Finish ==
  /\ pc = "finish"
  /\ FinishCapture("finishDispatch", "idle")
  /\ UNCHANGED <<generation, request, stop_request, data, prev_capture, local, queue,
                 task, shown, cancelling>>
  /\ BlockUnchanged

FinishDispatch == pc = "finishDispatch" /\ pc' = "idle" /\ Dispatch

Block ==
  \/ BlockEdges \/ StopArmed \/ StopCapturing \/ StopDispatch \/ ArmCheck
  \/ ArmTake \/ ArmDrop \/ ArmStore \/ Record \/ RecordTake \/ RecordDrop
  \/ Promote \/ Finish \/ FinishDispatch

-----------------------------------------------------------------------------
(***************************************************************************)
(* GUI: a frame reads display_phase (two loads), draws the buttons for it  *)
(* and handles at most one click; the phase may have moved on by then.     *)
(***************************************************************************)
GuiUnchanged == UNCHANGED <<generation, data, hostVars, prev_capture, active_config,
                            pc, local, worker, shown, loadedOn>>

FrameStart ==
  /\ gui = "idle"
  /\ gui' = IF phase = "IDLE" THEN "look" ELSE phase
  /\ UNCHANGED <<phase, request, stop_request, cancelling>> /\ GuiUnchanged

FrameLook ==
  /\ gui = "look"
  /\ gui' = IF request THEN "PENDING" ELSE "IDLE"
  /\ UNCHANGED <<phase, request, stop_request, cancelling>> /\ GuiUnchanged

FrameEnd ==
  /\ gui \in Phases \cup {"PENDING"}
  /\ gui' = "idle"
  /\ UNCHANGED <<phase, request, stop_request, cancelling>> /\ GuiUnchanged

\* CaptureHandle::request_capture, from the Capture button
ClickCapture ==
  /\ gui = "IDLE"
  /\ request' = TRUE
  /\ gui' = "idle"
  /\ UNCHANGED <<phase, stop_request, cancelling>> /\ GuiUnchanged

\* CaptureHandle::request_stop, from the Stop button; while Pending it cancels.
ClickStop ==
  /\ gui \in {"ARMED", "CAPTURING"}
  /\ stop_request' = TRUE
  /\ gui' = "idle"
  /\ UNCHANGED <<phase, request, cancelling>> /\ GuiUnchanged

\* CaptureHandle::cancel_capture: two stores, then one CAS per phase.
ClickCancel ==
  /\ gui \in {"PENDING", "ARMED", "CAPTURING"}
  /\ request' = FALSE
  /\ cancelling' = IF phase \in {"ARMED", "CAPTURING"} THEN "live" ELSE "none"
  /\ gui' = "cancelStop"
  /\ UNCHANGED <<phase, stop_request>> /\ GuiUnchanged

CancelStop ==
  /\ gui = "cancelStop"
  /\ stop_request' = FALSE
  /\ gui' = "cancel1"
  /\ UNCHANGED <<phase, request, cancelling>> /\ GuiUnchanged

\* Mutant: Capturing first.
MutCancelOrder == [cancel1 |-> "CAPTURING", cancel2 |-> "ARMED"]

\* The order of the two CASes.
CancelOrder == [cancel1 |-> "ARMED", cancel2 |-> "CAPTURING"]

CancelPhase(step, next) ==
  /\ gui = step
  /\ phase' = Cas(CancelOrder[step], "IDLE")
  /\ gui' = next
  /\ UNCHANGED <<request, stop_request, cancelling>> /\ GuiUnchanged

CancelEnd ==
  /\ gui = "cancelled"
  /\ gui' = "idle" /\ cancelling' = "none"
  /\ UNCHANGED <<phase, request, stop_request>> /\ GuiUnchanged

Cancel ==
  \/ CancelStop \/ CancelPhase("cancel1", "cancel2")
  \/ CancelPhase("cancel2", "cancelled") \/ CancelEnd

-----------------------------------------------------------------------------
(***************************************************************************)
(* bg-worker: takes one task at a time and runs analyze_and_publish inside *)
(* catch_unwind.                                                           *)
(***************************************************************************)
TaskUnchanged == UNCHANGED <<generation, request, stop_request, main_len, filled,
                             target_len, hostVars, prev_capture, active_config, pc,
                             local, gui, loadedOn, cancelling>>

\* The task is over; the worker loop goes back to its channel.
TaskExit == tpc' = "none" /\ task' = NoTask

TaskTake ==
  /\ tpc = "none" /\ queue # <<>>
  /\ task' = Head(queue) /\ queue' = Tail(queue)
  /\ tpc' = "check"
  /\ UNCHANGED <<phase, borrow, shown>> /\ TaskUnchanged

\* Mutant: no check before the borrow.
MutTaskCheck ==
  /\ tpc = "check"
  /\ tpc' = "borrow"
  /\ UNCHANGED <<phase, borrow, queue, task, shown>> /\ TaskUnchanged

\* The generation check before the borrow.
TaskCheck ==
  /\ tpc = "check"
  /\ \/ task.gen = generation /\ tpc' = "borrow" /\ UNCHANGED task
     \/ task.gen # generation /\ TaskExit
  /\ UNCHANGED <<phase, borrow, queue, shown>> /\ TaskUnchanged

\* try_borrow
TaskBorrow ==
  /\ tpc = "borrow"
  /\ \/ borrow = "none" /\ borrow' = "task" /\ tpc' = "recheck" /\ UNCHANGED task
     \/ borrow # "none" /\ TaskExit /\ UNCHANGED borrow
  /\ UNCHANGED <<phase, queue, shown>> /\ TaskUnchanged

\* The generation check inside the borrow: a stale task drops it, then CASes.
TaskRecheck ==
  /\ tpc = "recheck"
  /\ \/ task.gen = generation /\ tpc' = "analyze" /\ UNCHANGED borrow
     \/ task.gen # generation /\ tpc' = "release" /\ borrow' = "none"
  /\ UNCHANGED <<phase, queue, task, shown>> /\ TaskUnchanged

\* analyze_spliced, the result stores and the snapshot copy; drops the borrow.
TaskAnalyze ==
  /\ tpc = "analyze"
  /\ borrow' = "none" /\ tpc' = "store"
  /\ UNCHANGED <<phase, queue, task, shown>> /\ TaskUnchanged

\* shared.snapshot.store, which may wait for the mutex the GUI takes each frame.
TaskStore ==
  /\ tpc = "store"
  /\ shown' = IF task.cap = "cur" THEN "latest" ELSE "earlier"
  /\ tpc' = "release"
  /\ UNCHANGED <<phase, borrow, queue, task>> /\ TaskUnchanged

\* Mutant: a blind store.
MutBlindRelease ==
  /\ tpc = "release"
  /\ phase' = "IDLE"
  /\ TaskExit
  /\ UNCHANGED <<borrow, queue, shown>> /\ TaskUnchanged

\* Mutant: a generation guard on the final CAS.
MutTaskRelease ==
  /\ tpc = "release"
  /\ phase' = IF task.gen = generation THEN Cas("ANALYZING", "IDLE") ELSE phase
  /\ TaskExit
  /\ UNCHANGED <<borrow, queue, shown>> /\ TaskUnchanged

TaskRelease ==
  /\ tpc = "release"
  /\ phase' = Cas("ANALYZING", "IDLE")
  /\ TaskExit
  /\ UNCHANGED <<borrow, queue, shown>> /\ TaskUnchanged

\* An unwind drops the borrow; the panic hook may flush for up to 2 s.
TaskPanic ==
  /\ CanPanic /\ tpc = "analyze"
  /\ borrow' = "none" /\ tpc' = "unwound"
  /\ UNCHANGED <<phase, queue, task, shown>> /\ TaskUnchanged

\* The repair arm releases the phase only if nothing was reclaimed meanwhile.
TaskRepair ==
  /\ tpc = "unwound"
  /\ \/ task.gen = generation /\ tpc' = "release" /\ UNCHANGED task
     \/ task.gen # generation /\ TaskExit
  /\ UNCHANGED <<phase, borrow, queue, shown>> /\ TaskUnchanged

TaskStep ==
  \/ TaskTake \/ TaskCheck \/ TaskBorrow \/ TaskRecheck \/ TaskAnalyze
  \/ TaskStore \/ TaskRelease \/ TaskRepair

-----------------------------------------------------------------------------
PluginStep == Initialize \/ Reset \/ Block

HostStep ==
  \/ \E c \in Configs : Activate(c)
  \/ \E on \in BOOLEAN : LoadParams(on)
  \/ LoadInitialize \/ ToggleCapture \/ StartProcessing \/ BlockStart

GuiStep ==
  \/ FrameStart \/ FrameLook \/ FrameEnd
  \/ ClickCapture \/ ClickStop \/ ClickCancel \/ Cancel

Next == HostStep \/ PluginStep \/ GuiStep \/ TaskStep \/ TaskPanic

Spec == Init /\ [][Next]_vars

(***************************************************************************)
(* Fairness.  A call the host has made runs to its end and the worker      *)
(* thread keeps draining its queue; nothing obliges the host to call or    *)
(* the user to click.  Playing, a host that keeps running blocks, is a     *)
(* premise of PendingArms only.                                            *)
(***************************************************************************)
FairSpec == Spec /\ WF_vars(PluginStep) /\ WF_vars(TaskStep)

Playing == []<><<BlockStart>>_vars

-----------------------------------------------------------------------------
ResetSteps == {"resetStop", "resetArmed", "resetRequest", "resetCapturing"}
BlockSteps == {"blockEdges", "stopArmed", "stopCapturing", "stopDispatch", "armCheck",
               "armTake", "armDrop", "armStore", "record", "recordTake", "recordDrop",
               "promote", "finish", "finishDispatch"}
Dispatching == {"stopDispatch", "finishDispatch"}

TaskType == [gen : Nat, cap : {"cur", "old"}]

FlagsOK ==
  /\ request \in BOOLEAN /\ stop_request \in BOOLEAN
  /\ capture_on \in BOOLEAN /\ prev_capture \in BOOLEAN
  /\ playing \in BOOLEAN /\ loading \in BOOLEAN
  /\ rising \in BOOLEAN /\ done \in BOOLEAN
  /\ loadedOn \in BOOLEAN

ValuesOK ==
  /\ phase \in Phases /\ generation \in Nat
  /\ borrow \in {"none", "plugin", "task"}
  /\ main_len \in Nat /\ filled \in Nat /\ target_len \in Nat
  /\ active_config \in Configs \cup {NoConfig}
  /\ config \in Configs \cup {NoConfig}
  /\ pc \in {"idle", "panicked"} \cup InitSteps \cup ResetSteps \cup BlockSteps
  /\ now \in Phases
  /\ gui \in Phases \cup {"idle", "look", "PENDING", "cancelStop", "cancel1",
                          "cancel2", "cancelled"}
  /\ queue \in Seq(TaskType) /\ task \in TaskType
  /\ tpc \in {"none", "check", "borrow", "recheck", "analyze", "store", "release",
              "unwound"}
  /\ shown \in {"latest", "earlier"}
  /\ cancelling \in {"none", "live", "rearmed"}

TypeOK == FlagsOK /\ ValuesOK

(***************************************************************************)
(* No AtomicRefCell panic: whenever initialize() or process() reaches a    *)
(* borrow_mut() on the capture buffers, no analysis task holds them.       *)
(***************************************************************************)
BorrowNeverPanics == pc # "panicked"

(***************************************************************************)
(* Every index the audio thread writes and every slice the task takes lies *)
(* inside the buffers, whichever configuration they were last sized for.   *)
(***************************************************************************)
IndexInBounds == filled <= target_len /\ target_len <= main_len

(***************************************************************************)
(* A task's final CAS, which is not generation-guarded, changes nothing    *)
(* but the Analyzing its own capture entered: a successor that was armed   *)
(* or is recording by then, after a reclaim in the gap before the CAS,     *)
(* stays so, and its own Analyzing is not released for it.                 *)
(***************************************************************************)
ReleasesOwnPhase ==
  [][TaskRelease /\ phase' # phase => phase = "ANALYZING" /\ task.cap = "cur"]_vars

(***************************************************************************)
(* What the editor shows as armed - an Armed phase or an unconsumed        *)
(* request - is standing intent: no step of initialize() or reset() loses  *)
(* it.                                                                     *)
(***************************************************************************)
Intent == phase = "ARMED" \/ request \/ pc = "resetRequest"

IntentSurvivesHostCalls ==
  [][(Initialize \/ Reset) /\ Intent => Intent']_vars

(***************************************************************************)
(* A session saved with Capture left on fires nothing once its load is     *)
(* over: when the load's initialize() has returned, a block sees a rising  *)
(* edge only from a request or from a parameter somebody moved since, even *)
(* if blocks ran throughout the load.  The condition is essential: between *)
(* the load's parameter writes and its initialize() a block does take the  *)
(* restored parameter for a click, as nothing keeps it out.                *)
(***************************************************************************)
LoadArmsNothing ==
  [][BlockEdges /\ rising' => rising \/ ~loadedOn \/ loading]_vars

(***************************************************************************)
(* cancel_capture: "one of the two CASes always lands" - a cancel that     *)
(* found a capture armed or recording does not leave it so, as long as no  *)
(* reset() turns it back into a request on the way.                        *)
(***************************************************************************)
CancelLands ==
  gui = "cancelled" /\ cancelling = "live" => phase \notin {"ARMED", "CAPTURING"}

(***************************************************************************)
(* Liveness: an analysis ends, its generation reclaimed or not, as long as *)
(* the task queue accepts it and it does not panic.                        *)
(***************************************************************************)
AnalysisEnds == phase = "ANALYZING" ~> phase # "ANALYZING"

(***************************************************************************)
(* Liveness: with a host that plays, a capture requested while no capture  *)
(* is running is armed, whatever resets, activations and state loads come  *)
(* first, unless a cancel withdraws it.                                    *)
(***************************************************************************)
PendingArms ==
  Playing => (phase = "IDLE" /\ request /\ config # NoConfig
                ~> phase = "ARMED" \/ gui = "cancelStop")

-----------------------------------------------------------------------------
(***************************************************************************)
(* The abstract capture cycle this machine implements.  An analysis is due *)
(* while some task may still complete it; complete, it is a snapshot on    *)
(* its way to the editor, overtaken if the next capture is armed first.    *)
(***************************************************************************)
AnalysisDue ==
  \/ pc \in Dispatching
  \/ \E i \in DOMAIN queue : queue[i].gen = generation
  \/ tpc \in {"check", "borrow", "recheck"} /\ task.gen = generation
  \/ tpc = "analyze"

Due ==
  IF tpc = "store" THEN (IF task.cap = "cur" THEN "snapshot" ELSE "overtaken")
                   ELSE IF AnalysisDue THEN "analysis" ELSE "none"

Cycle == INSTANCE CaptureCycle WITH stage <- phase, due <- Due, shown <- shown

RefinesCycle == Cycle!Spec
=============================================================================
