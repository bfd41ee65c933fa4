------------------------ MODULE CapturePhaseProofs ------------------------
(***************************************************************************)
(* Proofs about CapturePhase, for any configurations and any number of     *)
(* reclaims: type correctness; indexes inside the buffers; while           *)
(* PromptTask holds, no borrow_mut() of the capture buffers that collides  *)
(* with an analysis task, no task that releases a successor's phase, and   *)
(* the abstract cycle of CaptureCycle implemented; and what resets, state  *)
(* loads and cancels may not do to a capture.                              *)
(***************************************************************************)
EXTENDS CapturePhase, TLAPS

(***************************************************************************)
(* The inductive invariant.  A task is current while its generation is the *)
(* present one; in a window it has passed its first check and will still   *)
(* touch the buffers (Grabbing) or only the snapshot and the phase (Gap).  *)
(***************************************************************************)
Grabbing == {"borrow", "recheck", "analyze"}
Gap      == {"store", "release"}
Windows  == Grabbing \cup Gap
Running  == Windows \cup {"check", "unwound"}
Current(i)     == queue[i].gen = generation
NoneQueued     == \A i \in DOMAIN queue : ~Current(i)
RunningCurrent == tpc \in Running /\ task.gen = generation

\* Where the plugin thread relies on phase # Analyzing to own the buffers.
Owning == BlockSteps \cup {"initWait", "initTake", "initAllocate"}

\* Who holds the cell.
CellInv ==
  /\ borrow = "plugin" <=> pc \in {"initRealloc", "initAllocate", "armDrop", "recordDrop"}
  /\ borrow = "task" <=> tpc \in {"recheck", "analyze"}
  /\ pc # "panicked"
  /\ pc \in {"initTake", "initAllocate", "armTake", "armDrop", "armStore", "recordTake",
            "recordDrop"}
       => phase # "ANALYZING"

\* Generations only move on, and a current task owns the Analyzing phase alone.
GenInv ==
  /\ \A i \in DOMAIN queue : queue[i].gen <= generation
  /\ task.gen <= generation
  /\ phase # "ANALYZING" => NoneQueued /\ ~RunningCurrent
  /\ \A i, j \in DOMAIN queue : Current(i) /\ Current(j) => i = j
  /\ RunningCurrent => NoneQueued
  /\ phase = "ANALYZING" /\ tpc \in Windows => NoneQueued

\* No task is after the buffers once the plugin thread may own them.
WindowInv ==
  /\ tpc = "analyze" => phase = "ANALYZING"
  /\ pc \in Owning /\ phase # "ANALYZING" => tpc \notin Grabbing
  /\ pc \in Dispatching => /\ phase = "ANALYZING" /\ tpc \notin Windows
                           /\ NoneQueued /\ ~RunningCurrent
  /\ pc \in {"initProbe", "initRealloc", "initReclaim"} => NoneQueued /\ ~RunningCurrent
  /\ pc \in {"initRealloc", "initReclaim"} => tpc # "analyze"

IInv == TypeOK /\ CellInv /\ GenInv /\ WindowInv

-----------------------------------------------------------------------------
(***************************************************************************)
(* Lemmas on the worker's queue.                                           *)
(***************************************************************************)
LEMMA AppendType ==
  ASSUME NEW q \in Seq(TaskType), NEW g \in Nat
  PROVE  /\ Append(q, Task(g)) \in Seq(TaskType)
         /\ Len(Append(q, Task(g))) = Len(q) + 1
         /\ \A i \in DOMAIN q : Append(q, Task(g))[i] = q[i]
         /\ Append(q, Task(g))[Len(q) + 1] = Task(g)
  BY DEF TaskType, Task

LEMMA AgedType ==
  ASSUME NEW q \in Seq(TaskType), NEW t \in TaskType
  PROVE  /\ Aged(t) \in TaskType /\ Aged(t).gen = t.gen
         /\ [i \in DOMAIN q |-> Aged(q[i])] \in Seq(TaskType)
         /\ DOMAIN [i \in DOMAIN q |-> Aged(q[i])] = DOMAIN q
  <1>1. \A u \in TaskType : Aged(u) \in TaskType /\ Aged(u).gen = u.gen
    BY DEF TaskType, Aged
  <1>2. DOMAIN q = 1 .. Len(q) /\ Len(q) \in Nat
    OBVIOUS
  <1>3. [i \in 1 .. Len(q) |-> Aged(q[i])] \in Seq(TaskType)
    BY <1>1, <1>2
  <1> QED BY <1>1, <1>2, <1>3

LEMMA TailType ==
  ASSUME NEW q \in Seq(TaskType), q # <<>>
  PROVE  /\ Head(q) \in TaskType /\ Head(q) = q[1] /\ 1 \in DOMAIN q
         /\ Tail(q) \in Seq(TaskType)
         /\ \A i \in DOMAIN Tail(q) : i + 1 \in DOMAIN q /\ Tail(q)[i] = q[i + 1]
         /\ DOMAIN Tail(q) = 1 .. Len(q) - 1 /\ Len(q) \in Nat /\ DOMAIN q = 1 .. Len(q)
  OBVIOUS

-----------------------------------------------------------------------------
(***************************************************************************)
(* Type correctness.  A call into the plugin is only made once the host    *)
(* has a configuration.                                                    *)
(***************************************************************************)
Configured == loading \/ pc \in InitSteps => config \in Configs

TypeInv == TypeOK /\ Configured

LEMMA TypeInit == Init => TypeInv
  <1> SUFFICES ASSUME Init PROVE TypeInv
    OBVIOUS
  <1>1. FlagsOK
    BY Zenon DEF Init, FlagsOK
  <1>2. ValuesOK
    BY DEF Init, ValuesOK, NoTask, TaskType, Phases
  <1>3. Configured
    BY DEF Init, Configured, InitSteps
  <1> QED BY <1>1, <1>2, <1>3 DEF TypeInv, TypeOK

LEMMA FlagsStep == FlagsOK /\ [Next]_vars => FlagsOK'
  <1> SUFFICES ASSUME FlagsOK, [Next]_vars
               PROVE  FlagsOK'
    OBVIOUS
  <1> USE DEF FlagsOK, shared, data, hostVars, local, worker, history
  <1>1. CASE HostStep
    <2>1. ASSUME NEW c \in Configs, Activate(c)
          PROVE  FlagsOK'
      BY <2>1, Zenon DEF Activate
    <2>2. ASSUME NEW on \in BOOLEAN, LoadParams(on)
          PROVE  FlagsOK'
      BY <2>2, Zenon DEF LoadParams
    <2>3. CASE LoadInitialize
      BY <2>3, Zenon DEF LoadInitialize
    <2>4. CASE ToggleCapture
      BY <2>4, Zenon DEF ToggleCapture
    <2>5. CASE StartProcessing
      BY <2>5, Zenon DEF StartProcessing
    <2>6. CASE BlockStart
      BY <2>6, Zenon DEF BlockStart, BlockUnchanged
    <2> QED BY <1>1, <2>1, <2>2, <2>3, <2>4, <2>5, <2>6 DEF HostStep
  <1>2. CASE Initialize
    <2>1. CASE InitWaitOver
      BY <2>1, Zenon DEF InitWaitOver, InitUnchanged
    <2>2. CASE InitTimeout
      BY <2>2, Zenon DEF InitTimeout, InitUnchanged
    <2>3. CASE InitBump
      BY <2>3, Zenon DEF InitBump, InitUnchanged
    <2>4. CASE InitProbe
      BY <2>4, Zenon DEF InitProbe, InitUnchanged
    <2>5. CASE InitRealloc
      BY <2>5, Zenon DEF InitRealloc, InitUnchanged
    <2>6. CASE InitReclaim
      BY <2>6, Zenon DEF InitReclaim, InitUnchanged
    <2>7. CASE InitTake
      BY <2>7, Zenon DEF InitTake, InitUnchanged
    <2>8. CASE InitAllocate
      BY <2>8, Zenon DEF InitAllocate, InitUnchanged
    <2>9. CASE InitTail
      BY <2>9, Zenon DEF InitTail, InitUnchanged
    <2> QED BY <1>2, <2>1, <2>2, <2>3, <2>4, <2>5, <2>6, <2>7, <2>8, <2>9 DEF Initialize
  <1>3. CASE Reset
    <2>1. CASE ResetStop
      BY <2>1, Zenon DEF ResetStop, ResetUnchanged
    <2>2. CASE ResetArmed
      BY <2>2, Zenon DEF ResetArmed, ResetUnchanged
    <2>3. CASE ResetRequest
      BY <2>3, Zenon DEF ResetRequest, ResetUnchanged
    <2>4. CASE ResetCapturing
      BY <2>4, Zenon DEF ResetCapturing, ResetUnchanged
    <2> QED BY <1>3, <2>1, <2>2, <2>3, <2>4 DEF Reset
  <1>4. CASE Block
    <2>1. CASE BlockEdges
      BY <2>1, Zenon DEF BlockEdges, BlockUnchanged
    <2>2. CASE StopArmed
      BY <2>2, Zenon DEF StopArmed, BlockUnchanged
    <2>3. CASE StopCapturing
      BY <2>3, Zenon DEF StopCapturing, BlockUnchanged, FinishCapture
    <2>4. CASE StopDispatch
      BY <2>4, Zenon DEF StopDispatch, BlockUnchanged, Dispatch
    <2>5. CASE ArmCheck
      BY <2>5, Zenon DEF ArmCheck, BlockUnchanged
    <2>6. CASE ArmTake
      BY <2>6, Zenon DEF ArmTake, BlockUnchanged
    <2>7. CASE ArmDrop
      BY <2>7, Zenon DEF ArmDrop, BlockUnchanged
    <2>8. CASE ArmStore
      BY <2>8, Zenon DEF ArmStore, BlockUnchanged
    <2>9. CASE Record
      BY <2>9, Zenon DEF Record, BlockUnchanged
    <2>10. CASE RecordTake
      BY <2>10, Zenon DEF RecordTake, BlockUnchanged
    <2>11. CASE RecordDrop
      BY <2>11, Zenon DEF RecordDrop, BlockUnchanged
    <2>12. CASE Promote
      BY <2>12, Zenon DEF Promote, BlockUnchanged
    <2>13. CASE Finish
      BY <2>13, Zenon DEF Finish, BlockUnchanged, FinishCapture
    <2>14. CASE FinishDispatch
      BY <2>14, Zenon DEF FinishDispatch, BlockUnchanged, Dispatch
    <2> QED BY <1>4, <2>1, <2>2, <2>3, <2>4, <2>5, <2>6, <2>7, <2>8, <2>9, <2>10, <2>11, <2>12, <2>13, <2>14 DEF Block
  <1>5. CASE GuiStep
    <2>1. CASE FrameStart
      BY <2>1, Zenon DEF FrameStart, GuiUnchanged
    <2>2. CASE FrameLook
      BY <2>2, Zenon DEF FrameLook, GuiUnchanged
    <2>3. CASE FrameEnd
      BY <2>3, Zenon DEF FrameEnd, GuiUnchanged
    <2>4. CASE ClickCapture
      BY <2>4, Zenon DEF ClickCapture, GuiUnchanged
    <2>5. CASE ClickStop
      BY <2>5, Zenon DEF ClickStop, GuiUnchanged
    <2>6. CASE ClickCancel
      BY <2>6, Zenon DEF ClickCancel, GuiUnchanged
    <2>7. CASE CancelStop
      BY <2>7, Zenon DEF CancelStop, GuiUnchanged
    <2>8. CASE CancelEnd
      BY <2>8, Zenon DEF CancelEnd, GuiUnchanged
    <2>9. CASE CancelPhase("cancel1", "cancel2")
      BY <2>9, Zenon DEF CancelPhase, GuiUnchanged
    <2>10. CASE CancelPhase("cancel2", "cancelled")
      BY <2>10, Zenon DEF CancelPhase, GuiUnchanged
    <2> QED BY <1>5, <2>1, <2>2, <2>3, <2>4, <2>5, <2>6, <2>7, <2>8, <2>9, <2>10 DEF GuiStep, Cancel
  <1>6. CASE TaskStep \/ TaskPanic
    <2>1. CASE TaskTake
      BY <2>1, Zenon DEF TaskTake, TaskUnchanged
    <2>2. CASE TaskCheck
      BY <2>2, Zenon DEF TaskCheck, TaskUnchanged
    <2>3. CASE TaskBorrow
      BY <2>3, Zenon DEF TaskBorrow, TaskUnchanged
    <2>4. CASE TaskRecheck
      BY <2>4, Zenon DEF TaskRecheck, TaskUnchanged
    <2>5. CASE TaskAnalyze
      BY <2>5, Zenon DEF TaskAnalyze, TaskUnchanged
    <2>6. CASE TaskStore
      BY <2>6, Zenon DEF TaskStore, TaskUnchanged
    <2>7. CASE TaskRelease
      BY <2>7, Zenon DEF TaskRelease, TaskUnchanged
    <2>8. CASE TaskPanic
      BY <2>8, Zenon DEF TaskPanic, TaskUnchanged
    <2>9. CASE TaskRepair
      BY <2>9, Zenon DEF TaskRepair, TaskUnchanged
    <2> QED BY <1>6, <2>1, <2>2, <2>3, <2>4, <2>5, <2>6, <2>7, <2>8, <2>9 DEF TaskStep
  <1>7. CASE UNCHANGED vars
    BY <1>7 DEF vars
  <1> QED BY <1>1, <1>2, <1>3, <1>4, <1>5, <1>6, <1>7 DEF Next, PluginStep

LEMMA TypeStep == TypeInv /\ [Next]_vars => TypeInv'
  <1> SUFFICES ASSUME ValuesOK, Configured, [Next]_vars
               PROVE  ValuesOK' /\ Configured'
    BY FlagsStep DEF TypeInv, TypeOK
  <1> USE DEF ValuesOK, Configured, shared, data, hostVars, local, worker, history, Phases
  <1>1. CASE HostStep
    <2>1. ASSUME NEW c \in Configs, Activate(c)
          PROVE  ValuesOK' /\ Configured'
      BY <2>1 DEF Activate, InitializeEntry, HostMayCall, InitSteps, ResetSteps, BlockSteps
    <2>2. ASSUME NEW on \in BOOLEAN, LoadParams(on)
          PROVE  ValuesOK' /\ Configured'
      BY <2>2 DEF LoadParams, HostMayCall, InitSteps, ResetSteps, BlockSteps
    <2>3. CASE LoadInitialize
      BY <2>3 DEF LoadInitialize, InitializeEntry, HostMayCall, InitSteps, ResetSteps, BlockSteps
    <2>4. CASE ToggleCapture
      BY <2>4 DEF ToggleCapture, HostMayCall, InitSteps, ResetSteps, BlockSteps
    <2>5. CASE StartProcessing
      BY <2>5 DEF StartProcessing, HostMayCall, InitSteps, ResetSteps, BlockSteps
    <2>6. CASE BlockStart
      BY <2>6 DEF BlockStart, BlockUnchanged, HostMayCall, InitSteps, ResetSteps, BlockSteps
    <2> QED BY <1>1, <2>1, <2>2, <2>3, <2>4, <2>5, <2>6 DEF HostStep
  <1>2. CASE Initialize
    <2>1. CASE InitWaitOver
      BY <2>1 DEF InitWaitOver, InitUnchanged, InitSteps, ResetSteps
    <2>2. CASE InitTimeout
      BY <2>2 DEF InitTimeout, InitUnchanged, InitSteps, ResetSteps
    <2>3. CASE InitBump
      BY <2>3 DEF InitBump, InitUnchanged, InitSteps, ResetSteps
    <2>4. CASE InitProbe
      BY <2>4 DEF InitProbe, InitUnchanged, InitSteps, ResetSteps
    <2>5. CASE InitRealloc
      BY <2>5, CapturePhaseAssumption DEF InitRealloc, InitUnchanged, Reallocate, InitSteps, ResetSteps
    <2>6. CASE InitReclaim
      BY <2>6 DEF InitReclaim, InitUnchanged, Cas, InitSteps, ResetSteps
    <2>7. CASE InitTake
      BY <2>7 DEF InitTake, InitUnchanged, BorrowMut, InitSteps, ResetSteps
    <2>8. CASE InitAllocate
      BY <2>8, CapturePhaseAssumption DEF InitAllocate, InitUnchanged, Reallocate, InitSteps, ResetSteps
    <2>9. CASE InitTail
      BY <2>9 DEF InitTail, InitUnchanged, InitSteps, ResetSteps
    <2> QED BY <1>2, <2>1, <2>2, <2>3, <2>4, <2>5, <2>6, <2>7, <2>8, <2>9 DEF Initialize
  <1>3. CASE Reset
    <2>1. CASE ResetStop
      BY <2>1 DEF ResetStop, ResetUnchanged, Cas, ResetSteps, InitSteps
    <2>2. CASE ResetArmed
      BY <2>2 DEF ResetArmed, ResetUnchanged, Cas, ResetSteps, InitSteps
    <2>3. CASE ResetRequest
      BY <2>3 DEF ResetRequest, ResetUnchanged, Cas, ResetSteps, InitSteps
    <2>4. CASE ResetCapturing
      BY <2>4 DEF ResetCapturing, ResetUnchanged, Cas, ResetSteps, InitSteps
    <2> QED BY <1>3, <2>1, <2>2, <2>3, <2>4 DEF Reset
  <1>4. CASE Block
    <2>1. CASE BlockEdges
      BY <2>1 DEF BlockEdges, BlockUnchanged, BlockSteps, InitSteps
    <2>2. CASE StopArmed
      BY <2>2 DEF StopArmed, BlockUnchanged, Cas, BlockSteps, InitSteps
    <2>3. CASE StopCapturing
      BY <2>3 DEF StopCapturing, BlockUnchanged, FinishCapture, Cas, BlockSteps, InitSteps
    <2>4. CASE StopDispatch
      BY <2>4, AppendType DEF StopDispatch, BlockUnchanged, Dispatch, BlockSteps, InitSteps
    <2>5. CASE ArmCheck
      BY <2>5 DEF ArmCheck, BlockUnchanged, BlockSteps, InitSteps
    <2>6. CASE ArmTake
      BY <2>6 DEF ArmTake, BlockUnchanged, BorrowMut, BlockSteps, InitSteps
    <2>7. CASE ArmDrop
      BY <2>7 DEF ArmDrop, BlockUnchanged, BlockSteps, InitSteps
    <2>8. CASE ArmStore
      BY <2>8, AgedType DEF ArmStore, BlockUnchanged, BlockSteps, InitSteps
    <2>9. CASE Record
      BY <2>9 DEF Record, BlockUnchanged, BlockSteps, InitSteps
    <2>10. CASE RecordTake
      BY <2>10 DEF RecordTake, BlockUnchanged, BorrowMut, BlockSteps, InitSteps
    <2>11. CASE RecordDrop
      BY <2>11 DEF RecordDrop, BlockUnchanged, BlockSteps, InitSteps
    <2>12. CASE Promote
      BY <2>12 DEF Promote, BlockUnchanged, Cas, BlockSteps, InitSteps
    <2>13. CASE Finish
      BY <2>13 DEF Finish, BlockUnchanged, FinishCapture, Cas, BlockSteps, InitSteps
    <2>14. CASE FinishDispatch
      BY <2>14, AppendType DEF FinishDispatch, BlockUnchanged, Dispatch, BlockSteps, InitSteps
    <2> QED BY <1>4, <2>1, <2>2, <2>3, <2>4, <2>5, <2>6, <2>7, <2>8, <2>9, <2>10, <2>11, <2>12, <2>13, <2>14 DEF Block
  <1>5. CASE GuiStep
    <2>1. CASE FrameStart
      BY <2>1 DEF FrameStart, GuiUnchanged, InitSteps
    <2>2. CASE FrameLook
      BY <2>2 DEF FrameLook, GuiUnchanged, InitSteps
    <2>3. CASE FrameEnd
      BY <2>3 DEF FrameEnd, GuiUnchanged, InitSteps
    <2>4. CASE ClickCapture
      BY <2>4 DEF ClickCapture, GuiUnchanged, InitSteps
    <2>5. CASE ClickStop
      BY <2>5 DEF ClickStop, GuiUnchanged, InitSteps
    <2>6. CASE ClickCancel
      BY <2>6 DEF ClickCancel, GuiUnchanged, InitSteps
    <2>7. CASE CancelStop
      BY <2>7 DEF CancelStop, GuiUnchanged, InitSteps
    <2>8. CASE CancelEnd
      BY <2>8 DEF CancelEnd, GuiUnchanged, InitSteps
    <2>9. CASE CancelPhase("cancel1", "cancel2")
      BY <2>9 DEF CancelPhase, CancelOrder, Cas, GuiUnchanged, InitSteps
    <2>10. CASE CancelPhase("cancel2", "cancelled")
      BY <2>10 DEF CancelPhase, CancelOrder, Cas, GuiUnchanged, InitSteps
    <2> QED BY <1>5, <2>1, <2>2, <2>3, <2>4, <2>5, <2>6, <2>7, <2>8, <2>9, <2>10 DEF GuiStep, Cancel
  <1>6. CASE TaskStep \/ TaskPanic
    <2>1. CASE TaskTake
      BY <2>1, TailType DEF TaskTake, TaskUnchanged, InitSteps
    <2>2. CASE TaskCheck
      BY <2>2 DEF TaskCheck, TaskUnchanged, TaskExit, NoTask, TaskType, InitSteps
    <2>3. CASE TaskBorrow
      BY <2>3 DEF TaskBorrow, TaskUnchanged, TaskExit, NoTask, TaskType, InitSteps
    <2>4. CASE TaskRecheck
      BY <2>4 DEF TaskRecheck, TaskUnchanged, InitSteps
    <2>5. CASE TaskAnalyze
      BY <2>5 DEF TaskAnalyze, TaskUnchanged, InitSteps
    <2>6. CASE TaskStore
      BY <2>6 DEF TaskStore, TaskUnchanged, InitSteps
    <2>7. CASE TaskRelease
      BY <2>7 DEF TaskRelease, TaskUnchanged, TaskExit, NoTask, TaskType, Cas, InitSteps
    <2>8. CASE TaskPanic
      BY <2>8 DEF TaskPanic, TaskUnchanged, InitSteps
    <2>9. CASE TaskRepair
      BY <2>9 DEF TaskRepair, TaskUnchanged, TaskExit, NoTask, TaskType, InitSteps
    <2> QED BY <1>6, <2>1, <2>2, <2>3, <2>4, <2>5, <2>6, <2>7, <2>8, <2>9 DEF TaskStep
  <1>7. CASE UNCHANGED vars
    BY <1>7 DEF vars
  <1> QED BY <1>1, <1>2, <1>3, <1>4, <1>5, <1>6, <1>7 DEF Next, PluginStep

\* Every variable keeps the type CaptureState, the plugin or a thread gives it.
THEOREM TypeCorrect == Spec => []TypeOK
  <1>1. TypeInv => TypeOK
    BY DEF TypeInv
  <1> QED BY TypeInit, TypeStep, <1>1, PTL DEF Spec

(***************************************************************************)
(* The capture buffers' lengths change in four places only.                *)
(***************************************************************************)
LengthsKept == UNCHANGED <<main_len, filled, target_len>>

LEMMA BoundsStep == TypeInv /\ IndexInBounds /\ [Next]_vars => IndexInBounds'
  <1> SUFFICES ASSUME TypeInv, IndexInBounds, [Next]_vars
               PROVE  IndexInBounds'
    OBVIOUS
  <1>1. main_len \in Nat /\ filled \in Nat /\ target_len \in Nat
    BY DEF TypeInv, TypeOK, ValuesOK
  <1>2. CASE LengthsKept
    BY <1>2 DEF LengthsKept, IndexInBounds
  <1>3. CASE InitRealloc \/ InitAllocate
    <2>1. config \in Configs
      BY <1>3 DEF TypeInv, Configured, InitSteps, InitRealloc, InitAllocate
    <2>2. BufLen[config] \in Nat
      BY <2>1, CapturePhaseAssumption
    <2> QED BY <1>3, <2>2 DEF InitRealloc, InitAllocate, Reallocate, IndexInBounds
  <1>4. CASE ArmDrop
    BY <1>1, <1>4 DEF ArmDrop, IndexInBounds
  <1>5. CASE RecordDrop
    BY <1>1, <1>5 DEF RecordDrop, IndexInBounds
  <1>6. HostStep \/ GuiStep \/ TaskStep \/ TaskPanic \/ UNCHANGED vars => LengthsKept
    <2> USE DEF LengthsKept, data
    <2>1. HostStep => LengthsKept
      BY Zenon DEF HostStep, Activate, LoadParams, LoadInitialize, ToggleCapture,
            StartProcessing, BlockStart
    <2>2. GuiStep => LengthsKept
      BY Zenon DEF GuiStep, FrameStart, FrameLook, FrameEnd, ClickCapture, ClickStop,
            ClickCancel, Cancel, CancelStop, CancelPhase, CancelEnd, GuiUnchanged
    <2>3. TaskStep \/ TaskPanic => LengthsKept
      BY Zenon DEF TaskStep, TaskTake, TaskCheck, TaskBorrow, TaskRecheck, TaskAnalyze,
            TaskStore, TaskRelease, TaskRepair, TaskPanic, TaskUnchanged
    <2>4. UNCHANGED vars => LengthsKept
      BY DEF vars
    <2> QED BY <2>1, <2>2, <2>3, <2>4
  <1>7. Initialize => LengthsKept \/ InitRealloc \/ InitAllocate
    BY Zenon DEF Initialize, InitWaitOver, InitTimeout, InitBump, InitProbe, InitReclaim,
          InitTake, InitTail, LengthsKept, data
  <1>8. Reset => LengthsKept
    BY Zenon DEF Reset, ResetStop, ResetArmed, ResetRequest, ResetCapturing,
          ResetUnchanged, LengthsKept, data
  <1>9. Block => LengthsKept \/ ArmDrop \/ RecordDrop
    BY Zenon DEF Block, BlockEdges, StopArmed, StopCapturing, StopDispatch, ArmCheck, ArmTake,
          ArmStore, Record, RecordTake, Promote, Finish, FinishDispatch, Dispatch,
          LengthsKept, data
  <1> QED BY <1>2, <1>3, <1>4, <1>5, <1>6, <1>7, <1>8, <1>9 DEF Next, PluginStep

\* Whatever configurations come and go, writes and slices stay in the buffers.
THEOREM IndexSafety == Spec => []IndexInBounds
  <1>1. Init => IndexInBounds
    BY DEF Init, IndexInBounds
  <1> QED BY <1>1, TypeInit, TypeStep, BoundsStep, PTL DEF Spec

-----------------------------------------------------------------------------
(***************************************************************************)
(* Preservation of the safety part of IInv, one step per action.           *)
(***************************************************************************)
LEMMA QueueType ==
  ASSUME NEW q \in Seq(TaskType)
  PROVE  \A i \in DOMAIN q : q[i] \in TaskType /\ q[i].gen \in Nat
  <1>1. \A i \in DOMAIN q : q[i] \in TaskType
    OBVIOUS
  <1> QED BY <1>1 DEF TaskType

\* Ageing the tasks, as arming does, leaves their generations alone.
LEMMA AgedSame ==
  ASSUME ValuesOK
  PROVE  LET q == [i \in DOMAIN queue |-> Aged(queue[i])]
         IN  /\ DOMAIN q = DOMAIN queue /\ Aged(task).gen = task.gen
             /\ \A i \in DOMAIN queue : q[i].gen = queue[i].gen
  BY AgedType, QueueType DEF ValuesOK

\* A dispatch adds the one current task, at the end of the queue.
LEMMA DispatchGen ==
  ASSUME ValuesOK, GenInv, NoneQueued, ~RunningCurrent, tpc \notin Windows,
         phase = "ANALYZING", Dispatch, UNCHANGED tpc
  PROVE  GenInv'
  <1>1. UNCHANGED <<phase, generation, task, tpc>>
    BY DEF Dispatch, shared
  <1>2. ~RunningCurrent' /\ (tpc \notin Windows)'
    BY <1>1 DEF RunningCurrent
  <1>3. CASE queue' = queue
    BY <1>1, <1>3 DEF GenInv, NoneQueued, Current, RunningCurrent
  <1>4. CASE queue' = Append(queue, Task(generation))
    <2>1. /\ DOMAIN queue' = 1 .. Len(queue) + 1 /\ DOMAIN queue = 1 .. Len(queue)
          /\ Len(queue) \in Nat
          /\ \A i \in DOMAIN queue : queue'[i] = queue[i]
          /\ queue'[Len(queue) + 1] = Task(generation)
      BY <1>4 DEF ValuesOK
    <2>2. \A i \in DOMAIN queue' : i \in DOMAIN queue \/ i = Len(queue) + 1
      BY <2>1
    <2>3. Task(generation).gen = generation
      BY DEF Task
    <2>4. \A i \in DOMAIN queue' : queue'[i].gen <= generation
      BY <2>1, <2>2, <2>3 DEF GenInv, ValuesOK
    <2>5. \A i \in DOMAIN queue' : queue'[i].gen = generation => i = Len(queue) + 1
      BY <2>1, <2>2, <2>3 DEF NoneQueued, Current
    <2> QED BY <1>1, <1>2, <2>4, <2>5 DEF GenInv, Current
  <1> QED BY <1>3, <1>4 DEF Dispatch

LEMMA SafeStep == ASSUME PromptTask, IInv, [Next]_vars PROVE (CellInv /\ GenInv /\ WindowInv)'
  <1> DEFINE Goal == (CellInv /\ GenInv /\ WindowInv)'
  <1> SUFFICES Goal
    OBVIOUS
  <1> USE DEF IInv, TypeOK, ValuesOK, CellInv, GenInv, WindowInv, NoneQueued, Current,
          RunningCurrent, Grabbing, Gap, Windows, Running, Owning, Dispatching, BlockSteps,
          shared, data, hostVars, local, worker, history, TaskType, Phases
  <1>1. CASE HostStep
    <2>1. ASSUME NEW c \in Configs, Activate(c)
          PROVE  Goal
      <3>1. CellInv'
        BY <2>1 DEF Activate, InitializeEntry, HostMayCall, StaleCheck
      <3>2. GenInv'
        BY <2>1 DEF Activate, InitializeEntry, HostMayCall, StaleCheck
      <3>3. WindowInv'
        BY <2>1 DEF Activate, InitializeEntry, HostMayCall, StaleCheck
      <3> QED BY <3>1, <3>2, <3>3
    <2>2. ASSUME NEW on \in BOOLEAN, LoadParams(on)
          PROVE  Goal
      <3>1. CellInv'
        BY <2>2 DEF LoadParams
      <3>2. GenInv'
        BY <2>2 DEF LoadParams
      <3>3. WindowInv'
        BY <2>2 DEF LoadParams
      <3> QED BY <3>1, <3>2, <3>3
    <2>3. CASE LoadInitialize
      <3>1. CellInv'
        BY <2>3 DEF LoadInitialize, InitializeEntry, HostMayCall, StaleCheck
      <3>2. GenInv'
        BY <2>3 DEF LoadInitialize, InitializeEntry, HostMayCall, StaleCheck
      <3>3. WindowInv'
        BY <2>3 DEF LoadInitialize, InitializeEntry, HostMayCall, StaleCheck
      <3> QED BY <3>1, <3>2, <3>3
    <2>4. CASE ToggleCapture
      <3>1. CellInv'
        BY <2>4 DEF ToggleCapture
      <3>2. GenInv'
        BY <2>4 DEF ToggleCapture
      <3>3. WindowInv'
        BY <2>4 DEF ToggleCapture
      <3> QED BY <3>1, <3>2, <3>3
    <2>5. CASE StartProcessing
      <3>1. CellInv'
        BY <2>5 DEF StartProcessing, HostMayCall, StaleCheck
      <3>2. GenInv'
        BY <2>5 DEF StartProcessing, HostMayCall, StaleCheck
      <3>3. WindowInv'
        BY <2>5 DEF StartProcessing, HostMayCall, StaleCheck
      <3> QED BY <3>1, <3>2, <3>3
    <2>6. CASE BlockStart
      <3>1. CellInv'
        BY <2>6 DEF BlockStart, BlockUnchanged, HostMayCall, StaleCheck
      <3>2. GenInv'
        BY <2>6 DEF BlockStart, BlockUnchanged, HostMayCall, StaleCheck
      <3>3. WindowInv'
        BY <2>6 DEF BlockStart, BlockUnchanged, HostMayCall, StaleCheck
      <3> QED BY <3>1, <3>2, <3>3
    <2> QED BY <1>1, <2>1, <2>2, <2>3, <2>4, <2>5, <2>6 DEF HostStep
  <1>2. CASE Initialize
    <2>1. CASE InitWaitOver
      <3>1. CellInv'
        BY <2>1 DEF InitWaitOver, InitUnchanged
      <3>2. GenInv'
        BY <2>1 DEF InitWaitOver, InitUnchanged
      <3>3. WindowInv'
        BY <2>1 DEF InitWaitOver, InitUnchanged
      <3> QED BY <3>1, <3>2, <3>3
    <2>2. CASE InitTimeout
      <3>1. CellInv'
        BY <2>2 DEF InitTimeout, InitUnchanged
      <3>2. GenInv'
        BY <2>2 DEF InitTimeout, InitUnchanged
      <3>3. WindowInv'
        BY <2>2 DEF InitTimeout, InitUnchanged
      <3> QED BY <3>1, <3>2, <3>3
    <2>3. CASE InitBump
      <3>1. CellInv'
        BY <2>3 DEF InitBump, InitUnchanged
      <3>2. GenInv'
        <4>1. generation' = generation + 1 /\ UNCHANGED <<phase, queue, tpc, task>>
          BY <2>3 DEF InitBump, InitUnchanged
        <4>2. \A i \in DOMAIN queue : queue[i].gen \in Nat /\ queue[i].gen <= generation
          BY QueueType
        <4>3. (\A i \in DOMAIN queue : queue[i].gen < generation + 1) /\ task.gen < generation + 1
          BY <4>2
        <4>4. NoneQueued' /\ ~RunningCurrent'
          BY <4>1, <4>2, <4>3
        <4> QED BY <4>1, <4>2, <4>3, <4>4
      <3>3. WindowInv'
        BY <2>3 DEF InitBump, InitUnchanged
      <3> QED BY <3>1, <3>2, <3>3
    <2>4. CASE InitProbe
      <3>1. CellInv'
        BY <2>4 DEF InitProbe, InitUnchanged
      <3>2. GenInv'
        BY <2>4 DEF InitProbe, InitUnchanged
      <3>3. WindowInv'
        BY <2>4 DEF InitProbe, InitUnchanged
      <3> QED BY <3>1, <3>2, <3>3
    <2>5. CASE InitRealloc
      <3>1. CellInv'
        BY <2>5 DEF InitRealloc, InitUnchanged
      <3>2. GenInv'
        BY <2>5 DEF InitRealloc, InitUnchanged
      <3>3. WindowInv'
        BY <2>5 DEF InitRealloc, InitUnchanged
      <3> QED BY <3>1, <3>2, <3>3
    <2>6. CASE InitReclaim
      <3>1. CellInv'
        BY <2>6 DEF InitReclaim, InitUnchanged, Cas
      <3>2. GenInv'
        BY <2>6 DEF InitReclaim, InitUnchanged, Cas
      <3>3. WindowInv'
        BY <2>6 DEF InitReclaim, InitUnchanged, Cas
      <3> QED BY <3>1, <3>2, <3>3
    <2>7. CASE InitTake
      <3>1. CellInv'
        BY <2>7 DEF InitTake, InitUnchanged, BorrowMut
      <3>2. GenInv'
        BY <2>7 DEF InitTake, InitUnchanged, BorrowMut
      <3>3. WindowInv'
        BY <2>7 DEF InitTake, InitUnchanged, BorrowMut
      <3> QED BY <3>1, <3>2, <3>3
    <2>8. CASE InitAllocate
      <3>1. CellInv'
        BY <2>8 DEF InitAllocate, InitUnchanged
      <3>2. GenInv'
        BY <2>8 DEF InitAllocate, InitUnchanged
      <3>3. WindowInv'
        BY <2>8 DEF InitAllocate, InitUnchanged
      <3> QED BY <3>1, <3>2, <3>3
    <2>9. CASE InitTail
      <3>1. CellInv'
        BY <2>9 DEF InitTail, InitUnchanged
      <3>2. GenInv'
        BY <2>9 DEF InitTail, InitUnchanged
      <3>3. WindowInv'
        BY <2>9 DEF InitTail, InitUnchanged
      <3> QED BY <3>1, <3>2, <3>3
    <2> QED BY <1>2, <2>1, <2>2, <2>3, <2>4, <2>5, <2>6, <2>7, <2>8, <2>9 DEF Initialize
  <1>3. CASE Reset
    <2>1. CASE ResetStop
      <3>1. CellInv'
        BY <2>1 DEF ResetStop, ResetUnchanged, Cas
      <3>2. GenInv'
        BY <2>1 DEF ResetStop, ResetUnchanged, Cas
      <3>3. WindowInv'
        BY <2>1 DEF ResetStop, ResetUnchanged, Cas
      <3> QED BY <3>1, <3>2, <3>3
    <2>2. CASE ResetArmed
      <3>1. CellInv'
        BY <2>2 DEF ResetArmed, ResetUnchanged, Cas
      <3>2. GenInv'
        BY <2>2 DEF ResetArmed, ResetUnchanged, Cas
      <3>3. WindowInv'
        BY <2>2 DEF ResetArmed, ResetUnchanged, Cas
      <3> QED BY <3>1, <3>2, <3>3
    <2>3. CASE ResetRequest
      <3>1. CellInv'
        BY <2>3 DEF ResetRequest, ResetUnchanged, Cas
      <3>2. GenInv'
        BY <2>3 DEF ResetRequest, ResetUnchanged, Cas
      <3>3. WindowInv'
        BY <2>3 DEF ResetRequest, ResetUnchanged, Cas
      <3> QED BY <3>1, <3>2, <3>3
    <2>4. CASE ResetCapturing
      <3>1. CellInv'
        BY <2>4 DEF ResetCapturing, ResetUnchanged, Cas
      <3>2. GenInv'
        BY <2>4 DEF ResetCapturing, ResetUnchanged, Cas
      <3>3. WindowInv'
        BY <2>4 DEF ResetCapturing, ResetUnchanged, Cas
      <3> QED BY <3>1, <3>2, <3>3
    <2> QED BY <1>3, <2>1, <2>2, <2>3, <2>4 DEF Reset
  <1>4. CASE Block
    <2>1. CASE BlockEdges
      <3>1. CellInv'
        BY <2>1 DEF BlockEdges, BlockUnchanged
      <3>2. GenInv'
        BY <2>1 DEF BlockEdges, BlockUnchanged
      <3>3. WindowInv'
        BY <2>1 DEF BlockEdges, BlockUnchanged
      <3> QED BY <3>1, <3>2, <3>3
    <2>2. CASE StopArmed
      <3>1. CellInv'
        BY <2>2 DEF StopArmed, BlockUnchanged, Cas
      <3>2. GenInv'
        BY <2>2 DEF StopArmed, BlockUnchanged, Cas
      <3>3. WindowInv'
        BY <2>2 DEF StopArmed, BlockUnchanged, Cas
      <3> QED BY <3>1, <3>2, <3>3
    <2>3. CASE StopCapturing
      <3>1. CellInv'
        BY <2>3 DEF StopCapturing, BlockUnchanged, FinishCapture, InReleaseGap, Cas
      <3>2. GenInv'
        BY <2>3 DEF StopCapturing, BlockUnchanged, FinishCapture, InReleaseGap, Cas
      <3>3. WindowInv'
        BY <2>3 DEF StopCapturing, BlockUnchanged, FinishCapture, InReleaseGap, Cas
      <3> QED BY <3>1, <3>2, <3>3
    <2>4. CASE StopDispatch
      <3>1. CellInv'
        BY <2>4, AppendType DEF StopDispatch, BlockUnchanged, Dispatch, Task
      <3>2. GenInv'
        <4>1. pc \in Dispatching /\ Dispatch /\ UNCHANGED tpc
          BY <2>4 DEF StopDispatch, BlockUnchanged, Dispatch
        <4>2. NoneQueued /\ ~RunningCurrent /\ tpc \notin Windows /\ phase = "ANALYZING"
          BY <4>1
        <4>3. ValuesOK /\ GenInv
          OBVIOUS
        <4> QED BY ONLY <4>1, <4>2, <4>3, DispatchGen
      <3>3. WindowInv'
        BY <2>4, AppendType DEF StopDispatch, BlockUnchanged, Dispatch, Task
      <3> QED BY <3>1, <3>2, <3>3
    <2>5. CASE ArmCheck
      <3>1. CellInv'
        BY <2>5 DEF ArmCheck, BlockUnchanged
      <3>2. GenInv'
        BY <2>5 DEF ArmCheck, BlockUnchanged
      <3>3. WindowInv'
        BY <2>5 DEF ArmCheck, BlockUnchanged
      <3> QED BY <3>1, <3>2, <3>3
    <2>6. CASE ArmTake
      <3>1. CellInv'
        BY <2>6 DEF ArmTake, BlockUnchanged, BorrowMut
      <3>2. GenInv'
        BY <2>6 DEF ArmTake, BlockUnchanged, BorrowMut
      <3>3. WindowInv'
        BY <2>6 DEF ArmTake, BlockUnchanged, BorrowMut
      <3> QED BY <3>1, <3>2, <3>3
    <2>7. CASE ArmDrop
      <3>1. CellInv'
        BY <2>7 DEF ArmDrop, BlockUnchanged
      <3>2. GenInv'
        BY <2>7 DEF ArmDrop, BlockUnchanged
      <3>3. WindowInv'
        BY <2>7 DEF ArmDrop, BlockUnchanged
      <3> QED BY <3>1, <3>2, <3>3
    <2>8. CASE ArmStore
      <3>1. CellInv'
        BY <2>8, AgedType DEF ArmStore, BlockUnchanged
      <3>2. GenInv'
        <4>1. /\ DOMAIN queue' = DOMAIN queue /\ task'.gen = task.gen
              /\ \A i \in DOMAIN queue : queue'[i].gen = queue[i].gen
          BY <2>8, AgedSame DEF ArmStore
        <4>2. pc = "armStore" /\ phase' = "ARMED" /\ UNCHANGED <<generation, tpc>>
          BY <2>8 DEF ArmStore, BlockUnchanged
        <4> QED BY <4>1, <4>2
      <3>3. WindowInv'
        BY <2>8 DEF ArmStore, BlockUnchanged
      <3> QED BY <3>1, <3>2, <3>3
    <2>9. CASE Record
      <3>1. CellInv'
        BY <2>9 DEF Record, BlockUnchanged
      <3>2. GenInv'
        BY <2>9 DEF Record, BlockUnchanged
      <3>3. WindowInv'
        BY <2>9 DEF Record, BlockUnchanged
      <3> QED BY <3>1, <3>2, <3>3
    <2>10. CASE RecordTake
      <3>1. CellInv'
        BY <2>10 DEF RecordTake, BlockUnchanged, BorrowMut
      <3>2. GenInv'
        BY <2>10 DEF RecordTake, BlockUnchanged, BorrowMut
      <3>3. WindowInv'
        BY <2>10 DEF RecordTake, BlockUnchanged, BorrowMut
      <3> QED BY <3>1, <3>2, <3>3
    <2>11. CASE RecordDrop
      <3>1. CellInv'
        BY <2>11 DEF RecordDrop, BlockUnchanged
      <3>2. GenInv'
        BY <2>11 DEF RecordDrop, BlockUnchanged
      <3>3. WindowInv'
        BY <2>11 DEF RecordDrop, BlockUnchanged
      <3> QED BY <3>1, <3>2, <3>3
    <2>12. CASE Promote
      <3>1. CellInv'
        BY <2>12 DEF Promote, BlockUnchanged, Cas
      <3>2. GenInv'
        BY <2>12 DEF Promote, BlockUnchanged, Cas
      <3>3. WindowInv'
        BY <2>12 DEF Promote, BlockUnchanged, Cas
      <3> QED BY <3>1, <3>2, <3>3
    <2>13. CASE Finish
      <3>1. CellInv'
        BY <2>13 DEF Finish, BlockUnchanged, FinishCapture, InReleaseGap, Cas
      <3>2. GenInv'
        BY <2>13 DEF Finish, BlockUnchanged, FinishCapture, InReleaseGap, Cas
      <3>3. WindowInv'
        BY <2>13 DEF Finish, BlockUnchanged, FinishCapture, InReleaseGap, Cas
      <3> QED BY <3>1, <3>2, <3>3
    <2>14. CASE FinishDispatch
      <3>1. CellInv'
        BY <2>14, AppendType DEF FinishDispatch, BlockUnchanged, Dispatch, Task
      <3>2. GenInv'
        <4>1. pc \in Dispatching /\ Dispatch /\ UNCHANGED tpc
          BY <2>14 DEF FinishDispatch, BlockUnchanged, Dispatch
        <4>2. NoneQueued /\ ~RunningCurrent /\ tpc \notin Windows /\ phase = "ANALYZING"
          BY <4>1
        <4>3. ValuesOK /\ GenInv
          OBVIOUS
        <4> QED BY ONLY <4>1, <4>2, <4>3, DispatchGen
      <3>3. WindowInv'
        BY <2>14, AppendType DEF FinishDispatch, BlockUnchanged, Dispatch, Task
      <3> QED BY <3>1, <3>2, <3>3
    <2> QED BY <1>4, <2>1, <2>2, <2>3, <2>4, <2>5, <2>6, <2>7, <2>8, <2>9, <2>10, <2>11, <2>12, <2>13, <2>14 DEF Block
  <1>5. CASE GuiStep
    <2>1. CASE FrameStart
      <3>1. CellInv'
        BY <2>1 DEF FrameStart, GuiUnchanged
      <3>2. GenInv'
        BY <2>1 DEF FrameStart, GuiUnchanged
      <3>3. WindowInv'
        BY <2>1 DEF FrameStart, GuiUnchanged
      <3> QED BY <3>1, <3>2, <3>3
    <2>2. CASE FrameLook
      <3>1. CellInv'
        BY <2>2 DEF FrameLook, GuiUnchanged
      <3>2. GenInv'
        BY <2>2 DEF FrameLook, GuiUnchanged
      <3>3. WindowInv'
        BY <2>2 DEF FrameLook, GuiUnchanged
      <3> QED BY <3>1, <3>2, <3>3
    <2>3. CASE FrameEnd
      <3>1. CellInv'
        BY <2>3 DEF FrameEnd, GuiUnchanged
      <3>2. GenInv'
        BY <2>3 DEF FrameEnd, GuiUnchanged
      <3>3. WindowInv'
        BY <2>3 DEF FrameEnd, GuiUnchanged
      <3> QED BY <3>1, <3>2, <3>3
    <2>4. CASE ClickCapture
      <3>1. CellInv'
        BY <2>4 DEF ClickCapture, GuiUnchanged
      <3>2. GenInv'
        BY <2>4 DEF ClickCapture, GuiUnchanged
      <3>3. WindowInv'
        BY <2>4 DEF ClickCapture, GuiUnchanged
      <3> QED BY <3>1, <3>2, <3>3
    <2>5. CASE ClickStop
      <3>1. CellInv'
        BY <2>5 DEF ClickStop, GuiUnchanged
      <3>2. GenInv'
        BY <2>5 DEF ClickStop, GuiUnchanged
      <3>3. WindowInv'
        BY <2>5 DEF ClickStop, GuiUnchanged
      <3> QED BY <3>1, <3>2, <3>3
    <2>6. CASE ClickCancel
      <3>1. CellInv'
        BY <2>6 DEF ClickCancel, GuiUnchanged
      <3>2. GenInv'
        BY <2>6 DEF ClickCancel, GuiUnchanged
      <3>3. WindowInv'
        BY <2>6 DEF ClickCancel, GuiUnchanged
      <3> QED BY <3>1, <3>2, <3>3
    <2>7. CASE CancelStop
      <3>1. CellInv'
        BY <2>7 DEF CancelStop, GuiUnchanged
      <3>2. GenInv'
        BY <2>7 DEF CancelStop, GuiUnchanged
      <3>3. WindowInv'
        BY <2>7 DEF CancelStop, GuiUnchanged
      <3> QED BY <3>1, <3>2, <3>3
    <2>8. CASE CancelEnd
      <3>1. CellInv'
        BY <2>8 DEF CancelEnd, GuiUnchanged
      <3>2. GenInv'
        BY <2>8 DEF CancelEnd, GuiUnchanged
      <3>3. WindowInv'
        BY <2>8 DEF CancelEnd, GuiUnchanged
      <3> QED BY <3>1, <3>2, <3>3
    <2>9. CASE CancelPhase("cancel1", "cancel2")
      <3>1. CellInv'
        BY <2>9 DEF CancelPhase, CancelOrder, Cas, GuiUnchanged
      <3>2. GenInv'
        BY <2>9 DEF CancelPhase, CancelOrder, Cas, GuiUnchanged
      <3>3. WindowInv'
        BY <2>9 DEF CancelPhase, CancelOrder, Cas, GuiUnchanged
      <3> QED BY <3>1, <3>2, <3>3
    <2>10. CASE CancelPhase("cancel2", "cancelled")
      <3>1. CellInv'
        BY <2>10 DEF CancelPhase, CancelOrder, Cas, GuiUnchanged
      <3>2. GenInv'
        BY <2>10 DEF CancelPhase, CancelOrder, Cas, GuiUnchanged
      <3>3. WindowInv'
        BY <2>10 DEF CancelPhase, CancelOrder, Cas, GuiUnchanged
      <3> QED BY <3>1, <3>2, <3>3
    <2> QED BY <1>5, <2>1, <2>2, <2>3, <2>4, <2>5, <2>6, <2>7, <2>8, <2>9, <2>10 DEF GuiStep, Cancel
  <1>6. CASE TaskStep \/ TaskPanic
    <2>1. CASE TaskTake
      <3>1. CellInv'
        BY <2>1, TailType DEF TaskTake, TaskUnchanged
      <3>2. GenInv'
        BY <2>1, TailType DEF TaskTake, TaskUnchanged
      <3>3. WindowInv'
        BY <2>1, TailType DEF TaskTake, TaskUnchanged
      <3> QED BY <3>1, <3>2, <3>3
    <2>2. CASE TaskCheck
      <3>1. CellInv'
        BY <2>2 DEF TaskCheck, TaskUnchanged, TaskExit, NoTask
      <3>2. GenInv'
        BY <2>2 DEF TaskCheck, TaskUnchanged, TaskExit, NoTask
      <3>3. WindowInv'
        BY <2>2 DEF TaskCheck, TaskUnchanged, TaskExit, NoTask
      <3> QED BY <3>1, <3>2, <3>3
    <2>3. CASE TaskBorrow
      <3>1. CellInv'
        BY <2>3 DEF TaskBorrow, TaskUnchanged, TaskExit, NoTask
      <3>2. GenInv'
        BY <2>3 DEF TaskBorrow, TaskUnchanged, TaskExit, NoTask
      <3>3. WindowInv'
        BY <2>3 DEF TaskBorrow, TaskUnchanged, TaskExit, NoTask
      <3> QED BY <3>1, <3>2, <3>3
    <2>4. CASE TaskRecheck
      <3>1. CellInv'
        BY <2>4 DEF TaskRecheck, TaskUnchanged, TaskExit, NoTask
      <3>2. GenInv'
        BY <2>4 DEF TaskRecheck, TaskUnchanged, TaskExit, NoTask
      <3>3. WindowInv'
        BY <2>4 DEF TaskRecheck, TaskUnchanged, TaskExit, NoTask
      <3> QED BY <3>1, <3>2, <3>3
    <2>5. CASE TaskAnalyze
      <3>1. CellInv'
        BY <2>5 DEF TaskAnalyze, TaskUnchanged, TaskExit, NoTask
      <3>2. GenInv'
        BY <2>5 DEF TaskAnalyze, TaskUnchanged, TaskExit, NoTask
      <3>3. WindowInv'
        BY <2>5 DEF TaskAnalyze, TaskUnchanged, TaskExit, NoTask
      <3> QED BY <3>1, <3>2, <3>3
    <2>6. CASE TaskStore
      <3>1. CellInv'
        BY <2>6 DEF TaskStore, TaskUnchanged, TaskExit, NoTask
      <3>2. GenInv'
        BY <2>6 DEF TaskStore, TaskUnchanged, TaskExit, NoTask
      <3>3. WindowInv'
        BY <2>6 DEF TaskStore, TaskUnchanged, TaskExit, NoTask
      <3> QED BY <3>1, <3>2, <3>3
    <2>7. CASE TaskRelease
      <3>1. CellInv'
        BY <2>7 DEF TaskRelease, TaskUnchanged, TaskExit, NoTask, Cas
      <3>2. GenInv'
        BY <2>7 DEF TaskRelease, TaskUnchanged, TaskExit, NoTask, Cas
      <3>3. WindowInv'
        BY <2>7 DEF TaskRelease, TaskUnchanged, TaskExit, NoTask, Cas
      <3> QED BY <3>1, <3>2, <3>3
    <2>8. CASE TaskPanic
      <3>1. CellInv'
        BY <2>8 DEF TaskPanic, TaskUnchanged, TaskExit, NoTask
      <3>2. GenInv'
        BY <2>8 DEF TaskPanic, TaskUnchanged, TaskExit, NoTask
      <3>3. WindowInv'
        BY <2>8 DEF TaskPanic, TaskUnchanged, TaskExit, NoTask
      <3> QED BY <3>1, <3>2, <3>3
    <2>9. CASE TaskRepair
      <3>1. CellInv'
        BY <2>9 DEF TaskRepair, TaskUnchanged, TaskExit, NoTask
      <3>2. GenInv'
        BY <2>9 DEF TaskRepair, TaskUnchanged, TaskExit, NoTask
      <3>3. WindowInv'
        BY <2>9 DEF TaskRepair, TaskUnchanged, TaskExit, NoTask
      <3> QED BY <3>1, <3>2, <3>3
    <2> QED BY <1>6, <2>1, <2>2, <2>3, <2>4, <2>5, <2>6, <2>7, <2>8, <2>9 DEF TaskStep
  <1>7. CASE UNCHANGED vars
    BY <1>7 DEF vars
  <1> QED BY <1>1, <1>2, <1>3, <1>4, <1>5, <1>6, <1>7 DEF Next, PluginStep

-----------------------------------------------------------------------------
(***************************************************************************)
(* What a task publishes.  A task that is after the buffers analyzes the   *)
(* latest capture, which is over and has no successor yet: only the plugin *)
(* thread arms, and it does not own the buffers meanwhile.  Once it has    *)
(* its results a successor may have been armed, but not finished.          *)
(***************************************************************************)
Arming == {"armTake", "armDrop", "armStore"}

LatestInv ==
  /\ pc \in Arming => phase = "IDLE"
  /\ tpc \in Grabbing => task.cap = "cur" /\ phase \in {"IDLE", "ANALYZING"}
  /\ tpc \in Gap => (task.cap = "cur" => phase \in {"IDLE", "ANALYZING"})
                     /\ (phase = "ANALYZING" => task.cap = "cur")
  /\ \A i \in DOMAIN queue : Current(i) => queue[i].cap = "cur"
  /\ RunningCurrent => task.cap = "cur"

\* A dispatched task is of the capture just finished.
LEMMA DispatchLatest ==
  ASSUME ValuesOK, Dispatch, \A i \in DOMAIN queue : Current(i) => queue[i].cap = "cur"
  PROVE  \A i \in DOMAIN queue' : queue'[i].gen = generation => queue'[i].cap = "cur"
  <1>1. CASE queue' = queue
    BY <1>1 DEF Current
  <1>2. CASE queue' = Append(queue, Task(generation))
    <2>1. /\ DOMAIN queue' = 1 .. Len(queue) + 1 /\ DOMAIN queue = 1 .. Len(queue)
          /\ Len(queue) \in Nat
          /\ \A i \in DOMAIN queue : queue'[i] = queue[i]
          /\ queue'[Len(queue) + 1] = Task(generation)
      BY <1>2 DEF ValuesOK
    <2>2. \A i \in DOMAIN queue' : i \in DOMAIN queue \/ i = Len(queue) + 1
      BY <2>1
    <2> QED BY <2>1, <2>2 DEF Current, Task
  <1> QED BY <1>1, <1>2 DEF Dispatch

LEMMA LatestStep == ASSUME PromptTask, TypeOK, CellInv, GenInv, WindowInv, LatestInv, [Next]_vars PROVE LatestInv'
  <1> DEFINE Goal == LatestInv'
  <1> SUFFICES Goal
    OBVIOUS
  <1> USE DEF TypeOK, ValuesOK, CellInv, GenInv, WindowInv, LatestInv, NoneQueued, Current,
          RunningCurrent, Arming, Grabbing, Gap, Windows, Running, Owning, Dispatching,
          BlockSteps,
          shared, data, hostVars, local, worker, history, Phases
  <1>1. CASE HostStep
    <2>1. ASSUME NEW c \in Configs, Activate(c)
          PROVE  Goal
      BY <2>1 DEF Activate, InitializeEntry, HostMayCall
    <2>2. ASSUME NEW on \in BOOLEAN, LoadParams(on)
          PROVE  Goal
      BY <2>2 DEF LoadParams
    <2>3. CASE LoadInitialize
      BY <2>3 DEF LoadInitialize, InitializeEntry, HostMayCall
    <2>4. CASE ToggleCapture
      BY <2>4 DEF ToggleCapture
    <2>5. CASE StartProcessing
      BY <2>5 DEF StartProcessing, HostMayCall
    <2>6. CASE BlockStart
      BY <2>6 DEF BlockStart, BlockUnchanged, HostMayCall
    <2> QED BY <1>1, <2>1, <2>2, <2>3, <2>4, <2>5, <2>6 DEF HostStep
  <1>2. CASE Initialize
    <2>1. CASE InitWaitOver
      BY <2>1 DEF InitWaitOver, InitUnchanged
    <2>2. CASE InitTimeout
      BY <2>2 DEF InitTimeout, InitUnchanged
    <2>3. CASE InitBump
      BY <2>3, QueueType DEF InitBump, InitUnchanged
    <2>4. CASE InitProbe
      BY <2>4 DEF InitProbe, InitUnchanged
    <2>5. CASE InitRealloc
      BY <2>5 DEF InitRealloc, InitUnchanged
    <2>6. CASE InitReclaim
      BY <2>6 DEF InitReclaim, InitUnchanged, Cas
    <2>7. CASE InitTake
      BY <2>7 DEF InitTake, InitUnchanged, BorrowMut
    <2>8. CASE InitAllocate
      BY <2>8 DEF InitAllocate, InitUnchanged
    <2>9. CASE InitTail
      BY <2>9 DEF InitTail, InitUnchanged
    <2> QED BY <1>2, <2>1, <2>2, <2>3, <2>4, <2>5, <2>6, <2>7, <2>8, <2>9 DEF Initialize
  <1>3. CASE Reset
    <2>1. CASE ResetStop
      BY <2>1 DEF ResetStop, ResetUnchanged, Cas
    <2>2. CASE ResetArmed
      BY <2>2 DEF ResetArmed, ResetUnchanged, Cas
    <2>3. CASE ResetRequest
      BY <2>3 DEF ResetRequest, ResetUnchanged, Cas
    <2>4. CASE ResetCapturing
      BY <2>4 DEF ResetCapturing, ResetUnchanged, Cas
    <2> QED BY <1>3, <2>1, <2>2, <2>3, <2>4 DEF Reset
  <1>4. CASE Block
    <2>1. CASE BlockEdges
      BY <2>1 DEF BlockEdges, BlockUnchanged
    <2>2. CASE StopArmed
      BY <2>2 DEF StopArmed, BlockUnchanged, Cas
    <2>3. CASE StopCapturing
      BY <2>3 DEF StopCapturing, BlockUnchanged, FinishCapture, InReleaseGap, Cas
    <2>4. CASE StopDispatch
      <3>1. Dispatch /\ UNCHANGED <<phase, generation, tpc, task>> /\ pc' = "armCheck"
        BY <2>4 DEF StopDispatch, Dispatch, BlockUnchanged
      <3>2. \A i \in DOMAIN queue' : queue'[i].gen = generation => queue'[i].cap = "cur"
        BY <3>1, DispatchLatest
      <3> QED BY <3>1, <3>2
    <2>5. CASE ArmCheck
      BY <2>5 DEF ArmCheck, BlockUnchanged
    <2>6. CASE ArmTake
      BY <2>6 DEF ArmTake, BlockUnchanged, BorrowMut
    <2>7. CASE ArmDrop
      BY <2>7 DEF ArmDrop, BlockUnchanged
    <2>8. CASE ArmStore
      <3>1. pc = "armStore" /\ phase = "IDLE" /\ phase' = "ARMED" /\ pc' = "record"
            /\ UNCHANGED <<generation, tpc>> /\ tpc \notin Grabbing
        BY <2>8 DEF ArmStore, BlockUnchanged
      <3>2. task \in TaskType /\ task' = Aged(task)
        BY <2>8 DEF ArmStore
      <3>3. task'.cap = "old"
        BY <3>2 DEF Aged, TaskType
      <3>4. /\ DOMAIN queue' = DOMAIN queue /\ task'.gen = task.gen
            /\ \A i \in DOMAIN queue : queue'[i].gen = queue[i].gen
        BY <2>8, AgedSame DEF ArmStore
      <3> QED BY <3>1, <3>3, <3>4
    <2>9. CASE Record
      BY <2>9 DEF Record, BlockUnchanged
    <2>10. CASE RecordTake
      BY <2>10 DEF RecordTake, BlockUnchanged, BorrowMut
    <2>11. CASE RecordDrop
      BY <2>11 DEF RecordDrop, BlockUnchanged
    <2>12. CASE Promote
      BY <2>12 DEF Promote, BlockUnchanged, Cas
    <2>13. CASE Finish
      BY <2>13 DEF Finish, BlockUnchanged, FinishCapture, InReleaseGap, Cas
    <2>14. CASE FinishDispatch
      <3>1. Dispatch /\ UNCHANGED <<phase, generation, tpc, task>> /\ pc' = "idle"
        BY <2>14 DEF FinishDispatch, Dispatch, BlockUnchanged
      <3>2. \A i \in DOMAIN queue' : queue'[i].gen = generation => queue'[i].cap = "cur"
        BY <3>1, DispatchLatest
      <3> QED BY <3>1, <3>2
    <2> QED BY <1>4, <2>1, <2>2, <2>3, <2>4, <2>5, <2>6, <2>7, <2>8, <2>9, <2>10, <2>11, <2>12, <2>13, <2>14 DEF Block
  <1>5. CASE GuiStep
    <2>1. CASE FrameStart
      BY <2>1 DEF FrameStart, GuiUnchanged
    <2>2. CASE FrameLook
      BY <2>2 DEF FrameLook, GuiUnchanged
    <2>3. CASE FrameEnd
      BY <2>3 DEF FrameEnd, GuiUnchanged
    <2>4. CASE ClickCapture
      BY <2>4 DEF ClickCapture, GuiUnchanged
    <2>5. CASE ClickStop
      BY <2>5 DEF ClickStop, GuiUnchanged
    <2>6. CASE ClickCancel
      BY <2>6 DEF ClickCancel, GuiUnchanged
    <2>7. CASE CancelStop
      BY <2>7 DEF CancelStop, GuiUnchanged
    <2>8. CASE CancelEnd
      BY <2>8 DEF CancelEnd, GuiUnchanged
    <2>9. CASE CancelPhase("cancel1", "cancel2")
      BY <2>9 DEF CancelPhase, CancelOrder, Cas, GuiUnchanged
    <2>10. CASE CancelPhase("cancel2", "cancelled")
      BY <2>10 DEF CancelPhase, CancelOrder, Cas, GuiUnchanged
    <2> QED BY <1>5, <2>1, <2>2, <2>3, <2>4, <2>5, <2>6, <2>7, <2>8, <2>9, <2>10 DEF GuiStep, Cancel
  <1>6. CASE TaskStep \/ TaskPanic
    <2>1. CASE TaskTake
      BY <2>1, TailType DEF TaskTake, TaskUnchanged
    <2>2. CASE TaskCheck
      BY <2>2 DEF TaskCheck, TaskUnchanged, TaskExit, NoTask
    <2>3. CASE TaskBorrow
      BY <2>3 DEF TaskBorrow, TaskUnchanged, TaskExit, NoTask
    <2>4. CASE TaskRecheck
      BY <2>4 DEF TaskRecheck, TaskUnchanged, TaskExit, NoTask
    <2>5. CASE TaskAnalyze
      BY <2>5 DEF TaskAnalyze, TaskUnchanged, TaskExit, NoTask
    <2>6. CASE TaskStore
      BY <2>6 DEF TaskStore, TaskUnchanged, TaskExit, NoTask
    <2>7. CASE TaskRelease
      BY <2>7 DEF TaskRelease, TaskUnchanged, TaskExit, NoTask, Cas
    <2>8. CASE TaskPanic
      BY <2>8 DEF TaskPanic, TaskUnchanged, TaskExit, NoTask
    <2>9. CASE TaskRepair
      BY <2>9 DEF TaskRepair, TaskUnchanged, TaskExit, NoTask
    <2> QED BY <1>6, <2>1, <2>2, <2>3, <2>4, <2>5, <2>6, <2>7, <2>8, <2>9 DEF TaskStep
  <1>7. CASE UNCHANGED vars
    BY <1>7 DEF vars
  <1> QED BY <1>1, <1>2, <1>3, <1>4, <1>5, <1>6, <1>7 DEF Next, PluginStep

(***************************************************************************)
(* The machine implements CaptureCycle.  Most steps leave the tasks alone, *)
(* and move the phase, if at all, along one edge of the cycle.             *)
(***************************************************************************)
CycleStep == [Cycle!Next]_(Cycle!vars)

TasksKept == /\ UNCHANGED <<generation, queue, tpc, task, shown>>
             /\ pc \in Dispatching <=> pc' \in Dispatching

AlongEdge ==
  \/ phase' = phase
  \/ phase \in {"ARMED", "CAPTURING"} /\ phase' = "IDLE"
  \/ phase = "ARMED" /\ phase' = "CAPTURING"
  \/ phase = "ANALYZING" /\ phase' = "IDLE"

LEMMA PlainStep == ASSUME TasksKept, AlongEdge PROVE CycleStep
  <1>1. AnalysisDue' <=> AnalysisDue
    BY DEF TasksKept, AnalysisDue
  <1>2. Due' = Due
    BY <1>1 DEF TasksKept, Due
  <1> QED BY <1>2 DEF TasksKept, AlongEdge, CycleStep, Cycle!Next, Cycle!vars, Cycle!Abandon,
              Cycle!Start, Cycle!Release

\* A step that only changes which tasks there are, and adds none that was not due.
LEMMA TasksStep ==
  ASSUME UNCHANGED <<phase, shown>>, tpc # "store", (tpc # "store")', AnalysisDue' => AnalysisDue
  PROVE  CycleStep
  <1>1. CASE AnalysisDue /\ ~AnalysisDue'
    BY <1>1 DEF CycleStep, Due, Cycle!Next, Cycle!vars, Cycle!GiveUp
  <1>2. CASE AnalysisDue' <=> AnalysisDue
    <2>1. Due' = Due
      BY <1>2 DEF Due
    <2> QED BY <2>1 DEF CycleStep, Cycle!vars
  <1> QED BY <1>1, <1>2

\* The end of a capture: no task of an earlier one is left to publish.
LEMMA FinishStep ==
  ASSUME PromptTask, IInv, NEW d, NEW o, d \in Dispatching, pc \in Owning \ Dispatching,
         FinishCapture(d, o), phase = "CAPTURING", UNCHANGED <<shown, tpc>>
  PROVE  CycleStep
  <1>1. phase' = "ANALYZING" /\ pc' \in Dispatching
    BY DEF FinishCapture, Cas
  <1>2. tpc # "store" /\ tpc # "analyze"
    BY DEF FinishCapture, InReleaseGap, IInv, WindowInv
  <1>3. ~AnalysisDue
    BY <1>2 DEF AnalysisDue, IInv, GenInv, NoneQueued, Current, RunningCurrent, Running, Windows,
          Grabbing
  <1>4. Due = "none" /\ Due' = "analysis"
    BY <1>1, <1>2, <1>3 DEF Due, AnalysisDue
  <1> QED BY <1>1, <1>4 DEF CycleStep, Cycle!Next, Cycle!Finish

LEMMA Simulation == ASSUME PromptTask, IInv, LatestInv, [Next]_vars PROVE CycleStep
  <1> USE DEF shared, data, hostVars, local, worker, history
  <1>1. CASE HostStep
    <2>1. ASSUME NEW c \in Configs, Activate(c)
          PROVE  CycleStep
      <3>1. TasksKept /\ AlongEdge
        BY <2>1 DEF TasksKept, AlongEdge, Dispatching, Activate, InitializeEntry, HostMayCall
      <3> QED BY <3>1, PlainStep
    <2>2. ASSUME NEW on \in BOOLEAN, LoadParams(on)
          PROVE  CycleStep
      <3>1. TasksKept /\ AlongEdge
        BY <2>2 DEF TasksKept, AlongEdge, Dispatching, LoadParams
      <3> QED BY <3>1, PlainStep
    <2>3. CASE LoadInitialize
      <3>1. TasksKept /\ AlongEdge
        BY <2>3 DEF TasksKept, AlongEdge, Dispatching, LoadInitialize, InitializeEntry, HostMayCall
      <3> QED BY <3>1, PlainStep
    <2>4. CASE ToggleCapture
      <3>1. TasksKept /\ AlongEdge
        BY <2>4 DEF TasksKept, AlongEdge, Dispatching, ToggleCapture
      <3> QED BY <3>1, PlainStep
    <2>5. CASE StartProcessing
      <3>1. TasksKept /\ AlongEdge
        BY <2>5 DEF TasksKept, AlongEdge, Dispatching, StartProcessing, HostMayCall
      <3> QED BY <3>1, PlainStep
    <2>6. CASE BlockStart
      <3>1. TasksKept /\ AlongEdge
        BY <2>6 DEF TasksKept, AlongEdge, Dispatching, BlockStart, BlockUnchanged, HostMayCall
      <3> QED BY <3>1, PlainStep
    <2> QED BY <1>1, <2>1, <2>2, <2>3, <2>4, <2>5, <2>6 DEF HostStep
  <1>2. CASE Initialize
    <2>1. CASE InitWaitOver
      <3>1. TasksKept /\ AlongEdge
        BY <2>1 DEF TasksKept, AlongEdge, Dispatching, InitWaitOver, InitUnchanged
      <3> QED BY <3>1, PlainStep
    <2>2. CASE InitTimeout
      <3>1. TasksKept /\ AlongEdge
        BY <2>2 DEF TasksKept, AlongEdge, Dispatching, InitTimeout, InitUnchanged
      <3> QED BY <3>1, PlainStep
    <2>3. CASE InitProbe
      <3>1. TasksKept /\ AlongEdge
        BY <2>3 DEF TasksKept, AlongEdge, Dispatching, InitProbe, InitUnchanged
      <3> QED BY <3>1, PlainStep
    <2>4. CASE InitRealloc
      <3>1. TasksKept /\ AlongEdge
        BY <2>4 DEF TasksKept, AlongEdge, Dispatching, InitRealloc, InitUnchanged
      <3> QED BY <3>1, PlainStep
    <2>5. CASE InitReclaim
      <3>1. TasksKept /\ AlongEdge
        BY <2>5 DEF TasksKept, AlongEdge, Dispatching, InitReclaim, InitUnchanged, Cas
      <3> QED BY <3>1, PlainStep
    <2>6. CASE InitTake
      <3>1. TasksKept /\ AlongEdge
        BY <2>6 DEF TasksKept, AlongEdge, Dispatching, InitTake, InitUnchanged, BorrowMut
      <3> QED BY <3>1, PlainStep
    <2>7. CASE InitAllocate
      <3>1. TasksKept /\ AlongEdge
        BY <2>7 DEF TasksKept, AlongEdge, Dispatching, InitAllocate, InitUnchanged
      <3> QED BY <3>1, PlainStep
    <2>8. CASE InitTail
      <3>1. TasksKept /\ AlongEdge
        BY <2>8 DEF TasksKept, AlongEdge, Dispatching, InitTail, InitUnchanged
      <3> QED BY <3>1, PlainStep
    <2>9. CASE InitBump
      <3>1. UNCHANGED <<phase, shown>> /\ pc' \notin Dispatching /\ generation' = generation + 1
            /\ UNCHANGED <<queue, tpc, task>>
        BY <2>9 DEF InitBump, InitUnchanged, Dispatching, history, worker
      <3>2. /\ task.gen # generation + 1
            /\ \A i \in DOMAIN queue : queue[i].gen # generation + 1
        BY QueueType DEF IInv, TypeOK, ValuesOK, GenInv, TaskType
      <3>3. AnalysisDue' => AnalysisDue
        BY <3>1, <3>2 DEF AnalysisDue
      <3>4. CASE tpc = "store"
        BY <3>1, <3>4 DEF CycleStep, Cycle!vars, Due
      <3>5. CASE tpc # "store"
        BY <3>1, <3>3, <3>5, TasksStep
      <3> QED BY <3>4, <3>5
    <2> QED BY <1>2, <2>1, <2>2, <2>3, <2>4, <2>5, <2>6, <2>7, <2>8, <2>9 DEF Initialize
  <1>3. CASE Reset
    <2>1. CASE ResetStop
      <3>1. TasksKept /\ AlongEdge
        BY <2>1 DEF TasksKept, AlongEdge, Dispatching, ResetStop, ResetUnchanged, Cas
      <3> QED BY <3>1, PlainStep
    <2>2. CASE ResetArmed
      <3>1. TasksKept /\ AlongEdge
        BY <2>2 DEF TasksKept, AlongEdge, Dispatching, ResetArmed, ResetUnchanged, Cas
      <3> QED BY <3>1, PlainStep
    <2>3. CASE ResetRequest
      <3>1. TasksKept /\ AlongEdge
        BY <2>3 DEF TasksKept, AlongEdge, Dispatching, ResetRequest, ResetUnchanged, Cas
      <3> QED BY <3>1, PlainStep
    <2>4. CASE ResetCapturing
      <3>1. TasksKept /\ AlongEdge
        BY <2>4 DEF TasksKept, AlongEdge, Dispatching, ResetCapturing, ResetUnchanged, Cas
      <3> QED BY <3>1, PlainStep
    <2> QED BY <1>3, <2>1, <2>2, <2>3, <2>4 DEF Reset
  <1>4. CASE Block
    <2>1. CASE BlockEdges
      <3>1. TasksKept /\ AlongEdge
        BY <2>1 DEF TasksKept, AlongEdge, Dispatching, BlockEdges, BlockUnchanged
      <3> QED BY <3>1, PlainStep
    <2>2. CASE StopArmed
      <3>1. TasksKept /\ AlongEdge
        BY <2>2 DEF TasksKept, AlongEdge, Dispatching, StopArmed, BlockUnchanged, Cas
      <3> QED BY <3>1, PlainStep
    <2>3. CASE ArmCheck
      <3>1. TasksKept /\ AlongEdge
        BY <2>3 DEF TasksKept, AlongEdge, Dispatching, ArmCheck, BlockUnchanged
      <3> QED BY <3>1, PlainStep
    <2>4. CASE ArmTake
      <3>1. TasksKept /\ AlongEdge
        BY <2>4 DEF TasksKept, AlongEdge, Dispatching, ArmTake, BlockUnchanged, BorrowMut
      <3> QED BY <3>1, PlainStep
    <2>5. CASE ArmDrop
      <3>1. TasksKept /\ AlongEdge
        BY <2>5 DEF TasksKept, AlongEdge, Dispatching, ArmDrop, BlockUnchanged
      <3> QED BY <3>1, PlainStep
    <2>6. CASE Record
      <3>1. TasksKept /\ AlongEdge
        BY <2>6 DEF TasksKept, AlongEdge, Dispatching, Record, BlockUnchanged
      <3> QED BY <3>1, PlainStep
    <2>7. CASE RecordTake
      <3>1. TasksKept /\ AlongEdge
        BY <2>7 DEF TasksKept, AlongEdge, Dispatching, RecordTake, BlockUnchanged, BorrowMut
      <3> QED BY <3>1, PlainStep
    <2>8. CASE RecordDrop
      <3>1. TasksKept /\ AlongEdge
        BY <2>8 DEF TasksKept, AlongEdge, Dispatching, RecordDrop, BlockUnchanged
      <3> QED BY <3>1, PlainStep
    <2>9. CASE Promote
      <3>1. TasksKept /\ AlongEdge
        BY <2>9 DEF TasksKept, AlongEdge, Dispatching, Promote, BlockUnchanged, Cas
      <3> QED BY <3>1, PlainStep
    <2>10. CASE StopCapturing
      <3>1. CASE phase = "CAPTURING"
        <4>1. UNCHANGED <<shown, tpc>> /\ pc \in Owning \ Dispatching
          BY <2>10 DEF StopCapturing, BlockUnchanged, Owning, BlockSteps, Dispatching
        <4> QED BY <2>10, <3>1, <4>1, FinishStep DEF StopCapturing, Dispatching
      <3>2. CASE phase # "CAPTURING"
        <4>1. TasksKept /\ AlongEdge
          BY <2>10, <3>2 DEF StopCapturing, FinishCapture, Cas, BlockUnchanged, TasksKept, AlongEdge, Dispatching, worker
        <4> QED BY <4>1, PlainStep
      <3> QED BY <3>1, <3>2
    <2>11. CASE StopDispatch
      <3>1. UNCHANGED <<phase, shown, tpc>> /\ AnalysisDue
        BY <2>11 DEF StopDispatch, Dispatch, BlockUnchanged, AnalysisDue, Dispatching, shared
      <3>2. tpc # "store"
        BY <2>11 DEF StopDispatch, IInv, WindowInv, Dispatching, Windows, Gap
      <3> QED BY <3>1, <3>2, TasksStep
    <2>12. CASE ArmStore
      <3>1. phase = "IDLE" /\ phase' = "ARMED" /\ pc \in Owning
        BY <2>12 DEF ArmStore, IInv, LatestInv, Arming, Owning, BlockSteps
      <3>2. /\ DOMAIN queue' = DOMAIN queue /\ task'.gen = task.gen
            /\ \A i \in DOMAIN queue : queue'[i].gen = queue[i].gen
        BY <2>12, AgedSame DEF ArmStore, IInv, TypeOK
      <3>3. ~AnalysisDue
        BY <3>1, <2>12 DEF ArmStore, AnalysisDue, IInv, GenInv, WindowInv, NoneQueued, Current,
              RunningCurrent, Grabbing, Running, Dispatching
      <3>4. ~AnalysisDue' /\ UNCHANGED tpc
        <4>1. pc' \notin Dispatching /\ UNCHANGED <<generation, tpc>>
          BY <2>12 DEF ArmStore, BlockUnchanged, Dispatching
        <4> QED BY <3>2, <3>3, <4>1 DEF AnalysisDue
      <3>5. task' = Aged(task) /\ task \in TaskType /\ shown \in {"latest", "earlier"}
        BY <2>12 DEF ArmStore, IInv, TypeOK, ValuesOK
      <3>6. task'.cap = "old" /\ shown' = "earlier"
        BY <2>12, <3>5 DEF ArmStore, Aged, TaskType
      <3>7. Due # "analysis" /\ Due' = IF Due = "snapshot" THEN "overtaken" ELSE Due
        BY <3>3, <3>4, <3>6 DEF Due
      <3> QED BY <3>1, <3>6, <3>7 DEF CycleStep, Cycle!Next, Cycle!Arm
    <2>13. CASE Finish
      <3>1. CASE phase = "CAPTURING"
        <4>1. UNCHANGED <<shown, tpc>> /\ pc \in Owning \ Dispatching
          BY <2>13 DEF Finish, BlockUnchanged, Owning, BlockSteps, Dispatching
        <4> QED BY <2>13, <3>1, <4>1, FinishStep DEF Finish, Dispatching
      <3>2. CASE phase # "CAPTURING"
        <4>1. TasksKept /\ AlongEdge
          BY <2>13, <3>2 DEF Finish, FinishCapture, Cas, BlockUnchanged, TasksKept, AlongEdge, Dispatching, worker
        <4> QED BY <4>1, PlainStep
      <3> QED BY <3>1, <3>2
    <2>14. CASE FinishDispatch
      <3>1. UNCHANGED <<phase, shown, tpc>> /\ AnalysisDue
        BY <2>14 DEF FinishDispatch, Dispatch, BlockUnchanged, AnalysisDue, Dispatching, shared
      <3>2. tpc # "store"
        BY <2>14 DEF FinishDispatch, IInv, WindowInv, Dispatching, Windows, Gap
      <3> QED BY <3>1, <3>2, TasksStep
    <2> QED BY <1>4, <2>1, <2>2, <2>3, <2>4, <2>5, <2>6, <2>7, <2>8, <2>9, <2>10, <2>11, <2>12, <2>13, <2>14 DEF Block
  <1>5. CASE GuiStep
    <2>1. CASE FrameStart
      <3>1. TasksKept /\ AlongEdge
        BY <2>1 DEF TasksKept, AlongEdge, Dispatching, FrameStart, GuiUnchanged
      <3> QED BY <3>1, PlainStep
    <2>2. CASE FrameLook
      <3>1. TasksKept /\ AlongEdge
        BY <2>2 DEF TasksKept, AlongEdge, Dispatching, FrameLook, GuiUnchanged
      <3> QED BY <3>1, PlainStep
    <2>3. CASE FrameEnd
      <3>1. TasksKept /\ AlongEdge
        BY <2>3 DEF TasksKept, AlongEdge, Dispatching, FrameEnd, GuiUnchanged
      <3> QED BY <3>1, PlainStep
    <2>4. CASE ClickCapture
      <3>1. TasksKept /\ AlongEdge
        BY <2>4 DEF TasksKept, AlongEdge, Dispatching, ClickCapture, GuiUnchanged
      <3> QED BY <3>1, PlainStep
    <2>5. CASE ClickStop
      <3>1. TasksKept /\ AlongEdge
        BY <2>5 DEF TasksKept, AlongEdge, Dispatching, ClickStop, GuiUnchanged
      <3> QED BY <3>1, PlainStep
    <2>6. CASE ClickCancel
      <3>1. TasksKept /\ AlongEdge
        BY <2>6 DEF TasksKept, AlongEdge, Dispatching, ClickCancel, GuiUnchanged
      <3> QED BY <3>1, PlainStep
    <2>7. CASE CancelStop
      <3>1. TasksKept /\ AlongEdge
        BY <2>7 DEF TasksKept, AlongEdge, Dispatching, CancelStop, GuiUnchanged
      <3> QED BY <3>1, PlainStep
    <2>8. CASE CancelEnd
      <3>1. TasksKept /\ AlongEdge
        BY <2>8 DEF TasksKept, AlongEdge, Dispatching, CancelEnd, GuiUnchanged
      <3> QED BY <3>1, PlainStep
    <2>9. CASE CancelPhase("cancel1", "cancel2")
      <3>1. TasksKept /\ AlongEdge
        BY <2>9 DEF TasksKept, AlongEdge, Dispatching, CancelPhase, CancelOrder, Cas, GuiUnchanged
      <3> QED BY <3>1, PlainStep
    <2>10. CASE CancelPhase("cancel2", "cancelled")
      <3>1. TasksKept /\ AlongEdge
        BY <2>10 DEF TasksKept, AlongEdge, Dispatching, CancelPhase, CancelOrder, Cas, GuiUnchanged
      <3> QED BY <3>1, PlainStep
    <2> QED BY <1>5, <2>1, <2>2, <2>3, <2>4, <2>5, <2>6, <2>7, <2>8, <2>9, <2>10 DEF GuiStep, Cancel
  <1>6. CASE TaskStep \/ TaskPanic
    <2>1. CASE TaskTake
      <3>1. UNCHANGED <<phase, shown, pc, generation>>
        BY <2>1 DEF TaskTake, TaskUnchanged
      <3>2. \A i \in DOMAIN queue' : i + 1 \in DOMAIN queue /\ queue'[i] = queue[i + 1]
        BY <2>1, TailType DEF TaskTake, IInv, TypeOK, ValuesOK
      <3>3. 1 \in DOMAIN queue /\ task' = queue[1]
        BY <2>1, TailType DEF TaskTake, IInv, TypeOK, ValuesOK
      <3>4. AnalysisDue' => AnalysisDue
        BY <3>1, <3>2, <3>3, <2>1 DEF TaskTake, AnalysisDue
      <3>5. tpc # "store" /\ tpc' # "store"
        BY <2>1 DEF TaskTake
      <3> QED BY <3>1, <3>4, <3>5, TasksStep
    <2>2. CASE TaskCheck
      <3>1. UNCHANGED <<phase, shown>> /\ (AnalysisDue' => AnalysisDue)
        BY <2>2 DEF TaskCheck, TaskUnchanged, TaskExit, AnalysisDue
      <3>2. tpc # "store" /\ tpc' # "store"
        BY <2>2 DEF TaskCheck, TaskExit
      <3> QED BY <3>1, <3>2, TasksStep
    <2>3. CASE TaskBorrow
      <3>1. UNCHANGED <<phase, shown>> /\ (AnalysisDue' => AnalysisDue)
        BY <2>3 DEF TaskBorrow, TaskUnchanged, TaskExit, AnalysisDue
      <3>2. tpc # "store" /\ tpc' # "store"
        BY <2>3 DEF TaskBorrow, TaskExit
      <3> QED BY <3>1, <3>2, TasksStep
    <2>4. CASE TaskRecheck
      <3>1. UNCHANGED <<phase, shown>> /\ (AnalysisDue' => AnalysisDue)
        BY <2>4 DEF TaskRecheck, TaskUnchanged, TaskExit, AnalysisDue
      <3>2. tpc # "store" /\ tpc' # "store"
        BY <2>4 DEF TaskRecheck, TaskExit
      <3> QED BY <3>1, <3>2, TasksStep
    <2>5. CASE TaskAnalyze
      <3>1. phase = "ANALYZING" /\ task.cap = "cur"
        BY <2>5 DEF TaskAnalyze, IInv, WindowInv, LatestInv, Grabbing
      <3>2. UNCHANGED <<phase, shown, task>> /\ tpc = "analyze" /\ tpc' = "store"
        BY <2>5 DEF TaskAnalyze
      <3>3. Due = "analysis" /\ Due' = "snapshot"
        BY <3>1, <3>2 DEF Due, AnalysisDue
      <3> QED BY <3>1, <3>2, <3>3 DEF CycleStep, Cycle!Next, Cycle!Complete
    <2>6. CASE TaskStore
      <3>1. NoneQueued /\ pc \notin Dispatching
        BY <2>6 DEF TaskStore, IInv, GenInv, WindowInv, Windows, Gap
      <3>2. tpc = "store" /\ tpc' = "release" /\ UNCHANGED <<phase, generation, queue, pc, task>>
        BY <2>6 DEF TaskStore, TaskUnchanged
      <3>3. ~AnalysisDue'
        BY <3>1, <3>2 DEF AnalysisDue, NoneQueued, Current
      <3>4. Due \in {"snapshot", "overtaken"} /\ Due' = "none"
        BY <3>2, <3>3 DEF Due
      <3>5. shown' = IF Due = "snapshot" THEN "latest" ELSE "earlier"
        BY <2>6, <3>2 DEF TaskStore, Due
      <3> QED BY <3>2, <3>4, <3>5 DEF CycleStep, Cycle!Next, Cycle!Publish
    <2>7. CASE TaskRelease
      <3>1. UNCHANGED <<generation, queue, shown, pc>> /\ tpc = "release" /\ tpc' = "none"
        BY <2>7 DEF TaskRelease, TaskUnchanged, TaskExit
      <3>2. Due' = Due
        <4>1. AnalysisDue' <=> AnalysisDue
          BY <3>1 DEF AnalysisDue
        <4> QED BY <3>1, <4>1 DEF Due
      <3>3. phase' = phase \/ (phase = "ANALYZING" /\ phase' = "IDLE")
        BY <2>7 DEF TaskRelease, Cas
      <3> QED BY <3>1, <3>2, <3>3 DEF CycleStep, Cycle!Next, Cycle!vars, Cycle!Release
    <2>8. CASE TaskPanic
      <3>1. UNCHANGED <<phase, shown>> /\ (AnalysisDue' => AnalysisDue)
        BY <2>8 DEF TaskPanic, TaskUnchanged, TaskExit, AnalysisDue
      <3>2. tpc # "store" /\ tpc' # "store"
        BY <2>8 DEF TaskPanic, TaskExit
      <3> QED BY <3>1, <3>2, TasksStep
    <2>9. CASE TaskRepair
      <3>1. UNCHANGED <<phase, shown>> /\ (AnalysisDue' => AnalysisDue)
        BY <2>9 DEF TaskRepair, TaskUnchanged, TaskExit, AnalysisDue
      <3>2. tpc # "store" /\ tpc' # "store"
        BY <2>9 DEF TaskRepair, TaskExit
      <3> QED BY <3>1, <3>2, TasksStep
    <2> QED BY <1>6, <2>1, <2>2, <2>3, <2>4, <2>5, <2>6, <2>7, <2>8, <2>9 DEF TaskStep
  <1>7. CASE UNCHANGED vars
    <2>1. TasksKept /\ AlongEdge
      BY <1>7 DEF vars, TasksKept, AlongEdge
    <2> QED BY <2>1, PlainStep
  <1> QED BY <1>1, <1>2, <1>3, <1>4, <1>5, <1>6, <1>7 DEF Next, PluginStep

(***************************************************************************)
(* A finished state load arms nothing: initialize() has seeded             *)
(* prev_capture from the loaded parameter, and blocks keep the two alike.  *)
(***************************************************************************)
LoadInv ==
  /\ playing \/ pc \in ResetSteps \cup BlockSteps => config # NoConfig
  /\ loadedOn => capture_on
  /\ loadedOn /\ ~loading /\ config # NoConfig /\ pc \notin InitSteps \cup {"panicked"}
       => prev_capture

LEMMA LoadStep ==
  ASSUME TypeInv, LoadInv, [Next]_vars
  PROVE  LoadInv'
  <1> DEFINE Goal == LoadInv'
  <1> SUFFICES Goal
    OBVIOUS
  <1> USE DEF TypeInv, Configured, TypeOK, FlagsOK, LoadInv, InitSteps, ResetSteps,
          BlockSteps, shared, data, hostVars, local, worker, history
  <1>1. CASE HostStep
    <2>1. ASSUME NEW c \in Configs, Activate(c)
          PROVE  Goal
      BY <2>1, CapturePhaseAssumption DEF Activate, InitializeEntry, HostMayCall
    <2>2. ASSUME NEW on \in BOOLEAN, LoadParams(on)
          PROVE  Goal
      BY <2>2 DEF LoadParams
    <2>3. CASE LoadInitialize
      BY <2>3 DEF LoadInitialize, InitializeEntry, HostMayCall
    <2>4. CASE ToggleCapture
      BY <2>4 DEF ToggleCapture
    <2>5. CASE StartProcessing
      BY <2>5 DEF StartProcessing, HostMayCall
    <2>6. CASE BlockStart
      BY <2>6 DEF BlockStart, BlockUnchanged, HostMayCall
    <2> QED BY <1>1, <2>1, <2>2, <2>3, <2>4, <2>5, <2>6 DEF HostStep
  <1>2. CASE Initialize
    <2>1. CASE InitWaitOver
      BY <2>1 DEF InitWaitOver, InitUnchanged
    <2>2. CASE InitTimeout
      BY <2>2 DEF InitTimeout, InitUnchanged
    <2>3. CASE InitBump
      BY <2>3 DEF InitBump, InitUnchanged
    <2>4. CASE InitProbe
      BY <2>4 DEF InitProbe, InitUnchanged
    <2>5. CASE InitRealloc
      BY <2>5 DEF InitRealloc, InitUnchanged
    <2>6. CASE InitReclaim
      BY <2>6 DEF InitReclaim, InitUnchanged, Cas
    <2>7. CASE InitTake
      BY <2>7 DEF InitTake, InitUnchanged, BorrowMut
    <2>8. CASE InitAllocate
      BY <2>8 DEF InitAllocate, InitUnchanged
    <2>9. CASE InitTail
      BY <2>9, CapturePhaseAssumption DEF InitTail, InitUnchanged
    <2> QED BY <1>2, <2>1, <2>2, <2>3, <2>4, <2>5, <2>6, <2>7, <2>8, <2>9 DEF Initialize
  <1>3. CASE Reset
    <2>1. CASE ResetStop
      BY <2>1 DEF ResetStop, ResetUnchanged, Cas
    <2>2. CASE ResetArmed
      BY <2>2 DEF ResetArmed, ResetUnchanged, Cas
    <2>3. CASE ResetRequest
      BY <2>3 DEF ResetRequest, ResetUnchanged, Cas
    <2>4. CASE ResetCapturing
      BY <2>4 DEF ResetCapturing, ResetUnchanged, Cas
    <2> QED BY <1>3, <2>1, <2>2, <2>3, <2>4 DEF Reset
  <1>4. CASE Block
    <2>1. CASE BlockEdges
      BY <2>1 DEF BlockEdges, BlockUnchanged
    <2>2. CASE StopArmed
      BY <2>2 DEF StopArmed, BlockUnchanged, Cas
    <2>3. CASE StopCapturing
      BY <2>3 DEF StopCapturing, BlockUnchanged, FinishCapture, InReleaseGap, Cas
    <2>4. CASE StopDispatch
      BY <2>4 DEF StopDispatch, BlockUnchanged, Dispatch, Task
    <2>5. CASE ArmCheck
      BY <2>5 DEF ArmCheck, BlockUnchanged
    <2>6. CASE ArmTake
      BY <2>6 DEF ArmTake, BlockUnchanged, BorrowMut
    <2>7. CASE ArmDrop
      BY <2>7 DEF ArmDrop, BlockUnchanged
    <2>8. CASE ArmStore
      BY <2>8 DEF ArmStore, BlockUnchanged
    <2>9. CASE Record
      BY <2>9 DEF Record, BlockUnchanged
    <2>10. CASE RecordTake
      BY <2>10 DEF RecordTake, BlockUnchanged, BorrowMut
    <2>11. CASE RecordDrop
      BY <2>11 DEF RecordDrop, BlockUnchanged
    <2>12. CASE Promote
      BY <2>12 DEF Promote, BlockUnchanged, Cas
    <2>13. CASE Finish
      BY <2>13 DEF Finish, BlockUnchanged, FinishCapture, InReleaseGap, Cas
    <2>14. CASE FinishDispatch
      BY <2>14 DEF FinishDispatch, BlockUnchanged, Dispatch, Task
    <2> QED BY <1>4, <2>1, <2>2, <2>3, <2>4, <2>5, <2>6, <2>7, <2>8, <2>9, <2>10, <2>11, <2>12, <2>13, <2>14 DEF Block
  <1>5. CASE GuiStep
    <2>1. CASE FrameStart
      BY <2>1 DEF FrameStart, GuiUnchanged
    <2>2. CASE FrameLook
      BY <2>2 DEF FrameLook, GuiUnchanged
    <2>3. CASE FrameEnd
      BY <2>3 DEF FrameEnd, GuiUnchanged
    <2>4. CASE ClickCapture
      BY <2>4 DEF ClickCapture, GuiUnchanged
    <2>5. CASE ClickStop
      BY <2>5 DEF ClickStop, GuiUnchanged
    <2>6. CASE ClickCancel
      BY <2>6 DEF ClickCancel, GuiUnchanged
    <2>7. CASE CancelStop
      BY <2>7 DEF CancelStop, GuiUnchanged
    <2>8. CASE CancelEnd
      BY <2>8 DEF CancelEnd, GuiUnchanged
    <2>9. CASE CancelPhase("cancel1", "cancel2")
      BY <2>9 DEF CancelPhase, CancelOrder, Cas, GuiUnchanged
    <2>10. CASE CancelPhase("cancel2", "cancelled")
      BY <2>10 DEF CancelPhase, CancelOrder, Cas, GuiUnchanged
    <2> QED BY <1>5, <2>1, <2>2, <2>3, <2>4, <2>5, <2>6, <2>7, <2>8, <2>9, <2>10 DEF GuiStep, Cancel
  <1>6. CASE TaskStep \/ TaskPanic
    <2>1. CASE TaskTake
      BY <2>1 DEF TaskTake, TaskUnchanged
    <2>2. CASE TaskCheck
      BY <2>2 DEF TaskCheck, TaskUnchanged, TaskExit, NoTask
    <2>3. CASE TaskBorrow
      BY <2>3 DEF TaskBorrow, TaskUnchanged, TaskExit, NoTask
    <2>4. CASE TaskRecheck
      BY <2>4 DEF TaskRecheck, TaskUnchanged, TaskExit, NoTask
    <2>5. CASE TaskAnalyze
      BY <2>5 DEF TaskAnalyze, TaskUnchanged, TaskExit, NoTask
    <2>6. CASE TaskStore
      BY <2>6 DEF TaskStore, TaskUnchanged, TaskExit, NoTask
    <2>7. CASE TaskRelease
      BY <2>7 DEF TaskRelease, TaskUnchanged, TaskExit, NoTask, Cas
    <2>8. CASE TaskPanic
      BY <2>8 DEF TaskPanic, TaskUnchanged, TaskExit, NoTask
    <2>9. CASE TaskRepair
      BY <2>9 DEF TaskRepair, TaskUnchanged, TaskExit, NoTask
    <2> QED BY <1>6, <2>1, <2>2, <2>3, <2>4, <2>5, <2>6, <2>7, <2>8, <2>9 DEF TaskStep
  <1>7. CASE UNCHANGED vars
    BY <1>7 DEF vars
  <1> QED BY <1>1, <1>2, <1>3, <1>4, <1>5, <1>6, <1>7 DEF Next, PluginStep

(***************************************************************************)
(* One of the cancel's two CASes lands: nothing but a new capture, which   *)
(* ends what the cancel found, enters Armed behind the first, and nothing  *)
(* enters Capturing but from Armed.                                        *)
(***************************************************************************)
CancelInv ==
  /\ gui = "cancel2" /\ cancelling = "live" => phase # "ARMED"
  /\ CancelLands

LEMMA CancelInvStep == ASSUME TypeInv, CancelInv, [Next]_vars PROVE CancelInv'
  <1> DEFINE Goal == CancelInv'
  <1> SUFFICES Goal
    OBVIOUS
  <1> USE DEF TypeInv, TypeOK, ValuesOK, Phases, CancelInv, CancelLands, Cas, shared, data,
          hostVars, local, worker, history
  <1>1. CASE HostStep
    <2>1. ASSUME NEW c \in Configs, Activate(c)
          PROVE  Goal
      BY <2>1 DEF Activate, InitializeEntry, HostMayCall
    <2>2. ASSUME NEW on \in BOOLEAN, LoadParams(on)
          PROVE  Goal
      BY <2>2 DEF LoadParams
    <2>3. CASE LoadInitialize
      BY <2>3 DEF LoadInitialize, InitializeEntry, HostMayCall
    <2>4. CASE ToggleCapture
      BY <2>4 DEF ToggleCapture
    <2>5. CASE StartProcessing
      BY <2>5 DEF StartProcessing, HostMayCall
    <2>6. CASE BlockStart
      BY <2>6 DEF BlockStart, BlockUnchanged, HostMayCall
    <2> QED BY <1>1, <2>1, <2>2, <2>3, <2>4, <2>5, <2>6 DEF HostStep
  <1>2. CASE Initialize
    <2>1. CASE InitWaitOver
      BY <2>1 DEF InitWaitOver, InitUnchanged
    <2>2. CASE InitTimeout
      BY <2>2 DEF InitTimeout, InitUnchanged
    <2>3. CASE InitBump
      BY <2>3 DEF InitBump, InitUnchanged
    <2>4. CASE InitProbe
      BY <2>4 DEF InitProbe, InitUnchanged
    <2>5. CASE InitRealloc
      BY <2>5 DEF InitRealloc, InitUnchanged
    <2>6. CASE InitReclaim
      BY <2>6 DEF InitReclaim, InitUnchanged, Cas
    <2>7. CASE InitTake
      BY <2>7 DEF InitTake, InitUnchanged, BorrowMut
    <2>8. CASE InitAllocate
      BY <2>8 DEF InitAllocate, InitUnchanged
    <2>9. CASE InitTail
      BY <2>9 DEF InitTail, InitUnchanged
    <2> QED BY <1>2, <2>1, <2>2, <2>3, <2>4, <2>5, <2>6, <2>7, <2>8, <2>9 DEF Initialize
  <1>3. CASE Reset
    <2>1. CASE ResetStop
      BY <2>1 DEF ResetStop, ResetUnchanged, Cas
    <2>2. CASE ResetArmed
      BY <2>2 DEF ResetArmed, ResetUnchanged, Cas
    <2>3. CASE ResetRequest
      BY <2>3 DEF ResetRequest, ResetUnchanged, Cas
    <2>4. CASE ResetCapturing
      BY <2>4 DEF ResetCapturing, ResetUnchanged, Cas
    <2> QED BY <1>3, <2>1, <2>2, <2>3, <2>4 DEF Reset
  <1>4. CASE Block
    <2>1. CASE BlockEdges
      BY <2>1 DEF BlockEdges, BlockUnchanged
    <2>2. CASE StopArmed
      BY <2>2 DEF StopArmed, BlockUnchanged, Cas
    <2>3. CASE StopCapturing
      BY <2>3 DEF StopCapturing, BlockUnchanged, FinishCapture, InReleaseGap, Cas
    <2>4. CASE StopDispatch
      BY <2>4 DEF StopDispatch, BlockUnchanged, Dispatch, Task
    <2>5. CASE ArmCheck
      BY <2>5 DEF ArmCheck, BlockUnchanged
    <2>6. CASE ArmTake
      BY <2>6 DEF ArmTake, BlockUnchanged, BorrowMut
    <2>7. CASE ArmDrop
      BY <2>7 DEF ArmDrop, BlockUnchanged
    <2>8. CASE ArmStore
      BY <2>8 DEF ArmStore, BlockUnchanged
    <2>9. CASE Record
      BY <2>9 DEF Record, BlockUnchanged
    <2>10. CASE RecordTake
      BY <2>10 DEF RecordTake, BlockUnchanged, BorrowMut
    <2>11. CASE RecordDrop
      BY <2>11 DEF RecordDrop, BlockUnchanged
    <2>12. CASE Promote
      BY <2>12 DEF Promote, BlockUnchanged, Cas
    <2>13. CASE Finish
      BY <2>13 DEF Finish, BlockUnchanged, FinishCapture, InReleaseGap, Cas
    <2>14. CASE FinishDispatch
      BY <2>14 DEF FinishDispatch, BlockUnchanged, Dispatch, Task
    <2> QED BY <1>4, <2>1, <2>2, <2>3, <2>4, <2>5, <2>6, <2>7, <2>8, <2>9, <2>10, <2>11, <2>12, <2>13, <2>14 DEF Block
  <1>5. CASE GuiStep
    <2>1. CASE FrameStart
      BY <2>1 DEF FrameStart, GuiUnchanged
    <2>2. CASE FrameLook
      BY <2>2 DEF FrameLook, GuiUnchanged
    <2>3. CASE FrameEnd
      BY <2>3 DEF FrameEnd, GuiUnchanged
    <2>4. CASE ClickCapture
      BY <2>4 DEF ClickCapture, GuiUnchanged
    <2>5. CASE ClickStop
      BY <2>5 DEF ClickStop, GuiUnchanged
    <2>6. CASE ClickCancel
      BY <2>6 DEF ClickCancel, GuiUnchanged
    <2>7. CASE CancelStop
      BY <2>7 DEF CancelStop, GuiUnchanged
    <2>8. CASE CancelEnd
      BY <2>8 DEF CancelEnd, GuiUnchanged
    <2>9. CASE CancelPhase("cancel1", "cancel2")
      BY <2>9 DEF CancelPhase, CancelOrder, Cas, GuiUnchanged
    <2>10. CASE CancelPhase("cancel2", "cancelled")
      BY <2>10 DEF CancelPhase, CancelOrder, Cas, GuiUnchanged
    <2> QED BY <1>5, <2>1, <2>2, <2>3, <2>4, <2>5, <2>6, <2>7, <2>8, <2>9, <2>10 DEF GuiStep, Cancel
  <1>6. CASE TaskStep \/ TaskPanic
    <2>1. CASE TaskTake
      BY <2>1 DEF TaskTake, TaskUnchanged
    <2>2. CASE TaskCheck
      BY <2>2 DEF TaskCheck, TaskUnchanged, TaskExit, NoTask
    <2>3. CASE TaskBorrow
      BY <2>3 DEF TaskBorrow, TaskUnchanged, TaskExit, NoTask
    <2>4. CASE TaskRecheck
      BY <2>4 DEF TaskRecheck, TaskUnchanged, TaskExit, NoTask
    <2>5. CASE TaskAnalyze
      BY <2>5 DEF TaskAnalyze, TaskUnchanged, TaskExit, NoTask
    <2>6. CASE TaskStore
      BY <2>6 DEF TaskStore, TaskUnchanged, TaskExit, NoTask
    <2>7. CASE TaskRelease
      BY <2>7 DEF TaskRelease, TaskUnchanged, TaskExit, NoTask, Cas
    <2>8. CASE TaskPanic
      BY <2>8 DEF TaskPanic, TaskUnchanged, TaskExit, NoTask
    <2>9. CASE TaskRepair
      BY <2>9 DEF TaskRepair, TaskUnchanged, TaskExit, NoTask
    <2> QED BY <1>6, <2>1, <2>2, <2>3, <2>4, <2>5, <2>6, <2>7, <2>8, <2>9 DEF TaskStep
  <1>7. CASE UNCHANGED vars
    BY <1>7 DEF vars
  <1> QED BY <1>1, <1>2, <1>3, <1>4, <1>5, <1>6, <1>7 DEF Next, PluginStep

-----------------------------------------------------------------------------
(***************************************************************************)
(* The theorems.  PromptTask is the premise of those that rest on IInv.    *)
(***************************************************************************)
SafeInv == TypeInv /\ IInv /\ LatestInv

LEMMA InitIInv == Init => IInv
  <1> SUFFICES ASSUME Init PROVE IInv
    OBVIOUS
  <1>1. /\ queue = <<>> /\ DOMAIN queue = {} /\ tpc = "none" /\ task.gen = 0
        /\ generation = 0 /\ phase = "IDLE" /\ pc = "idle" /\ borrow = "none"
    BY DEF Init, NoTask
  <1> QED BY <1>1, TypeInit DEF TypeInv, IInv, CellInv, GenInv, WindowInv, NoneQueued, Current,
                RunningCurrent, Grabbing, Gap, Windows, Running, Owning, Dispatching, BlockSteps

LEMMA SafeInvariant == ASSUME PromptTask PROVE Spec => []SafeInv
  <1>1. Init => TypeInv /\ IInv
    BY InitIInv, TypeInit
  <1>2. Init => LatestInv
    <2> SUFFICES ASSUME Init PROVE LatestInv
      OBVIOUS
    <2>1. DOMAIN queue = {} /\ tpc = "none" /\ phase = "IDLE" /\ pc = "idle"
      BY DEF Init
    <2> QED BY <2>1 DEF LatestInv, Arming, Grabbing, Gap, Windows, Running, RunningCurrent
  <1>3. TypeInv /\ IInv /\ LatestInv /\ [Next]_vars => (TypeInv /\ IInv /\ LatestInv)'
    BY TypeStep, SafeStep, LatestStep DEF TypeInv, IInv
  <1> QED BY <1>1, <1>2, <1>3, PTL DEF Spec, SafeInv

(***************************************************************************)
(* Under PromptTask no borrow_mut() of initialize() or process() finds the *)
(* cell held, however calls, clicks, tasks, panics and reclaims interleave.*)
(***************************************************************************)
THEOREM BorrowSafety == ASSUME PromptTask PROVE Spec => []BorrowNeverPanics
  <1>1. SafeInv => BorrowNeverPanics
    BY DEF SafeInv, IInv, CellInv, BorrowNeverPanics
  <1> QED BY <1>1, SafeInvariant, PTL

(***************************************************************************)
(* Whatever the configurations, calls, clicks, panics and reclaims, the    *)
(* machine goes round CaptureCycle: a capture is armed only when no        *)
(* earlier analysis may still be completed, and finished only when what    *)
(* came before is published.                                               *)
(***************************************************************************)
THEOREM CycleRefined == ASSUME PromptTask PROVE Spec => RefinesCycle
  <1>1. Init => Cycle!Init
    <2> SUFFICES ASSUME Init PROVE Cycle!Init
      OBVIOUS
    <2>1. ~AnalysisDue /\ tpc = "none"
      BY DEF Init, AnalysisDue, Dispatching
    <2>2. Due = "none"
      BY <2>1 DEF Due
    <2> QED BY <2>2 DEF Init, Cycle!Init
  <1>2. SafeInv /\ [Next]_vars => [Cycle!Next]_(Cycle!vars)
    BY Simulation DEF SafeInv, CycleStep
  <1>3. Spec => []SafeInv
    BY SafeInvariant
  <1> QED BY <1>1, <1>2, <1>3, PTL DEF Spec, RefinesCycle, Cycle!Spec

(***************************************************************************)
(* The unguarded final CAS of a task changes nothing but the Analyzing its *)
(* own capture entered, also when a successor is armed or recording.       *)
(***************************************************************************)
THEOREM ReleaseOwnsPhase == ASSUME PromptTask PROVE Spec => ReleasesOwnPhase
  <1>1. SafeInv => (TaskRelease /\ phase' # phase => phase = "ANALYZING" /\ task.cap = "cur")
    BY DEF SafeInv, LatestInv, TaskRelease, Gap, Cas
  <1>2. Spec => []SafeInv
    BY SafeInvariant
  <1> QED BY <1>1, <1>2, PTL DEF Spec, ReleasesOwnPhase

(***************************************************************************)
(* No step of initialize() or reset() loses an Armed phase or a pending    *)
(* request, from any state at all.                                         *)
(***************************************************************************)
THEOREM IntentSurvives == Spec => IntentSurvivesHostCalls
  <1>1. Initialize /\ Intent => Intent'
    BY DEF Initialize, InitWaitOver, InitTimeout, InitBump, InitProbe, InitRealloc,
           InitReclaim, InitTake, InitAllocate, InitTail, shared, Cas, Intent
  <1>2. Reset /\ Intent => Intent'
    BY DEF Reset, ResetStop, ResetArmed, ResetRequest, ResetCapturing, Cas, Intent
  <1> QED BY <1>1, <1>2, PTL DEF Spec, IntentSurvivesHostCalls

(***************************************************************************)
(* Once its initialize() has returned a state load gives no block a rising *)
(* edge, blocks between its two halves included.                           *)
(***************************************************************************)
THEOREM LoadsArmNothing == Spec => LoadArmsNothing
  <1>1. Init => TypeInv /\ LoadInv
    BY TypeInit DEF Init, LoadInv, ResetSteps, BlockSteps
  <1>2. TypeInv /\ LoadInv /\ [Next]_vars => (TypeInv /\ LoadInv)'
    BY TypeStep, LoadStep
  <1>3. LoadInv => (BlockEdges /\ rising' => rising \/ ~loadedOn \/ loading)
    BY DEF LoadInv, BlockEdges, BlockSteps, InitSteps
  <1> QED BY <1>1, <1>2, <1>3, PTL DEF Spec, LoadArmsNothing

(***************************************************************************)
(* A cancel that found a capture armed or recording leaves it neither,     *)
(* wherever promotions, stops, resets and finishes fall between its steps. *)
(***************************************************************************)
THEOREM CancelSucceeds == Spec => []CancelLands
  <1>1. Init => TypeInv /\ CancelInv
    BY TypeInit DEF Init, CancelInv, CancelLands
  <1>2. TypeInv /\ CancelInv /\ [Next]_vars => (TypeInv /\ CancelInv)'
    BY TypeStep, CancelInvStep
  <1>3. CancelInv => CancelLands
    BY DEF CancelInv
  <1> QED BY <1>1, <1>2, <1>3, PTL DEF Spec
=============================================================================
