------------------------ MODULE CrashReporterProofs ------------------------
(***************************************************************************)
(* Proofs about CrashReporter, for any number of instances and lives and   *)
(* any cap on the reports of a sweep.                                      *)
(***************************************************************************)
EXTENDS CrashReporter, TLAPS

-----------------------------------------------------------------------------
(***************************************************************************)
(* The threads.  A call of the host runs on the main thread and on an      *)
(* instance that is alive, a frame on the ui thread and on one whose       *)
(* editor is open; what is torn down is no longer called.                  *)
(***************************************************************************)
SyncSteps  == {"sync", "take", "reporter", "bind", "store"}
CallSteps  == SyncSteps \cup {"initStamp", "initDone", "creating", "opened", "closing"}
DeathSteps == {"release", "marker", "has_fault", "rmMarker", "rmFault", "gone"}
Detached   == {"has_fault", "rmMarker", "rmFault", "gone"}

Calls(th)  == th.pc \in CallSteps \/ (th.pc \in DropSteps /\ th.ret # "marker")
Buries(th) == th.pc \in DeathSteps \/ (th.pc \in DropSteps /\ th.ret = "marker")

Alive(i) == inst[i] \in {"loaded", "ready", "open"}

ThreadInv ==
  /\ \A t \in Threads :
       /\ thread[t].pc = "idle" => thread[t] = Idle
       /\ Calls(thread[t]) =>
            /\ t # "late" /\ Alive(thread[t].who) /\ thread[t].ret \in {"idle", "initDone"}
            /\ t = "ui" => /\ inst[thread[t].who] = "open" /\ thread[t].ret = "idle"
                           /\ thread[t].pc \in SyncSteps \cup DropSteps
       /\ Buries(thread[t]) =>
            t # "ui" /\ inst[thread[t].who] = "dying" /\ thread[t].ret = "marker"
       /\ thread[t].pc # "idle" => thread[t].who \in Instances
  /\ Buries(thread["main"]) /\ Buries(thread["late"]) => thread["main"].who # thread["late"].who

(***************************************************************************)
(* The marker of each life: at the stage the life has reached, there only  *)
(* while it is attached, about to be removed or evidence of a fault.       *)
(***************************************************************************)
EndedBadly(l) == ended[l] = "crash" \/ l \in owed

MarkerInv ==
  /\ \A i \in markers : inst[i] # "absent"
  /\ \A t \in Threads : thread[t].pc \in Detached => thread[t].who \notin markers
  /\ up => life # 0 /\ ended[life] = "no"
  /\ ~up => markers = {} /\ covered = {} /\ armed = {} /\ fresh = {} /\ ~swept /\ thread = NoThreads
  /\ \A l \in Lives : l > life =>
       marker_file[l] = NoFile /\ ended[l] = "no" /\ l \notin faulted /\ l \notin flipped
  /\ \A l \in Lives : marker_file[l] # NoFile /\ (l # life \/ ~up) =>
       marker_file[l] = last[l] /\ (ended[l] = "no" \/ EndedBadly(l))
  /\ up /\ marker_file[life] # NoFile =>
       /\ marker_file[life] = stage
       /\ \/ markers # {} \/ life \in faulted
          \/ \E t \in Threads : thread[t].pc \in {"has_fault", "rmMarker"}
  /\ \A l \in owed : ended[l] # "no"
  /\ ended[0] = "no" => marker_file[0] = last[0]

\* What the sweep holds is of lives that ended badly.
SweepInv ==
  /\ sweep.step \in {"read", "faults"} =>
       /\ ended[sweep.pid] # "no"
       /\ sweep.read # NoFile => EndedBadly(sweep.pid) /\ sweep.read = last[sweep.pid]
  /\ \A k \in 1 .. Len(sweep.found) :
       EndedBadly(sweep.found[k].life) /\ sweep.found[k].stage = last[sweep.found[k].life]
  /\ sweep.step \in {"idle", "queued"} => sweep.found = <<>>
  /\ sweep.step = "capture" => sweep.found # <<>>
  /\ ~swept => sweep.step = "idle"

(***************************************************************************)
(* The evidence of the running life: while there is something to account   *)
(* for, its marker is on disk, and the record of a fault beside it, unless *)
(* a teardown overtaken by either took it.                                 *)
(***************************************************************************)
FaultInv ==
  /\ up /\ life \notin wiped =>
       /\ markers # {} \/ life \in faulted \/ (\E t \in Threads : thread[t].pc = "has_fault") =>
            marker_file[life] = stage
       /\ life \in faulted => fault_file[life] = "record"
  /\ covered \subseteq
       markers \cup {thread[t].who : t \in {u \in Threads : thread[u].pc \in Detached}}

(***************************************************************************)
(* The reporter: one thread at most builds it, none while there is one,    *)
(* and unless that one was built beside a teardown none is going on.       *)
(***************************************************************************)
Refs    == armed # {} \/ fresh # {}
Binding == \E t \in Threads : thread[t].pc = "bind"

ArmInv ==
  /\ fresh = {t \in Threads : thread[t].pc = "store"}
  /\ ~(Refs /\ Binding)
  /\ \A t, u \in Threads : thread[t].pc = "bind" /\ thread[u].pc = "bind" => t = u
  /\ (Refs \/ Binding) /\ built # "beside" => ~TearingDown /\ (built = "whole" => veh # "off")
  /\ Refs /\ built # "beside" => client /\ release

Stamped == thread["main"].pc \in {"sync", "take", "reporter", "bind", "store", "initDone"} \cup DropSteps
             /\ thread["main"].ret = "initDone"

WindowInv ==
  /\ ~up => inst = NoneLoaded
  /\ thread["main"].pc \in {"creating", "opened", "closing"} => inst[thread["main"].who] = "ready"
  /\ up /\ life \notin flipped =>
       /\ ~consent => markers = {}
       /\ consent => /\ \A i \in Instances : inst[i] \in {"ready", "open"} => i \in markers
                     /\ Stamped => thread["main"].who \in markers
       /\ \A i \in markers : inst[i] = "open" => is_editor(stage)
       /\ thread["main"].pc = "opened" /\ markers # {} => stage = "editor_creating"

SweepFrame == /\ up
              /\ UNCHANGED <<up, life, consent, markers, stage, ended, last, owed>>
              /\ UNCHANGED <<reporterVars, thread, history>>

-----------------------------------------------------------------------------
(***************************************************************************)
(* Types.                                                                  *)
(***************************************************************************)
LEMMA MovedType ==
  \A th \in Thread, step \in Steps :
    /\ Moved(th, step) \in Thread
    /\ Moved(th, step).pc = step
    /\ step # "idle" => Moved(th, step).who = th.who /\ Moved(th, step).ret = th.ret
    /\ step = "idle" => Moved(th, step) = Idle
BY DEF Moved, Thread, Steps, Idle

LEMMA ThreadFields ==
  /\ \A th \in Thread : th.pc \in Steps /\ th.ret \in Steps /\ th.who \in Instances \cup {NoFile}
  /\ NoThreads \in [Threads -> Thread]
BY DEF Thread, NoThreads, Idle, Steps

LEMMA LivesAreNat == Lives \subseteq Nat /\ 0 \in Lives
BY SessionAssumption DEF Lives

LEMMA NoSweepType == NoSweep \in Sweeps
<1>1. 0 \in Lives  BY SessionAssumption DEF Lives
<1>2. <<>> \in Seq(Entry)  OBVIOUS
<1>. QED  BY <1>1, <1>2 DEF NoSweep, Sweeps

LEMMA HeldType == ASSUME TypeOK PROVE Held \subseteq Lives
<1>1. sweep.found \in Seq(Entry) /\ sweep.pid \in Lives  BY DEF TypeOK, SessionTypeOK, Sweeps
<1>2. \A k \in 1 .. Len(sweep.found) : sweep.found[k] \in Entry  BY <1>1
<1>3. \A k \in 1 .. Len(sweep.found) : sweep.found[k].life \in Lives  BY <1>2 DEF Entry
<1>. QED  BY <1>1, <1>3 DEF Held

LEMMA TypeStep == ASSUME TypeOK, SweepInv, ThreadInv, [Next]_vars PROVE TypeOK'
<1>1. ASSUME NEW t \in Threads, ReporterStep(t) PROVE TypeOK'
  <2>1. thread' \in [Threads -> Thread]
    BY <1>1, ThreadFields, MovedType
       DEF ReporterStep, Goto, Steps, Threads, install, Installed, TearingDown, open_fault_file,
           LastRef,
           Lives, session, sessionRest, reporterVars, history, TypeOK, SessionTypeOK
  <2>2. SessionTypeOK'
    BY <1>1
       DEF ReporterStep, install, Installed, TearingDown, open_fault_file, LastRef, Lives, session,
           sessionRest, reporterVars, history, TypeOK, SessionTypeOK
  <2>3. (TypeOK!2 /\ TypeOK!3 /\ TypeOK!4 /\ TypeOK!5 /\ TypeOK!7 /\ TypeOK!8)'
    BY <1>1
       DEF ReporterStep, install, Installed, TearingDown, open_fault_file, LastRef, Lives, session,
           sessionRest, reporterVars, history, TypeOK, SessionTypeOK
  <2>. QED  BY <2>1, <2>2, <2>3 DEF TypeOK
<1>2. ASSUME NEW t \in Threads, Store(t) PROVE TypeOK'
  <2>1. thread' \in [Threads -> Thread]
    BY <1>2, ThreadFields, MovedType
       DEF Store, Drops, LastRef, Goto, Steps, Threads, session, sessionRest, reporterVars,
           history, TypeOK,
           SessionTypeOK
  <2>2. sweep' \in Sweeps
    BY <1>2
       DEF Store, Drops, LastRef, Sweeps, session, sessionRest, reporterVars, history, TypeOK,
           SessionTypeOK
  <2>3. SessionTypeOK'
    BY <1>2, <2>2 DEF Store, Drops, LastRef, session, sessionRest, reporterVars, history, TypeOK,
                      SessionTypeOK
  <2>4. (TypeOK!2 /\ TypeOK!4 /\ TypeOK!5 /\ TypeOK!8)'
    BY <1>2 DEF Store, session, sessionRest, reporterVars, history, TypeOK, SessionTypeOK
  <2>5. (TypeOK!3)'
    <3>1. thread[t].who \in Instances  BY <1>2, Zenon DEF Store, At, ThreadInv
    <3>. QED  BY <1>2, <3>1 DEF Store, TypeOK
  <2>6. (TypeOK!7)'
    BY <1>2 DEF Store, Drops, TypeOK
  <2>. QED  BY <2>1, <2>2, <2>3, <2>4, <2>5, <2>6 DEF TypeOK
<1>3. ASSUME NEW t \in Threads, Uninstall(t) PROVE TypeOK'
  <2>1. thread' \in [Threads -> Thread]
    BY <1>3, ThreadFields, MovedType
       DEF Uninstall, Goto, Steps, Threads, LastRef, session, sessionRest, reporterVars,
           history, TypeOK, SessionTypeOK
  <2>2. SessionTypeOK'
    BY <1>3
       DEF Uninstall, LastRef, session, sessionRest, reporterVars, history, TypeOK,
           SessionTypeOK
  <2>3. (TypeOK!2 /\ TypeOK!3 /\ TypeOK!4 /\ TypeOK!5 /\ TypeOK!7 /\ TypeOK!8)'
    BY <1>3
       DEF Uninstall, LastRef, session, sessionRest, reporterVars, history, TypeOK,
           SessionTypeOK
  <2>. QED  BY <2>1, <2>2, <2>3 DEF TypeOK
<1>4. ASSUME NEW t \in Threads, EndSession(t) PROVE TypeOK'
  <2>1. thread' \in [Threads -> Thread]
    BY <1>4, ThreadFields, MovedType
       DEF EndSession, Goto, Steps, Threads, LastRef, session, sessionRest, reporterVars,
           history, TypeOK, SessionTypeOK
  <2>2. SessionTypeOK'
    BY <1>4
       DEF EndSession, LastRef, session, sessionRest, reporterVars, history, TypeOK,
           SessionTypeOK
  <2>3. (TypeOK!2 /\ TypeOK!3 /\ TypeOK!4 /\ TypeOK!5 /\ TypeOK!7 /\ TypeOK!8)'
    BY <1>4
       DEF EndSession, LastRef, session, sessionRest, reporterVars, history, TypeOK,
           SessionTypeOK
  <2>. QED  BY <2>1, <2>2, <2>3 DEF TypeOK
<1>5. ASSUME NEW t \in Threads, Close(t) PROVE TypeOK'
  <2>1. thread' \in [Threads -> Thread]
    BY <1>5, ThreadFields, MovedType
       DEF Close, Goto, Steps, Threads, LastRef, session, sessionRest, reporterVars, history,
           TypeOK, SessionTypeOK
  <2>2. SessionTypeOK'
    BY <1>5
       DEF Close, LastRef, session, sessionRest, reporterVars, history, TypeOK, SessionTypeOK
  <2>3. (TypeOK!2 /\ TypeOK!3 /\ TypeOK!4 /\ TypeOK!5 /\ TypeOK!7 /\ TypeOK!8)'
    BY <1>5
       DEF Close, LastRef, session, sessionRest, reporterVars, history, TypeOK, SessionTypeOK
  <2>. QED  BY <2>1, <2>2, <2>3 DEF TypeOK
<1>6. ASSUME SweepFaults /\ SweepFrame PROVE TypeOK'
  <2> DEFINE entry == [life |-> sweep.pid, stage |-> sweep.read, faults |-> fault_file[sweep.pid] = "record"]
             keep == sweep.read # NoFile /\ Len(sweep.found) < MaxReports
  <2>1. sweep \in Sweeps /\ sweep.pid \in Lives /\ sweep.found \in Seq(Entry) /\ sweep.read \in Stage \cup {NoFile}
    BY DEF TypeOK, SessionTypeOK, Sweeps
  <2>2. keep => entry \in Entry  BY <2>1 DEF Entry
  <2>3. (IF keep THEN Append(sweep.found, entry) ELSE sweep.found) \in Seq(Entry)  BY <2>1, <2>2
  <2>4. sweep' \in Sweeps  BY <1>6, <2>1, <2>3 DEF SweepFaults, Sweeps, TypeOK, SessionTypeOK
  <2>. QED  BY <1>6, <2>1, <2>4 DEF SweepFaults, SweepFrame, TypeOK, SessionTypeOK, reporterVars,
                                    history
<1>7. ASSUME SweepReturn /\ SweepFrame PROVE TypeOK'
  <2>1. [sweep EXCEPT !.step = "capture"] \in Sweeps  BY DEF TypeOK, SessionTypeOK, Sweeps
  <2>. QED  BY <1>7, <2>1, NoSweepType DEF SweepReturn, SweepFrame, TypeOK, SessionTypeOK,
                                           reporterVars, history
<1>8. ASSUME SweepCapture(client) /\ SweepFrame PROVE TypeOK'
  <2>1. sweep \in Sweeps /\ sweep.found \in Seq(Entry) /\ sweep.found # <<>>
    BY <1>8 DEF SweepCapture, SweepInv, TypeOK, SessionTypeOK, Sweeps
  <2>2. Head(sweep.found) \in Entry /\ Tail(sweep.found) \in Seq(Entry)  BY <2>1
  <2>3. Head(sweep.found).life \in Lives  BY <2>2 DEF Entry
  <2>4. sweep' \in Sweeps  BY <1>8, <2>1, <2>2, NoSweepType DEF SweepCapture, Sweeps
  <2>. QED  BY <1>8, <2>2, <2>3, <2>4 DEF SweepCapture, SweepFrame, TypeOK, SessionTypeOK,
                                          reporterVars, history
<1>9. ASSUME Crash PROVE TypeOK'
  <2>1. SessionTypeOK'
    BY <1>9, NoSweepType, HeldType
       DEF Crash, Die, Record, record_fault, session, sessionRest, reporterVars, history,
           TypeOK, SessionTypeOK
  <2>2. thread' \in [Threads -> Thread]
    BY <1>9, ThreadFields
       DEF Crash, Die, session, sessionRest, reporterVars, history, TypeOK, SessionTypeOK
  <2>3. (TypeOK!7 /\ TypeOK!8)'
    BY <1>9
       DEF Crash, Die, Record, session, sessionRest, reporterVars, history, TypeOK,
           SessionTypeOK
  <2>4. (TypeOK!2 /\ TypeOK!3 /\ TypeOK!4 /\ TypeOK!5)'
    BY <1>9
       DEF Crash, Die, NoneLoaded, session, sessionRest, reporterVars, history, TypeOK,
           SessionTypeOK
  <2>. QED  BY <2>1, <2>2, <2>3, <2>4 DEF TypeOK
<1>10. ASSUME Exit PROVE TypeOK'
  <2>1. SessionTypeOK'
    BY <1>10, NoSweepType, HeldType
       DEF Exit, Die, Record, record_fault, session, sessionRest, reporterVars, history,
           TypeOK, SessionTypeOK
  <2>2. thread' \in [Threads -> Thread]
    BY <1>10, ThreadFields
       DEF Exit, Die, session, sessionRest, reporterVars, history, TypeOK, SessionTypeOK
  <2>3. (TypeOK!7 /\ TypeOK!8)'
    BY <1>10
       DEF Exit, Die, Record, session, sessionRest, reporterVars, history, TypeOK,
           SessionTypeOK
  <2>4. (TypeOK!2 /\ TypeOK!3 /\ TypeOK!4 /\ TypeOK!5)'
    BY <1>10
       DEF Exit, Die, NoneLoaded, session, sessionRest, reporterVars, history, TypeOK,
           SessionTypeOK
  <2>. QED  BY <2>1, <2>2, <2>3, <2>4 DEF TypeOK
<1>11. ASSUME NEW t \in Threads, TransportPanic(t) PROVE TypeOK'
  <2>1. SessionTypeOK'
    BY <1>11, NoSweepType, HeldType
       DEF TransportPanic, Die, Record, record_fault, session, sessionRest, reporterVars,
           history, TypeOK, SessionTypeOK
  <2>2. thread' \in [Threads -> Thread]
    BY <1>11, ThreadFields
       DEF TransportPanic, Die, session, sessionRest, reporterVars, history, TypeOK,
           SessionTypeOK
  <2>3. (TypeOK!7 /\ TypeOK!8)'
    BY <1>11
       DEF TransportPanic, Die, Record, session, sessionRest, reporterVars, history, TypeOK,
           SessionTypeOK
  <2>4. (TypeOK!2 /\ TypeOK!3 /\ TypeOK!4 /\ TypeOK!5)'
    BY <1>11
       DEF TransportPanic, Die, NoneLoaded, session, sessionRest, reporterVars, history,
           TypeOK, SessionTypeOK
  <2>. QED  BY <2>1, <2>2, <2>3, <2>4 DEF TypeOK
<1>12. ASSUME NEW clean \in BOOLEAN, NeighbourDies(clean) PROVE TypeOK'
  <2>1. 0 \in Lives  BY SessionAssumption DEF Lives
  <2>. QED  BY <1>12, <2>1 DEF NeighbourDies, TypeOK, SessionTypeOK, reporterVars, history
<1>13. CASE UNCHANGED vars
  BY <1>13
     DEF session, sessionRest, reporterVars, history, vars, TypeOK, SessionTypeOK, Threads,
         Stage, EditorStage
<1> USE MovedType
   DEF session, sessionRest, reporterVars, history, vars, SweepFrame, At, Goto, TypeOK,
       SessionTypeOK, Threads, Stage, EditorStage, Steps
<1>14. ASSUME Start PROVE TypeOK'  BY <1>14, SessionAssumption DEF Start, Lives
<1>15. ASSUME NEW i \in Instances, Load(i) PROVE TypeOK'  BY <1>15 DEF Load
<1>16. ASSUME NEW i \in Instances, InitializeCall(i) PROVE TypeOK'
  <2>1. thread' \in [Threads -> Thread]
    BY <1>16 DEF InitializeCall, Call, Begin, Thread
  <2>2. UNCHANGED <<session, reporterVars, history>>  BY <1>16 DEF InitializeCall, Call
  <2>. QED  BY <2>1, <2>2
<1>17. ASSUME NEW i \in Instances, FrameCall(i) PROVE TypeOK'
  BY <1>17 DEF FrameCall, Call, Begin, Sweeps, Thread
<1>18. ASSUME NEW i \in Instances, OpenCall(i) PROVE TypeOK'
  BY <1>18 DEF OpenCall, Call, Begin, Sweeps, Thread
<1>19. ASSUME NEW i \in Instances, CloseCall(i) PROVE TypeOK'
  BY <1>19 DEF CloseCall, Call, Begin, Sweeps, Thread
<1>20. ASSUME NEW i \in Instances, NEW t \in Threads, Destroy(t, i) PROVE TypeOK'
  BY <1>20 DEF Destroy, Begin, FirstField, After, Sweeps, Thread
<1>21. ASSUME Answer PROVE TypeOK'  BY <1>21 DEF Answer
<1>22. ASSUME NEW i \in Instances, InitStamp(i) PROVE TypeOK'
  BY <1>22
     DEF InitStamp, Stamp, set_stage_if, Attach, create, Advance, write, not_editor, is_editor
<1>23. ASSUME NEW i \in Instances, InitDone(i) PROVE TypeOK'
  BY <1>23, ThreadFields
     DEF InitDone, Stamp, set_stage_if, Attach, create, Advance, write, not_editor, is_editor
<1>24. ASSUME NEW i \in Instances, Creating(i) PROVE TypeOK'
  BY <1>24
     DEF Creating, Stamp, set_stage_if, Attach, create, Advance, write, not_editor, is_editor
<1>25. ASSUME NEW i \in Instances, Opened(i) PROVE TypeOK'
  BY <1>25
     DEF Opened, Stamp, set_stage_if, Attach, create, Advance, write, not_editor, is_editor
<1>26. ASSUME NEW i \in Instances, Closing(i) PROVE TypeOK'
  BY <1>26
     DEF Closing, Stamp, set_stage_if, Attach, create, Advance, write, not_editor, is_editor
<1>27. ASSUME NEW t \in Threads, Sync(t) PROVE TypeOK'
  BY <1>27, ThreadFields DEF Sync
<1>40. ASSUME NEW t \in Threads, Take(t) PROVE TypeOK'
  BY <1>40, ThreadFields DEF Take, Released, Drops, LastRef
<1>28. ASSUME NEW t \in Threads, Bind(t) PROVE TypeOK'  BY <1>28 DEF Bind
<1>29. ASSUME NEW t \in Threads, NEW i \in Instances, DropSlot(t, i) PROVE TypeOK'
  BY <1>29 DEF DropSlot, Released, Drops, LastRef, After, FirstField
<1>30. ASSUME NEW t \in Threads, NEW i \in Instances, DropMarker(t, i) PROVE TypeOK'
  BY <1>30 DEF DropMarker, After, FirstField
<1>31. ASSUME NEW t \in Threads, HasFault(t) PROVE TypeOK'
  BY <1>31 DEF HasFault, has_fault, After, FirstField
<1>32. ASSUME NEW t \in Threads, RemoveMarker(t) PROVE TypeOK'
  BY <1>32 DEF RemoveMarker, Overtaken, remove_marker
<1>33. ASSUME NEW t \in Threads, RemoveFault(t) PROVE TypeOK'
  BY <1>33 DEF RemoveFault, remove_fault, After, FirstField
<1>34. ASSUME NEW t \in Threads, NEW i \in Instances, Gone(t, i) PROVE TypeOK'
  BY <1>34, NoSweepType DEF Gone
<1>35. ASSUME SweepList /\ SweepFrame PROVE TypeOK'
  <2>1. sweep' \in Sweeps
    BY <1>35, ZenonT(30) DEF SweepList, Sweeps
  <2>. QED  BY <1>35, <2>1 DEF SweepList
<1>36. ASSUME NEW l \in Lives, SweepSkip(l) /\ SweepFrame PROVE TypeOK'
  BY <1>36 DEF SweepSkip, Sweeps, Lives
<1>37. ASSUME NEW l \in Lives, NEW old \in BOOLEAN, SweepRead(l, old) /\ SweepFrame
      PROVE  TypeOK'
  BY <1>37 DEF SweepRead, Skips, Sweeps, Lives
<1>38. ASSUME SweepRemove /\ SweepFrame PROVE TypeOK'
  <2>1. sweep' \in Sweeps  BY <1>38, ZenonT(40) DEF SweepRemove, Sweeps
  <2>2. marker_file' \in [Lives -> Stage \cup {NoFile}]  BY <1>38 DEF SweepRemove
  <2>. QED  BY <1>38, <2>1, <2>2 DEF SweepRemove
<1>39. ASSUME Fault PROVE TypeOK'  BY <1>39 DEF Fault, Record, record_fault
<1> HIDE MovedType
   DEF session, sessionRest, reporterVars, history, vars, SweepFrame, At, Goto, TypeOK,
       SessionTypeOK, Threads, Stage, EditorStage, Steps
<1>. QED
  BY <1>1, <1>2, <1>3, <1>4, <1>5, <1>6, <1>7, <1>8, <1>9, <1>10, <1>11, <1>12, <1>13, <1>14,
     <1>15, <1>16, <1>17, <1>18, <1>19, <1>20, <1>21, <1>22, <1>23, <1>24, <1>25, <1>26,
     <1>27, <1>28, <1>29, <1>30, <1>31, <1>32, <1>33, <1>34, <1>35, <1>36, <1>37, <1>38, <1>39,
     <1>40
     DEF Next, HostStep, PluginStep, StampStep, ArmStep, TeardownStep, DropReporter,
         SweepStep, SweepFrame

-----------------------------------------------------------------------------
(***************************************************************************)
(* The threads.                                                            *)
(***************************************************************************)
LEMMA BurialGoesOn ==
  ASSUME TypeOK, ThreadInv, NEW t \in Threads, Buries(thread[t]), UNCHANGED inst,
         NEW s \in DeathSteps \cup DropSteps, Goto(t, s)
  PROVE  ThreadInv'
<1>0. t # "ui"  BY DEF ThreadInv
<1>1. /\ thread'[t].pc = s /\ thread'[t].who = thread[t].who /\ thread'[t].ret = thread[t].ret
      /\ \A u \in Threads : u # t => thread'[u] = thread[u]
  BY MovedType DEF Goto, TypeOK, DeathSteps, DropSteps, Steps
<1>2. /\ inst[thread[t].who] = "dying" /\ thread[t].ret = "marker"
      /\ thread[t].who \in Instances
  BY DEF ThreadInv, Buries, DeathSteps, DropSteps
<1>3. Buries(thread'[t]) /\ ~Calls(thread'[t]) /\ thread'[t].pc # "idle"
  BY <1>1, <1>2 DEF Buries, Calls, CallSteps, SyncSteps, DeathSteps, DropSteps
<1>4. \A u \in Threads :
        /\ thread'[u].pc = "idle" => thread'[u] = Idle
        /\ Calls(thread'[u]) => thread'[u] = thread[u]
        /\ Buries(thread'[u]) =>
             u # "ui" /\ inst[thread'[u].who] = "dying" /\ thread'[u].ret = "marker"
        /\ thread'[u].pc # "idle" => thread'[u].who \in Instances
  BY <1>1, <1>2, <1>3, <1>0 DEF ThreadInv
<1>5. \A u \in Threads : /\ thread'[u].who = thread[u].who
                         /\ Buries(thread'[u]) => Buries(thread[u])
  BY <1>1
<1>. QED  BY <1>4, <1>5 DEF ThreadInv, Alive, Calls, Buries, Threads

LEMMA CallGoesOn ==
  ASSUME TypeOK, ThreadInv, NEW t \in Threads, Calls(thread[t]), UNCHANGED inst,
         NEW s \in SyncSteps \cup DropSteps \cup {thread[t].ret}, Goto(t, s)
  PROVE  ThreadInv'
<1>1. /\ t # "late" /\ Alive(thread[t].who) /\ thread[t].ret \in {"idle", "initDone"}
      /\ t = "ui" => inst[thread[t].who] = "open" /\ thread[t].ret = "idle"
      /\ thread[t].who \in Instances
  BY DEF ThreadInv, Calls, CallSteps, SyncSteps, DropSteps
<1>2. s \in Steps  BY <1>1 DEF Steps, SyncSteps, DropSteps
<1>3. \A u \in Threads : u # t => thread'[u] = thread[u]
  BY DEF Goto, TypeOK
<1>4. thread'[t] = Moved(thread[t], s) /\ thread[t] \in Thread  BY DEF Goto, TypeOK
<1>5. ~Buries(thread'[t])
  BY <1>1, <1>2, <1>4, MovedType DEF Buries, DeathSteps, SyncSteps, DropSteps, Idle
<1>6. CASE s = "idle"
  <2>1. thread'[t] = Idle  BY <1>2, <1>4, <1>6, MovedType
  <2>2. ~Calls(Idle)  BY DEF Calls, CallSteps, SyncSteps, DropSteps, Idle
  <2>. QED  BY <1>3, <1>5, <2>1, <2>2 DEF ThreadInv, Alive, Idle, Threads
<1>7. CASE s # "idle"
  <2>1. thread'[t].pc = s /\ thread'[t].who = thread[t].who /\ thread'[t].ret = thread[t].ret
    BY <1>2, <1>4, <1>7, MovedType
  <2>2. t = "ui" => s \in SyncSteps \cup DropSteps  BY <1>1, <1>7
  <2>. QED  BY <1>1, <1>3, <1>5, <1>7, <2>1, <2>2 DEF ThreadInv, Alive, Threads
<1>. QED  BY <1>6, <1>7

(***************************************************************************)
(* What every step of arming and disarming comes to, on whatever thread:   *)
(* nothing of the session but the sweep, queued once, and an empty fault   *)
(* file.                                                                   *)
(***************************************************************************)
Arming(t) ==
  /\ up /\ thread[t].pc \in SyncSteps \cup DropSteps \cup {"release"}
  /\ \E s \in SyncSteps \cup DropSteps \cup {thread[t].ret} :
       Goto(t, s) /\ (Buries(thread[t]) => s \notin SyncSteps)
  /\ UNCHANGED <<sessionRest, inst, covered, faulted, wiped, flipped>>
  /\ \/ UNCHANGED sweep
     \/ ~swept /\ swept' /\ sweep' = [sweep EXCEPT !.step = "queued"]
  /\ swept => swept'
  /\ \A l \in Lives : fault_file[l] = "record" => fault_file'[l] = "record"

LEMMA ArmsQuietly ==
  ASSUME TypeOK, ThreadInv, NEW t \in Threads,
         ArmStep(t) \/ DropReporter(t) \/ (\E i \in Instances : DropSlot(t, i))
  PROVE  Arming(t)
<1> USE DEF Arming, At, SyncSteps, DropSteps, DeathSteps, Buries, sessionRest, session,
            reporterVars, history
<1>1. CASE Sync(t)  BY <1>1 DEF Sync
<1>2. CASE Take(t)  BY <1>2 DEF Take, Released, Drops
<1>3. CASE ReporterStep(t)
  <2>1. \A l \in Lives : fault_file[l] = "record" => fault_file'[l] = "record"
    BY <1>3, SessionAssumption
    DEF ReporterStep, install, Installed, TearingDown, open_fault_file, TypeOK, SessionTypeOK
  <2>2. \E s \in SyncSteps \cup {thread[t].ret} : Goto(t, s)
    BY <1>3 DEF ReporterStep
  <2>. QED  BY <1>3, <2>1, <2>2 DEF ReporterStep
<1>4. CASE Bind(t)  BY <1>4 DEF Bind
<1>5. CASE Store(t)  BY <1>5 DEF Store, Drops
<1>6. CASE Uninstall(t)  BY <1>6 DEF Uninstall
<1>7. CASE EndSession(t)  BY <1>7 DEF EndSession
<1>8. CASE Close(t)  BY <1>8 DEF Close
<1>9. ASSUME NEW i \in Instances, DropSlot(t, i) PROVE Arming(t)
  <2>1. thread[t].pc = "release" /\ thread[t].ret = "marker"
    BY <1>9 DEF DropSlot, ThreadInv
  <2>. QED  BY <1>9, <2>1 DEF DropSlot, Released, Drops, After, FirstField
<1>. QED
  BY <1>1, <1>2, <1>3, <1>4, <1>5, <1>6, <1>7, <1>8, <1>9 DEF ArmStep, DropReporter

LEMMA ThreadStep == ASSUME TypeOK, ThreadInv, [Next]_vars PROVE ThreadInv'
<1>1. ASSUME Start PROVE ThreadInv'
  BY <1>1
     DEF Start, session, sessionRest, reporterVars, history, At, TypeOK, ThreadInv, Calls,
         Buries, CallSteps, SyncSteps, DropSteps, DeathSteps, Alive, Idle, Steps, Threads
<1>2. ASSUME Answer PROVE ThreadInv'
  BY <1>2
     DEF Answer, session, sessionRest, reporterVars, history, At, TypeOK, ThreadInv, Calls,
         Buries, CallSteps, SyncSteps, DropSteps, DeathSteps, Alive, Idle, Steps, Threads
<1>3. ASSUME NEW t \in Threads, NEW i \in Instances, DropMarker(t, i) PROVE ThreadInv'
  <2>1. Buries(thread[t])
    BY <1>3 DEF DropMarker, At, Buries, DeathSteps
  <2>2. \E s \in DeathSteps \cup DropSteps : Goto(t, s)
    BY <1>3 DEF DropMarker, After, FirstField, DeathSteps, DropSteps
  <2>3. UNCHANGED inst
    BY <1>3 DEF DropMarker, reporterVars
  <2>. QED  BY <2>1, <2>2, <2>3, BurialGoesOn
<1>4. ASSUME NEW t \in Threads, HasFault(t) PROVE ThreadInv'
  <2>1. Buries(thread[t])
    BY <1>4 DEF HasFault, At, Buries, DeathSteps
  <2>2. \E s \in DeathSteps \cup DropSteps : Goto(t, s)
    BY <1>4 DEF HasFault, After, FirstField, DeathSteps, DropSteps
  <2>3. UNCHANGED inst
    BY <1>4 DEF HasFault, reporterVars
  <2>. QED  BY <2>1, <2>2, <2>3, BurialGoesOn
<1>5. ASSUME NEW t \in Threads, RemoveMarker(t) PROVE ThreadInv'
  <2>1. Buries(thread[t])
    BY <1>5 DEF RemoveMarker, At, Buries, DeathSteps
  <2>2. \E s \in DeathSteps \cup DropSteps : Goto(t, s)
    BY <1>5 DEF RemoveMarker, DeathSteps, DropSteps
  <2>3. UNCHANGED inst
    BY <1>5 DEF RemoveMarker, reporterVars
  <2>. QED  BY <2>1, <2>2, <2>3, BurialGoesOn
<1>6. ASSUME NEW t \in Threads, RemoveFault(t) PROVE ThreadInv'
  <2>1. Buries(thread[t])
    BY <1>6 DEF RemoveFault, At, Buries, DeathSteps
  <2>2. \E s \in DeathSteps \cup DropSteps : Goto(t, s)
    BY <1>6 DEF RemoveFault, After, FirstField, DeathSteps, DropSteps
  <2>3. UNCHANGED inst
    BY <1>6 DEF RemoveFault, reporterVars
  <2>. QED  BY <2>1, <2>2, <2>3, BurialGoesOn
<1>7. ASSUME NEW t \in Threads, NEW i \in Instances, Gone(t, i) PROVE ThreadInv'
  <2>1. /\ thread' = [thread EXCEPT ![t] = Idle] /\ inst' = [inst EXCEPT ![i] = "absent"]
        /\ thread[t].pc = "gone" /\ thread[t].who = i /\ inst[i] = "dying"
    BY <1>7 DEF Gone, At, Goto, Moved, TypeOK, ThreadInv, Buries, DeathSteps
  <2>2. ASSUME NEW u \in Threads, u # t, thread[u].pc # "idle"
        PROVE  thread'[u] = thread[u] /\ inst'[thread[u].who] = inst[thread[u].who]
    <3>1. thread[u].who # i
      BY <2>1, <2>2 DEF ThreadInv, Calls, Buries, CallSteps, SyncSteps, DropSteps, DeathSteps,
                        Alive, Threads, TypeOK, Steps, Thread
    <3>. QED  BY <2>1, <2>2, <3>1 DEF TypeOK, ThreadInv
  <2>3. thread'[t] = Idle  BY <2>1 DEF TypeOK
  <2>4. \A u \in Threads : u # t => thread'[u] = thread[u]  BY <2>1 DEF TypeOK
  <2>5. ~Calls(Idle) /\ ~Buries(Idle)  BY DEF Calls, Buries, Idle, CallSteps, SyncSteps,
                                              DropSteps, DeathSteps
  <2>6. \A u \in Threads : Calls(thread[u]) \/ Buries(thread[u]) => thread[u].pc # "idle"
    BY DEF Calls, Buries, CallSteps, SyncSteps, DropSteps, DeathSteps
  <2>. QED  BY <2>2, <2>3, <2>4, <2>5, <2>6 DEF ThreadInv, Alive, Threads, Idle
<1>8. ASSUME SweepList /\ SweepFrame PROVE ThreadInv'
  BY <1>8
     DEF SweepList, session, sessionRest, reporterVars, history, SweepFrame, At, TypeOK,
         ThreadInv, Calls, Buries, CallSteps, SyncSteps, DropSteps, DeathSteps, Alive, Idle, Steps,
         Threads
<1>9. ASSUME NEW l \in Lives, SweepSkip(l) /\ SweepFrame PROVE ThreadInv'
  BY <1>9
     DEF SweepSkip, session, sessionRest, reporterVars, history, SweepFrame, At, TypeOK,
         ThreadInv, Calls, Buries, CallSteps, SyncSteps, DropSteps, DeathSteps, Alive, Idle, Steps,
         Threads
<1>10. ASSUME NEW l \in Lives, NEW old \in BOOLEAN, SweepRead(l, old) /\ SweepFrame
      PROVE  ThreadInv'
  BY <1>10
     DEF SweepRead, Skips, session, sessionRest, reporterVars, history, SweepFrame, At,
         TypeOK, ThreadInv, Calls, Buries, CallSteps, SyncSteps, DropSteps, DeathSteps, Alive, Idle,
         Steps, Threads
<1>11. ASSUME SweepRemove /\ SweepFrame PROVE ThreadInv'
  BY <1>11
     DEF SweepRemove, session, sessionRest, reporterVars, history, SweepFrame, At, TypeOK,
         ThreadInv, Calls, Buries, CallSteps, SyncSteps, DropSteps, DeathSteps, Alive, Idle, Steps,
         Threads
<1>12. ASSUME SweepFaults /\ SweepFrame PROVE ThreadInv'
  BY <1>12
     DEF SweepFaults, Entry, session, sessionRest, reporterVars, history, SweepFrame, At,
         TypeOK, ThreadInv, Calls, Buries, CallSteps, SyncSteps, DropSteps, DeathSteps, Alive, Idle,
         Steps, Threads
<1>13. ASSUME SweepReturn /\ SweepFrame PROVE ThreadInv'
  BY <1>13
     DEF SweepReturn, session, sessionRest, reporterVars, history, SweepFrame, At, TypeOK,
         ThreadInv, Calls, Buries, CallSteps, SyncSteps, DropSteps, DeathSteps, Alive, Idle, Steps,
         Threads
<1>14. ASSUME SweepCapture(client) /\ SweepFrame PROVE ThreadInv'
  BY <1>14
     DEF SweepCapture, session, sessionRest, reporterVars, history, SweepFrame, At, TypeOK,
         ThreadInv, Calls, Buries, CallSteps, SyncSteps, DropSteps, DeathSteps, Alive, Idle, Steps,
         Threads
<1>15. ASSUME Fault PROVE ThreadInv'
  BY <1>15
     DEF Fault, Record, record_fault, session, sessionRest, reporterVars, history, At, TypeOK,
         ThreadInv, Calls, Buries, CallSteps, SyncSteps, DropSteps, DeathSteps, Alive, Idle, Steps,
         Threads
<1>16. ASSUME Crash PROVE ThreadInv'
  BY <1>16
     DEF Crash, Die, Held, NoneLoaded, NoThreads, Idle, session, sessionRest, reporterVars,
         history, At, TypeOK, ThreadInv, Calls, Buries, CallSteps, SyncSteps, DropSteps, DeathSteps,
         Alive, Steps, Threads
<1>17. ASSUME Exit PROVE ThreadInv'
  BY <1>17
     DEF Exit, Die, Held, NoneLoaded, NoThreads, Idle, session, sessionRest, reporterVars,
         history, At, TypeOK, ThreadInv, Calls, Buries, CallSteps, SyncSteps, DropSteps, DeathSteps,
         Alive, Steps, Threads
<1>18. ASSUME NEW t \in Threads, TransportPanic(t) PROVE ThreadInv'
  BY <1>18
     DEF TransportPanic, Record, record_fault, At, Die, Held, NoneLoaded, NoThreads, Idle,
         session, sessionRest, reporterVars, history, TypeOK, ThreadInv, Calls, Buries,
         CallSteps, SyncSteps, DropSteps, DeathSteps, Alive, Steps, Threads
<1>19. ASSUME NEW clean \in BOOLEAN, NeighbourDies(clean) PROVE ThreadInv'
  BY <1>19
     DEF NeighbourDies, session, sessionRest, reporterVars, history, At, TypeOK, ThreadInv,
         Calls, Buries, CallSteps, SyncSteps, DropSteps, DeathSteps, Alive, Idle, Steps, Threads
<1>20. CASE UNCHANGED vars
  BY <1>20
     DEF session, sessionRest, reporterVars, history, vars, TypeOK, ThreadInv, Calls, Buries,
         CallSteps, SyncSteps, DropSteps, DeathSteps, Alive, Idle, Threads
<1>21. ASSUME NEW t \in Threads, Arming(t) PROVE ThreadInv'
  <2>1. PICK s \in SyncSteps \cup DropSteps \cup {thread[t].ret} :
          Goto(t, s) /\ (Buries(thread[t]) => s \notin SyncSteps)
    BY <1>21 DEF Arming
  <2>2. UNCHANGED inst  BY <1>21 DEF Arming
  <2>3. CASE Buries(thread[t])
    <3>1. s \in DeathSteps \cup DropSteps
      BY <2>1, <2>3 DEF ThreadInv, DeathSteps
    <3>. QED  BY <2>1, <2>2, <2>3, <3>1, BurialGoesOn
  <2>4. CASE ~Buries(thread[t])
    <3>1. Calls(thread[t])
      BY <1>21, <2>4 DEF Arming, Calls, Buries, CallSteps, SyncSteps, DropSteps, DeathSteps
    <3>. QED  BY <2>1, <2>2, <3>1, CallGoesOn
  <2>. QED  BY <2>3, <2>4
<1> USE MovedType
   DEF session, sessionRest, reporterVars, history, vars, SweepFrame, At, Goto, TypeOK,
       ThreadInv, Calls, Buries, CallSteps, SyncSteps, DropSteps, DeathSteps, Alive, Idle, Steps,
       Threads
<1>22. ASSUME NEW i \in Instances, Load(i) PROVE ThreadInv'  BY <1>22 DEF Load
<1>23. ASSUME NEW i \in Instances, InitializeCall(i) PROVE ThreadInv'
  BY <1>23 DEF InitializeCall, Call, Begin
<1>24. ASSUME NEW i \in Instances, FrameCall(i) PROVE ThreadInv'
  BY <1>24 DEF FrameCall, Call, Begin
<1>25. ASSUME NEW i \in Instances, OpenCall(i) PROVE ThreadInv'
  BY <1>25 DEF OpenCall, Call, Begin
<1>26. ASSUME NEW i \in Instances, CloseCall(i) PROVE ThreadInv'
  BY <1>26 DEF CloseCall, Call, Begin
<1>27. ASSUME NEW i \in Instances, NEW t \in Threads, Destroy(t, i) PROVE ThreadInv'
  BY <1>27 DEF Destroy, Begin, FirstField, After
<1>28. ASSUME NEW i \in Instances, InitStamp(i) PROVE ThreadInv'
  BY <1>28
     DEF InitStamp, Stamp, set_stage_if, Attach, create, Advance, write, not_editor, is_editor
<1>29. ASSUME NEW i \in Instances, InitDone(i) PROVE ThreadInv'
  BY <1>29
     DEF InitDone, Stamp, set_stage_if, Attach, create, Advance, write, not_editor, is_editor
<1>30. ASSUME NEW i \in Instances, Creating(i) PROVE ThreadInv'
  BY <1>30
     DEF Creating, Stamp, set_stage_if, Attach, create, Advance, write, not_editor, is_editor
<1>31. ASSUME NEW i \in Instances, Opened(i) PROVE ThreadInv'
  BY <1>31
     DEF Opened, Stamp, set_stage_if, Attach, create, Advance, write, not_editor, is_editor
<1>32. ASSUME NEW i \in Instances, Closing(i) PROVE ThreadInv'
  BY <1>32
     DEF Closing, Stamp, set_stage_if, Attach, create, Advance, write, not_editor, is_editor
<1> HIDE MovedType
   DEF session, sessionRest, reporterVars, history, vars, SweepFrame, At, Goto, TypeOK,
       ThreadInv, Calls, Buries, CallSteps, SyncSteps, DropSteps, DeathSteps, Alive, Idle, Steps,
       Threads
<1>. QED
  BY <1>1, <1>2, <1>3, <1>4, <1>5, <1>6, <1>7, <1>8, <1>9, <1>10, <1>11, <1>12, <1>13, <1>14,
     <1>15, <1>16, <1>17, <1>18, <1>19, <1>20, <1>21, <1>22, <1>23, <1>24, <1>25, <1>26, <1>27,
     <1>28, <1>29, <1>30, <1>31, <1>32, ArmsQuietly
     DEF Next, HostStep, PluginStep, StampStep, TeardownStep, SweepStep, SweepFrame

(***************************************************************************)
(* What every stamp comes to: the handle attaches if there is a marker to  *)
(* attach to or to make, and the stage moves, on disk with it, or stays.   *)
(***************************************************************************)
Stamping(i) ==
  /\ up /\ i = thread["main"].who /\ thread["main"].pc \in CallSteps
  /\ thread'["main"].pc \notin Detached /\ (\A t \in Threads : t # "main" => thread'[t] = thread[t])
  /\ thread'["main"].who \in {i, NoFile}
  /\ \A j \in Instances : inst[j] # "absent" => inst'[j] # "absent"
  /\ UNCHANGED <<up, life, consent, ended, last, owed, fault_file, armed, fresh, swept, faulted,
                 wiped, flipped>>
  /\ markers \subseteq markers' /\ markers' \subseteq markers \cup {i}
  /\ \/ UNCHANGED <<stage, marker_file>> /\ (markers = {} => markers' = {})
     \/ stage' \in Stage /\ marker_file' = [marker_file EXCEPT ![life] = stage'] /\ markers' # {}
  /\ covered' = covered \cup markers'

LEMMA StampsStamp ==
  ASSUME TypeOK, NEW i \in Instances,
         InitStamp(i) \/ InitDone(i) \/ Creating(i) \/ Opened(i) \/ Closing(i)
  PROVE  Stamping(i)
<1> DEFINE Any(to) == thread' = [thread EXCEPT !["main"] = Moved(@, to)]
                      /\ \A j \in Instances : inst[j] # "absent" => inst'[j] # "absent"
<1>1. PICK from \in CallSteps, to \in {"idle", "sync", "opened"}, allowed \in SUBSET Stage, s \in Stage :
        Any(to) /\ Stamp(from, to, i, allowed, s)
  BY DEF InitStamp, InitDone, Creating, Opened, Closing, CallSteps, SyncSteps, Stamp, Goto,
         not_editor, Stage,
         EditorStage, TypeOK
<1>2. /\ thread'["main"] = Moved(thread["main"], to)
      /\ \A t \in Threads : t # "main" => thread'[t] = thread[t]
  BY <1>1 DEF TypeOK, Threads
<1>3. thread'["main"].pc = to /\ thread'["main"].who \in {thread["main"].who, NoFile}
  BY <1>2, MovedType DEF TypeOK, Threads, Steps, Idle
<1>. QED
  BY <1>1, <1>2, <1>3
  DEF Stamp, set_stage_if, Attach, create, Advance, write, At, Stamping, Detached, TypeOK,
      SessionTypeOK

-----------------------------------------------------------------------------
(***************************************************************************)
(* The markers.                                                            *)
(***************************************************************************)
LEMMA MarkerDropped ==
  ASSUME TypeOK, ThreadInv, MarkerInv, NEW t \in Threads, NEW i \in Instances, DropMarker(t, i)
  PROVE  MarkerInv'
<1>1. /\ up /\ thread[t].pc = "marker" /\ thread[t].who = i /\ markers' = markers \ {i}
      /\ UNCHANGED <<up, life, inst, stage, marker_file, ended, last, owed, armed, fresh, swept,
                     covered, faulted, flipped>>
  BY DEF DropMarker, At, reporterVars, history
<1>2. /\ thread'[t].pc = (IF markers = {i} THEN "has_fault" ELSE "gone") /\ thread'[t].who = i
      /\ \A u \in Threads : u # t => thread'[u] = thread[u]
  <2>1. thread' = [thread EXCEPT ![t] = Moved(@, IF markers = {i} THEN "has_fault" ELSE "gone")]
    BY DEF DropMarker, Goto, After, FirstField
  <2>2. thread[t] \in Thread /\ thread \in [Threads -> Thread]  BY DEF TypeOK
  <2>. QED  BY <1>1, <2>1, <2>2 DEF Moved, Thread
<1>3. (MarkerInv!1 /\ MarkerInv!3 /\ MarkerInv!4 /\ MarkerInv!5 /\ MarkerInv!6)'
  BY <1>1 DEF MarkerInv, EndedBadly
<1>4. (MarkerInv!2)'  BY <1>1, <1>2 DEF MarkerInv
<1>5. (MarkerInv!7)'
  <2>1. SUFFICES ASSUME marker_file[life] # NoFile
                 PROVE  /\ marker_file[life] = stage
                        /\ \/ markers' # {} \/ life \in faulted
                           \/ \E u \in Threads : thread'[u].pc \in {"has_fault", "rmMarker"}
    BY <1>1
  <2>2. \/ markers # {} \/ life \in faulted
        \/ \E u \in Threads \ {t} : thread[u].pc \in {"has_fault", "rmMarker"}
    BY <1>1, <2>1 DEF MarkerInv
  <2>3. CASE markers = {i}  BY <1>1, <1>2, <2>1, <2>3 DEF MarkerInv
  <2>4. CASE markers # {i} /\ markers # {}
    <3>1. markers' # {}  BY <1>1, <2>4
    <3>. QED  BY <1>1, <2>1, <3>1 DEF MarkerInv
  <2>5. CASE markers = {}  BY <1>1, <1>2, <2>1, <2>2, <2>5 DEF MarkerInv
  <2>. QED  BY <2>3, <2>4, <2>5
<1>6. (MarkerInv!8 /\ MarkerInv!9)'  BY <1>1 DEF MarkerInv
<1>. QED  BY <1>3, <1>4, <1>5, <1>6 DEF MarkerInv

LEMMA MarkerStep ==
  ASSUME TypeOK, ThreadInv, MarkerInv, SweepInv, [Next]_vars
  PROVE  MarkerInv'
<1>1. ASSUME NEW i \in Instances, InitializeCall(i) PROVE MarkerInv'
  <2>1. (MarkerInv!1 /\ MarkerInv!2 /\ MarkerInv!3 /\ MarkerInv!4)'
    BY <1>1, MarkerInv
       DEF InitializeCall, Call, Begin, At, session, sessionRest, reporterVars, history,
           TypeOK, SessionTypeOK, Idle, Threads, MarkerInv, EndedBadly, Detached
  <2>2. (MarkerInv!5)'
    BY <1>1, MarkerInv
       DEF InitializeCall, Call, Begin, At, session, sessionRest, reporterVars, history,
           TypeOK, SessionTypeOK, Idle, Threads, MarkerInv, EndedBadly, Detached
  <2>3. (MarkerInv!6)'
    BY <1>1, MarkerInv
       DEF InitializeCall, Call, Begin, At, session, sessionRest, reporterVars, history,
           TypeOK, SessionTypeOK, Idle, Threads, MarkerInv, EndedBadly, Detached
  <2>4. (MarkerInv!7)'
    BY <1>1, MarkerInv, ZenonT(40)
       DEF InitializeCall, Call, Begin, At, session, sessionRest, reporterVars, history,
           TypeOK, SessionTypeOK, Idle, Threads, MarkerInv, EndedBadly, Detached
  <2>5. (MarkerInv!8 /\ MarkerInv!9)'
    BY <1>1, MarkerInv
       DEF InitializeCall, Call, Begin, At, session, sessionRest, reporterVars, history,
           TypeOK, SessionTypeOK, Idle, Threads, MarkerInv, EndedBadly, Detached
  <2>. QED  BY <2>1, <2>2, <2>3, <2>4, <2>5 DEF MarkerInv
<1>2. ASSUME NEW i \in Instances,
             InitStamp(i) \/ InitDone(i) \/ Creating(i) \/ Opened(i) \/ Closing(i)
      PROVE  MarkerInv'
  <2>1. Stamping(i)  BY <1>2, StampsStamp
  <2>2. Alive(i) /\ life # 0 /\ ended[life] = "no"
    BY <2>1 DEF Stamping, ThreadInv, Calls, CallSteps, SyncSteps, MarkerInv, Threads
  <2>3. (MarkerInv!1)'
    BY <2>1, <2>2 DEF Stamping, TypeOK, SessionTypeOK, MarkerInv, Alive
  <2>7. \A t \in Threads : thread[t].pc \in Detached => thread[t].who # i
    BY <2>2 DEF ThreadInv, Buries, Detached, DeathSteps, Alive, Threads
  <2>8. (MarkerInv!2)'
    BY <2>1, <2>7 DEF Stamping, MarkerInv, Threads
  <2>9. (MarkerInv!3 /\ MarkerInv!4)'  BY <2>1, <2>2 DEF Stamping, MarkerInv
  <2>4. (MarkerInv!8 /\ MarkerInv!9)'
    BY <2>1, <2>2, LivesAreNat DEF Stamping, TypeOK, SessionTypeOK, MarkerInv
  <2>5. (MarkerInv!5 /\ MarkerInv!6)'
    BY <2>1, LivesAreNat DEF Stamping, TypeOK, SessionTypeOK, MarkerInv, EndedBadly
  <2>6. (MarkerInv!7)'
    BY <2>1 DEF Stamping, CallSteps, SyncSteps, TypeOK, SessionTypeOK, MarkerInv, Threads
  <2>. QED  BY <2>3, <2>8, <2>9, <2>4, <2>5, <2>6 DEF MarkerInv
<1>3. ASSUME NEW t \in Threads, NEW i \in Instances, Gone(t, i) PROVE MarkerInv'
  <2>1. /\ thread' = [thread EXCEPT ![t] = Idle] /\ inst' = [inst EXCEPT ![i] = "absent"]
        /\ thread[t].pc = "gone" /\ thread[t].who = i /\ i \notin markers
    BY <1>3 DEF Gone, At, Goto, Moved, TypeOK, MarkerInv, Detached
  <2>2. /\ up /\ UNCHANGED <<up, life, ended, last, owed, markers, stage, marker_file, armed, fresh, swept, faulted, flipped>>
        /\ covered' \subseteq covered
    BY <1>3 DEF Gone, At, sessionRest
  <2>3. \A u \in Threads : thread'[u].pc # "idle" => thread'[u] = thread[u] /\ u # t
    BY <2>1 DEF TypeOK, Idle
  <2>4. (MarkerInv!1 /\ MarkerInv!2)'  BY <2>1, <2>2, <2>3 DEF TypeOK, SessionTypeOK, MarkerInv,
                                                               Detached
  <2>5. (MarkerInv!7)'
    BY <2>1, <2>2 DEF TypeOK, MarkerInv
  <2>. QED  BY <2>2, <2>4, <2>5 DEF MarkerInv, EndedBadly
<1>4. ASSUME SweepList /\ SweepFrame PROVE MarkerInv'
  BY <1>4, LivesAreNat
     DEF SweepList, session, sessionRest, reporterVars, history, SweepFrame, At, TypeOK,
         SessionTypeOK, ThreadInv, Calls, Buries, CallSteps, SyncSteps, DropSteps, DeathSteps,
         Alive,
         Idle, Steps, Threads, MarkerInv, EndedBadly, Detached, NoThreads
<1>5. ASSUME NEW l \in Lives, SweepSkip(l) /\ SweepFrame PROVE MarkerInv'
  BY <1>5, LivesAreNat
     DEF SweepSkip, session, sessionRest, reporterVars, history, SweepFrame, At, TypeOK,
         SessionTypeOK, ThreadInv, Calls, Buries, CallSteps, SyncSteps, DropSteps, DeathSteps,
         Alive,
         Idle, Steps, Threads, MarkerInv, EndedBadly, Detached, NoThreads
<1>6. ASSUME NEW l \in Lives, NEW old \in BOOLEAN, SweepRead(l, old) /\ SweepFrame
      PROVE  MarkerInv'
  BY <1>6, LivesAreNat
     DEF SweepRead, Skips, session, sessionRest, reporterVars, history, SweepFrame, At,
         TypeOK, SessionTypeOK, ThreadInv, Calls, Buries, CallSteps, SyncSteps, DropSteps,
         DeathSteps,
         Alive, Idle, Steps, Threads, MarkerInv, EndedBadly, Detached, NoThreads
<1>7. ASSUME SweepRemove /\ SweepFrame PROVE MarkerInv'
  BY <1>7, LivesAreNat
     DEF SweepRemove, SweepInv, Sweeps, session, sessionRest, reporterVars, history,
         SweepFrame, At, TypeOK, SessionTypeOK, ThreadInv, Calls, Buries, CallSteps, SyncSteps,
         DropSteps, DeathSteps, Alive, Idle, Steps, Threads, MarkerInv, EndedBadly, Detached,
         NoThreads
<1>8. ASSUME SweepFaults /\ SweepFrame PROVE MarkerInv'
  BY <1>8, LivesAreNat
     DEF SweepFaults, Entry, session, sessionRest, reporterVars, history, SweepFrame, At,
         TypeOK, SessionTypeOK, ThreadInv, Calls, Buries, CallSteps, SyncSteps, DropSteps,
         DeathSteps,
         Alive, Idle, Steps, Threads, MarkerInv, EndedBadly, Detached, NoThreads
<1>9. ASSUME SweepReturn /\ SweepFrame PROVE MarkerInv'
  BY <1>9, LivesAreNat
     DEF SweepReturn, session, sessionRest, reporterVars, history, SweepFrame, At, TypeOK,
         SessionTypeOK, ThreadInv, Calls, Buries, CallSteps, SyncSteps, DropSteps, DeathSteps,
         Alive,
         Idle, Steps, Threads, MarkerInv, EndedBadly, Detached, NoThreads
<1>10. ASSUME SweepCapture(client) /\ SweepFrame PROVE MarkerInv'
  BY <1>10, LivesAreNat
     DEF SweepCapture, session, sessionRest, reporterVars, history, SweepFrame, At, TypeOK,
         SessionTypeOK, ThreadInv, Calls, Buries, CallSteps, SyncSteps, DropSteps, DeathSteps,
         Alive,
         Idle, Steps, Threads, MarkerInv, EndedBadly, Detached, NoThreads
<1>11. ASSUME Fault PROVE MarkerInv'
  BY <1>11, LivesAreNat
     DEF Fault, Record, record_fault, session, sessionRest, reporterVars, history, At, TypeOK,
         SessionTypeOK, ThreadInv, Calls, Buries, CallSteps, SyncSteps, DropSteps, DeathSteps,
         Alive,
         Idle, Steps, Threads, MarkerInv, EndedBadly, Detached, NoThreads
<1>12. ASSUME Crash PROVE MarkerInv'
  BY <1>12, LivesAreNat
     DEF Crash, Die, Held, NoneLoaded, NoThreads, Idle, session, sessionRest, reporterVars,
         history, At, TypeOK, SessionTypeOK, ThreadInv, Calls, Buries, CallSteps, SyncSteps,
         DropSteps,
         DeathSteps, Alive, Steps, Threads, MarkerInv, EndedBadly, Detached
<1>13. ASSUME Exit PROVE MarkerInv'
  BY <1>13, LivesAreNat
     DEF Exit, Die, Held, NoneLoaded, NoThreads, Idle, session, sessionRest, reporterVars,
         history, At, TypeOK, SessionTypeOK, ThreadInv, Calls, Buries, CallSteps, SyncSteps,
         DropSteps,
         DeathSteps, Alive, Steps, Threads, MarkerInv, EndedBadly, Detached
<1>14. ASSUME NEW t \in Threads, TransportPanic(t) PROVE MarkerInv'
  BY <1>14, LivesAreNat
     DEF TransportPanic, Record, record_fault, At, Die, Held, NoneLoaded, NoThreads, Idle,
         session, sessionRest, reporterVars, history, TypeOK, SessionTypeOK, ThreadInv, Calls,
         Buries, CallSteps, SyncSteps, DropSteps, DeathSteps, Alive, Steps, Threads, MarkerInv,
         EndedBadly, Detached
<1>15. ASSUME NEW clean \in BOOLEAN, NeighbourDies(clean) PROVE MarkerInv'
  <2>1. CASE clean
    <3>1. (MarkerInv!1 /\ MarkerInv!2 /\ MarkerInv!3 /\ MarkerInv!4)'
      BY <1>15, <2>1, LivesAreNat
         DEF NeighbourDies, session, sessionRest, reporterVars, history, TypeOK,
             SessionTypeOK, Threads, MarkerInv, EndedBadly
    <3>2. (MarkerInv!5)'
      BY <1>15, <2>1, LivesAreNat
         DEF NeighbourDies, session, sessionRest, reporterVars, history, TypeOK,
             SessionTypeOK, Threads, MarkerInv, EndedBadly
    <3>3. (MarkerInv!6)'
      BY <1>15, <2>1, LivesAreNat
         DEF NeighbourDies, session, sessionRest, reporterVars, history, TypeOK,
             SessionTypeOK, Threads, MarkerInv, EndedBadly
    <3>4. (MarkerInv!7)'
      BY <1>15, <2>1, LivesAreNat
         DEF NeighbourDies, session, sessionRest, reporterVars, history, TypeOK,
             SessionTypeOK, Threads, MarkerInv, EndedBadly
    <3>5. (MarkerInv!8 /\ MarkerInv!9)'
      BY <1>15, <2>1, LivesAreNat
         DEF NeighbourDies, session, sessionRest, reporterVars, history, TypeOK,
             SessionTypeOK, Threads, MarkerInv, EndedBadly
    <3>. QED  BY <3>1, <3>2, <3>3, <3>4, <3>5 DEF MarkerInv
  <2>2. CASE ~clean
    <3>1. (MarkerInv!1 /\ MarkerInv!2 /\ MarkerInv!3 /\ MarkerInv!4)'
      BY <1>15, <2>2, LivesAreNat
         DEF NeighbourDies, session, sessionRest, reporterVars, history, TypeOK,
             SessionTypeOK, Threads, MarkerInv, EndedBadly
    <3>2. (MarkerInv!5)'
      BY <1>15, <2>2, LivesAreNat
         DEF NeighbourDies, session, sessionRest, reporterVars, history, TypeOK,
             SessionTypeOK, Threads, MarkerInv, EndedBadly
    <3>3. (MarkerInv!6)'
      BY <1>15, <2>2, LivesAreNat
         DEF NeighbourDies, session, sessionRest, reporterVars, history, TypeOK,
             SessionTypeOK, Threads, MarkerInv, EndedBadly
    <3>4. (MarkerInv!7)'
      BY <1>15, <2>2, LivesAreNat
         DEF NeighbourDies, session, sessionRest, reporterVars, history, TypeOK,
             SessionTypeOK, Threads, MarkerInv, EndedBadly
    <3>6. ended' = [ended EXCEPT ![0] = "crash"] /\ owed' = owed \cup {0}
      BY <1>15, <2>2 DEF NeighbourDies
    <3>5. (MarkerInv!8 /\ MarkerInv!9)'
      BY <3>6, LivesAreNat DEF TypeOK, SessionTypeOK, MarkerInv
    <3>. QED  BY <3>1, <3>2, <3>3, <3>4, <3>5 DEF MarkerInv
  <2>. QED
    BY <1>15, <2>1, <2>2 DEF NeighbourDies, TypeOK, Idle
<1>16. CASE UNCHANGED vars
  BY <1>16
     DEF session, sessionRest, reporterVars, history, vars, TypeOK, SessionTypeOK, ThreadInv,
         Calls, Buries, CallSteps, SyncSteps, DropSteps, DeathSteps, Alive, Idle, Threads,
         MarkerInv,
         EndedBadly, Detached, NoThreads
<1>17. ASSUME NEW t \in Threads, Arming(t) PROVE MarkerInv'
  <2>1. PICK s \in Steps \ Detached : Goto(t, s)
    BY <1>17 DEF Arming, SyncSteps, DropSteps, Steps, Detached, ThreadInv, Calls, Buries,
                 CallSteps, SyncSteps, DeathSteps
  <2>2. thread[t].pc \notin Detached  BY <1>17 DEF Arming, SyncSteps, DropSteps, Detached
  <2>3. /\ thread'[t].pc \notin Detached
        /\ \A u \in Threads : u # t => thread'[u] = thread[u]
    BY <2>1, MovedType DEF Goto, TypeOK, Detached, Idle
  <2>. QED  BY <1>17, <2>2, <2>3 DEF Arming, MarkerInv, EndedBadly, sessionRest, Detached
<1> USE MovedType, LivesAreNat
   DEF session, sessionRest, reporterVars, history, vars, SweepFrame, At, Goto, TypeOK,
       SessionTypeOK, ThreadInv, Calls, Buries, CallSteps, SyncSteps, DropSteps, DeathSteps,
       Alive, Idle,
       Steps, Threads, MarkerInv, EndedBadly, Detached, NoThreads
<1>18. ASSUME Start PROVE MarkerInv'  BY <1>18, SessionAssumption DEF Start, Lives
<1>19. ASSUME NEW i \in Instances, Load(i) PROVE MarkerInv'  BY <1>19 DEF Load
<1>20. ASSUME NEW i \in Instances, FrameCall(i) PROVE MarkerInv'
  BY <1>20 DEF FrameCall, Call, Begin
<1>21. ASSUME NEW i \in Instances, OpenCall(i) PROVE MarkerInv'
  BY <1>21 DEF OpenCall, Call, Begin
<1>22. ASSUME NEW i \in Instances, CloseCall(i) PROVE MarkerInv'
  BY <1>22 DEF CloseCall, Call, Begin
<1>23. ASSUME NEW i \in Instances, NEW t \in Threads, Destroy(t, i) PROVE MarkerInv'
  BY <1>23 DEF Destroy, Begin, FirstField, After
<1>24. ASSUME Answer PROVE MarkerInv'  BY <1>24 DEF Answer
<1>25. ASSUME NEW t \in Threads, NEW i \in Instances, DropMarker(t, i) PROVE MarkerInv'
  BY <1>25, MarkerDropped
<1>26. ASSUME NEW t \in Threads, HasFault(t) PROVE MarkerInv'
  BY <1>26 DEF HasFault, has_fault, After, FirstField
<1>27. ASSUME NEW t \in Threads, RemoveMarker(t) PROVE MarkerInv'
  BY <1>27 DEF RemoveMarker, Overtaken, remove_marker
<1>28. ASSUME NEW t \in Threads, RemoveFault(t) PROVE MarkerInv'
  BY <1>28 DEF RemoveFault, remove_fault, After, FirstField
<1> HIDE MovedType, LivesAreNat
   DEF session, sessionRest, reporterVars, history, vars, SweepFrame, At, Goto, TypeOK,
       SessionTypeOK, ThreadInv, Calls, Buries, CallSteps, SyncSteps, DropSteps, DeathSteps,
       Alive, Idle,
       Steps, Threads, MarkerInv, EndedBadly, Detached, NoThreads
<1>. QED
  BY <1>1, <1>2, <1>3, <1>4, <1>5, <1>6, <1>7, <1>8, <1>9, <1>10, <1>11, <1>12, <1>13, <1>14,
     <1>15, <1>16, <1>17, <1>18, <1>19, <1>20, <1>21, <1>22, <1>23, <1>24, <1>25, <1>26, <1>27,
     <1>28, ArmsQuietly
     DEF Next, HostStep, PluginStep, StampStep, TeardownStep, SweepStep, SweepFrame

-----------------------------------------------------------------------------
(***************************************************************************)
(* The sweep, and what it reports.                                         *)
(***************************************************************************)
LEMMA SweepInvStep ==
  ASSUME TypeOK, ThreadInv, MarkerInv, SweepInv, [Next]_vars
  PROVE  SweepInv'
<1>1. ASSUME SweepFaults /\ SweepFrame PROVE SweepInv'
  <2> DEFINE entry == [life |-> sweep.pid, stage |-> sweep.read, faults |-> fault_file[sweep.pid] = "record"]
             keep == sweep.read # NoFile /\ Len(sweep.found) < MaxReports
  <2>1. /\ sweep.found \in Seq(Entry) /\ sweep.step = "faults"
        /\ sweep'.step = "check"
        /\ sweep'.found = IF keep THEN Append(sweep.found, entry) ELSE sweep.found
        /\ UNCHANGED <<ended, last, owed, swept>>
    BY <1>1 DEF SweepFaults, SweepFrame, reporterVars, TypeOK, SessionTypeOK, Sweeps
  <2>2. keep => EndedBadly(entry.life) /\ entry.stage = last[entry.life]  BY <2>1 DEF SweepInv
  <2>3. ASSUME NEW k \in 1 .. Len(sweep'.found)
        PROVE  EndedBadly(sweep'.found[k].life) /\ sweep'.found[k].stage = last[sweep'.found[k].life]
    <3>1. CASE k \in 1 .. Len(sweep.found)
      <4>1. sweep'.found[k] = sweep.found[k]  BY <2>1, <3>1
      <4>. QED  BY <4>1, <3>1 DEF SweepInv
    <3>2. CASE k \notin 1 .. Len(sweep.found)
      <4>1. keep /\ sweep'.found[k] = entry  BY <2>1, <2>3, <3>2
      <4>. QED  BY <4>1, <2>2
    <3>. QED  BY <3>1, <3>2
  <2>. QED  BY <2>1, <2>3 DEF SweepInv, EndedBadly
<1>2. ASSUME SweepReturn /\ SweepFrame PROVE SweepInv'
  <2>1. CASE sweep.found = <<>>  BY <1>2, <2>1 DEF SweepReturn, SweepFrame, SweepInv, NoSweep
  <2>2. CASE sweep.found # <<>>
    BY <1>2, <2>2
       DEF SweepReturn, SweepFrame, reporterVars, SweepInv, EndedBadly, TypeOK, SessionTypeOK,
           Sweeps
  <2>. QED  BY <2>1, <2>2
<1>3. ASSUME SweepCapture(client) /\ SweepFrame PROVE SweepInv'
  <2> DEFINE rest == Tail(sweep.found)
  <2>1. /\ sweep.found \in Seq(Entry) /\ sweep.found # <<>> /\ sweep.step = "capture"
        /\ UNCHANGED <<ended, last, owed, swept>>
        /\ sweep' = IF rest = <<>> THEN NoSweep ELSE [sweep EXCEPT !.found = rest]
    BY <1>3 DEF SweepCapture, SweepInv, SweepFrame, reporterVars, TypeOK, SessionTypeOK, Sweeps
  <2>2. rest \in Seq(Entry) /\ Len(rest) = Len(sweep.found) - 1
    BY <2>1
  <2>3. \A k \in 1 .. Len(rest) : rest[k] = sweep.found[k + 1] /\ k + 1 \in 1 .. Len(sweep.found)
    BY <2>1, <2>2
  <2>4. CASE rest = <<>>  BY <2>1, <2>4 DEF SweepInv, NoSweep
  <2>5. CASE rest # <<>>
    <3>1. sweep'.found = rest /\ sweep'.step = "capture"
      BY <2>1, <2>5 DEF TypeOK, SessionTypeOK, Sweeps
    <3>. HIDE DEF rest
    <3>2. \A k \in 1 .. Len(rest) : EndedBadly(rest[k].life) /\ rest[k].stage = last[rest[k].life]
      BY <2>3 DEF SweepInv
    <3>. QED  BY <2>1, <2>5, <3>1, <3>2 DEF SweepInv, EndedBadly
  <2>. QED  BY <2>4, <2>5
<1>4. CASE UNCHANGED vars
  BY <1>4
     DEF session, sessionRest, reporterVars, history, vars, TypeOK, SessionTypeOK, SweepInv,
         EndedBadly
<1>5. ASSUME NEW t \in Threads, Arming(t) PROVE SweepInv'
  BY <1>5 DEF Arming, sessionRest, SweepInv, EndedBadly, TypeOK, SessionTypeOK, Sweeps
<1> USE LivesAreNat
   DEF session, sessionRest, reporterVars, history, vars, SweepFrame, At, Goto, TypeOK,
       SessionTypeOK, SweepInv, EndedBadly
<1>6. ASSUME Start PROVE SweepInv'  BY <1>6 DEF Start, MarkerInv
<1>7. ASSUME NEW i \in Instances, Load(i) PROVE SweepInv'  BY <1>7 DEF Load
<1>8. ASSUME NEW i \in Instances, InitializeCall(i) PROVE SweepInv'
  BY <1>8 DEF InitializeCall, Call, Begin
<1>9. ASSUME NEW i \in Instances, FrameCall(i) PROVE SweepInv'
  BY <1>9 DEF FrameCall, Call, Begin
<1>10. ASSUME NEW i \in Instances, OpenCall(i) PROVE SweepInv'
  BY <1>10 DEF OpenCall, Call, Begin
<1>11. ASSUME NEW i \in Instances, CloseCall(i) PROVE SweepInv'
  BY <1>11 DEF CloseCall, Call, Begin
<1>12. ASSUME NEW i \in Instances, NEW t \in Threads, Destroy(t, i) PROVE SweepInv'
  BY <1>12 DEF Destroy, Begin, FirstField, After
<1>13. ASSUME Answer PROVE SweepInv'  BY <1>13 DEF Answer
<1>14. ASSUME NEW i \in Instances, InitStamp(i) PROVE SweepInv'
  BY <1>14
     DEF InitStamp, Stamp, set_stage_if, Attach, create, Advance, write, not_editor, is_editor
<1>15. ASSUME NEW i \in Instances, InitDone(i) PROVE SweepInv'
  BY <1>15
     DEF InitDone, Stamp, set_stage_if, Attach, create, Advance, write, not_editor, is_editor
<1>16. ASSUME NEW i \in Instances, Creating(i) PROVE SweepInv'
  BY <1>16
     DEF Creating, Stamp, set_stage_if, Attach, create, Advance, write, not_editor, is_editor
<1>17. ASSUME NEW i \in Instances, Opened(i) PROVE SweepInv'
  BY <1>17
     DEF Opened, Stamp, set_stage_if, Attach, create, Advance, write, not_editor, is_editor
<1>18. ASSUME NEW i \in Instances, Closing(i) PROVE SweepInv'
  BY <1>18
     DEF Closing, Stamp, set_stage_if, Attach, create, Advance, write, not_editor, is_editor
<1>19. ASSUME NEW t \in Threads, NEW i \in Instances, DropMarker(t, i) PROVE SweepInv'
  BY <1>19 DEF DropMarker, After, FirstField
<1>20. ASSUME NEW t \in Threads, HasFault(t) PROVE SweepInv'
  BY <1>20 DEF HasFault, has_fault, After, FirstField
<1>21. ASSUME NEW t \in Threads, RemoveMarker(t) PROVE SweepInv'
  BY <1>21 DEF RemoveMarker, Overtaken, remove_marker
<1>22. ASSUME NEW t \in Threads, RemoveFault(t) PROVE SweepInv'
  BY <1>22 DEF RemoveFault, remove_fault, After, FirstField
<1>23. ASSUME NEW t \in Threads, NEW i \in Instances, Gone(t, i) PROVE SweepInv'
  BY <1>23 DEF Gone, NoSweep
<1>24. ASSUME SweepList /\ SweepFrame PROVE SweepInv'  BY <1>24 DEF SweepList, Sweeps
<1>25. ASSUME NEW l \in Lives, SweepSkip(l) /\ SweepFrame PROVE SweepInv'
  BY <1>25 DEF SweepSkip, Sweeps
<1>26. ASSUME NEW l \in Lives, NEW old \in BOOLEAN, SweepRead(l, old) /\ SweepFrame
      PROVE  SweepInv'
  BY <1>26 DEF SweepRead, Skips, MarkerInv, Sweeps
<1>27. ASSUME SweepRemove /\ SweepFrame PROVE SweepInv'  BY <1>27 DEF SweepRemove, Sweeps
<1>28. ASSUME Fault PROVE SweepInv'  BY <1>28 DEF Fault, Record, record_fault
<1>29. ASSUME Crash PROVE SweepInv'
  BY <1>29 DEF Crash, Die, Held, NoneLoaded, NoThreads, Idle, NoSweep
<1>30. ASSUME Exit PROVE SweepInv'
  BY <1>30 DEF Exit, Die, Held, NoneLoaded, NoThreads, Idle, NoSweep
<1>31. ASSUME NEW t \in Threads, TransportPanic(t) PROVE SweepInv'
  BY <1>31
     DEF TransportPanic, Record, record_fault, Die, Held, NoneLoaded, NoThreads, Idle, NoSweep
<1>32. ASSUME NEW clean \in BOOLEAN, NeighbourDies(clean) PROVE SweepInv'
  BY <1>32 DEF NeighbourDies, MarkerInv, Sweeps
<1> HIDE LivesAreNat
   DEF session, sessionRest, reporterVars, history, vars, SweepFrame, At, Goto, TypeOK,
       SessionTypeOK, SweepInv, EndedBadly
<1>. QED
  BY <1>1, <1>2, <1>3, <1>4, <1>5, <1>6, <1>7, <1>8, <1>9, <1>10, <1>11, <1>12, <1>13, <1>14,
     <1>15, <1>16, <1>17, <1>18, <1>19, <1>20, <1>21, <1>22, <1>23, <1>24, <1>25, <1>26, <1>27,
     <1>28, <1>29, <1>30, <1>31, <1>32, ArmsQuietly
     DEF Next, HostStep, PluginStep, StampStep, TeardownStep, SweepStep, SweepFrame

LEMMA TrueStep ==
  ASSUME TypeOK, ThreadInv, MarkerInv, SweepInv, ReportsAreTrue, [Next]_vars
  PROVE  ReportsAreTrue'
<1>1. ASSUME SweepCapture(client) /\ SweepFrame PROVE ReportsAreTrue'
  <2>1. sweep.found \in Seq(Entry) /\ sweep.found # <<>>
    BY <1>1 DEF SweepCapture, SweepInv, TypeOK, SessionTypeOK, Sweeps
  <2>2. 1 \in 1 .. Len(sweep.found) /\ Head(sweep.found) = sweep.found[1]  BY <2>1
  <2>3. EndedBadly(Head(sweep.found).life) /\ Head(sweep.found).stage = last[Head(sweep.found).life]
    BY <2>2 DEF SweepInv
  <2>4. reports' \subseteq reports \cup {Head(sweep.found)} /\ UNCHANGED <<ended, last, owed>>
    BY <1>1 DEF SweepCapture, SweepFrame
  <2>. QED  BY <2>3, <2>4 DEF ReportsAreTrue, EndedBadly
<1>2. CASE UNCHANGED vars
  BY <1>2
     DEF session, sessionRest, reporterVars, history, vars, TypeOK, SessionTypeOK,
         ReportsAreTrue
<1>3. ASSUME NEW t \in Threads, Arming(t) PROVE ReportsAreTrue'
  BY <1>3 DEF Arming, sessionRest, ReportsAreTrue
<1> USE DEF session, sessionRest, reporterVars, history, vars, SweepFrame, At, Goto, TypeOK,
       SessionTypeOK, ReportsAreTrue
<1>4. ASSUME Start PROVE ReportsAreTrue'  BY <1>4 DEF Start
<1>5. ASSUME NEW i \in Instances, Load(i) PROVE ReportsAreTrue'  BY <1>5 DEF Load
<1>6. ASSUME NEW i \in Instances, InitializeCall(i) PROVE ReportsAreTrue'
  BY <1>6 DEF InitializeCall, Call, Begin
<1>7. ASSUME NEW i \in Instances, FrameCall(i) PROVE ReportsAreTrue'
  BY <1>7 DEF FrameCall, Call, Begin
<1>8. ASSUME NEW i \in Instances, OpenCall(i) PROVE ReportsAreTrue'
  BY <1>8 DEF OpenCall, Call, Begin
<1>9. ASSUME NEW i \in Instances, CloseCall(i) PROVE ReportsAreTrue'
  BY <1>9 DEF CloseCall, Call, Begin
<1>10. ASSUME NEW i \in Instances, NEW t \in Threads, Destroy(t, i) PROVE ReportsAreTrue'
  BY <1>10 DEF Destroy, Begin, FirstField, After
<1>11. ASSUME Answer PROVE ReportsAreTrue'  BY <1>11 DEF Answer
<1>12. ASSUME NEW i \in Instances, InitStamp(i) PROVE ReportsAreTrue'
  BY <1>12
     DEF InitStamp, Stamp, set_stage_if, Attach, create, Advance, write, not_editor, is_editor
<1>13. ASSUME NEW i \in Instances, InitDone(i) PROVE ReportsAreTrue'
  BY <1>13
     DEF InitDone, Stamp, set_stage_if, Attach, create, Advance, write, not_editor, is_editor
<1>14. ASSUME NEW i \in Instances, Creating(i) PROVE ReportsAreTrue'
  BY <1>14
     DEF Creating, Stamp, set_stage_if, Attach, create, Advance, write, not_editor, is_editor
<1>15. ASSUME NEW i \in Instances, Opened(i) PROVE ReportsAreTrue'
  BY <1>15
     DEF Opened, Stamp, set_stage_if, Attach, create, Advance, write, not_editor, is_editor
<1>16. ASSUME NEW i \in Instances, Closing(i) PROVE ReportsAreTrue'
  BY <1>16
     DEF Closing, Stamp, set_stage_if, Attach, create, Advance, write, not_editor, is_editor
<1>17. ASSUME NEW t \in Threads, NEW i \in Instances, DropMarker(t, i) PROVE ReportsAreTrue'
  BY <1>17 DEF DropMarker, After, FirstField
<1>18. ASSUME NEW t \in Threads, HasFault(t) PROVE ReportsAreTrue'
  BY <1>18 DEF HasFault, has_fault, After, FirstField
<1>19. ASSUME NEW t \in Threads, RemoveMarker(t) PROVE ReportsAreTrue'
  BY <1>19 DEF RemoveMarker, Overtaken, remove_marker
<1>20. ASSUME NEW t \in Threads, RemoveFault(t) PROVE ReportsAreTrue'
  BY <1>20 DEF RemoveFault, remove_fault, After, FirstField
<1>21. ASSUME NEW t \in Threads, NEW i \in Instances, Gone(t, i) PROVE ReportsAreTrue'
  BY <1>21 DEF Gone
<1>22. ASSUME SweepList /\ SweepFrame PROVE ReportsAreTrue'  BY <1>22 DEF SweepList
<1>23. ASSUME NEW l \in Lives, SweepSkip(l) /\ SweepFrame PROVE ReportsAreTrue'
  BY <1>23 DEF SweepSkip
<1>24. ASSUME NEW l \in Lives, NEW old \in BOOLEAN, SweepRead(l, old) /\ SweepFrame
      PROVE  ReportsAreTrue'
  BY <1>24 DEF SweepRead, Skips
<1>25. ASSUME SweepRemove /\ SweepFrame PROVE ReportsAreTrue'  BY <1>25 DEF SweepRemove
<1>26. ASSUME SweepFaults /\ SweepFrame PROVE ReportsAreTrue'  BY <1>26 DEF SweepFaults, Entry
<1>27. ASSUME SweepReturn /\ SweepFrame PROVE ReportsAreTrue'  BY <1>27 DEF SweepReturn
<1>28. ASSUME Fault PROVE ReportsAreTrue'  BY <1>28 DEF Fault, Record, record_fault
<1>29. ASSUME Crash PROVE ReportsAreTrue'
  BY <1>29 DEF Crash, Die, Held, NoneLoaded, NoThreads, Idle, MarkerInv, Entry
<1>30. ASSUME Exit PROVE ReportsAreTrue'
  BY <1>30 DEF Exit, Die, Held, NoneLoaded, NoThreads, Idle, MarkerInv, Entry
<1>31. ASSUME NEW t \in Threads, TransportPanic(t) PROVE ReportsAreTrue'
  BY <1>31
     DEF TransportPanic, Record, record_fault, Die, Held, NoneLoaded, NoThreads, Idle,
         MarkerInv, Entry
<1>32. ASSUME NEW clean \in BOOLEAN, NeighbourDies(clean) PROVE ReportsAreTrue'
  BY <1>32 DEF NeighbourDies, MarkerInv, Entry
<1> HIDE DEF session, sessionRest, reporterVars, history, vars, SweepFrame, At, Goto, TypeOK,
       SessionTypeOK, ReportsAreTrue
<1>. QED
  BY <1>1, <1>2, <1>3, <1>4, <1>5, <1>6, <1>7, <1>8, <1>9, <1>10, <1>11, <1>12, <1>13, <1>14,
     <1>15, <1>16, <1>17, <1>18, <1>19, <1>20, <1>21, <1>22, <1>23, <1>24, <1>25, <1>26, <1>27,
     <1>28, <1>29, <1>30, <1>31, <1>32, ArmsQuietly
     DEF Next, HostStep, PluginStep, StampStep, TeardownStep, SweepStep, SweepFrame

-----------------------------------------------------------------------------
SafeInv == TypeOK /\ ThreadInv /\ MarkerInv /\ SweepInv /\ ReportsAreTrue

LEMMA SafeInit == ASSUME Init PROVE SafeInv
<1>1. TypeOK
  BY NoSweepType, LivesAreNat, ThreadFields
  DEF Init, SessionInit, NoneLoaded, TypeOK, SessionTypeOK, Stage, EditorStage
<1>2. ThreadInv
  BY DEF Init, NoThreads, Idle, ThreadInv, Calls, Buries, CallSteps, SyncSteps, DropSteps,
         DeathSteps, Threads
<1>3. MarkerInv
  BY LivesAreNat
  DEF Init, SessionInit, NoThreads, Idle, MarkerInv, Detached, EndedBadly, Threads
<1>4. SweepInv /\ ReportsAreTrue
  BY DEF Init, SessionInit, NoSweep, SweepInv, ReportsAreTrue
<1>. QED  BY <1>1, <1>2, <1>3, <1>4 DEF SafeInv

LEMMA SafeStep == ASSUME SafeInv, [Next]_vars PROVE SafeInv'
BY TypeStep, ThreadStep, MarkerStep, SweepInvStep, TrueStep DEF SafeInv

(***************************************************************************)
(* No report of a host still running or of a clean exit, at any instance   *)
(* count, on whatever thread an instance dies.                             *)
(***************************************************************************)
THEOREM ReportsTrue == Spec => []ReportsAreTrue
<1>1. SafeInv => ReportsAreTrue  BY DEF SafeInv
<1>. QED  BY SafeInit, SafeStep, <1>1, PTL DEF Spec

-----------------------------------------------------------------------------
(***************************************************************************)
(* Faults, and the deaths that are owed.                                   *)
(***************************************************************************)
LEMMA FaultStep ==
  ASSUME TypeOK, ThreadInv, MarkerInv, SweepInv, FaultInv, [Next]_vars
  PROVE  FaultInv'
<1>1. ASSUME NEW i \in Instances,
             InitStamp(i) \/ InitDone(i) \/ Creating(i) \/ Opened(i) \/ Closing(i)
      PROVE  FaultInv'
  <2>1. Stamping(i)  BY <1>1, StampsStamp
  <2>2. thread["main"].pc \notin Detached  BY <2>1 DEF Stamping, CallSteps, SyncSteps, Detached
  <2>3. ASSUME life \notin wiped,
               markers' # {} \/ life \in faulted \/ \E t \in Threads : thread'[t].pc = "has_fault"
        PROVE  marker_file'[life] = stage'
    <3>1. markers # {} \/ markers' # {} \/ life \in faulted
            \/ \E t \in Threads : thread[t].pc = "has_fault"
      BY <2>1, <2>3 DEF Stamping, Detached, Threads
    <3>. QED  BY <2>1, <2>3, <3>1 DEF Stamping, FaultInv, TypeOK, SessionTypeOK
  <2>4. \A t \in Threads : thread[t].pc \in Detached => thread'[t] = thread[t]
    BY <2>1, <2>2 DEF Stamping
  <2>5. covered' \subseteq
          markers' \cup {thread'[t].who : t \in {u \in Threads : thread'[u].pc \in Detached}}
    BY <2>1, <2>4 DEF Stamping, FaultInv
  <2>. QED
    BY <2>1, <2>3, <2>5 DEF Stamping, FaultInv
<1>2. CASE UNCHANGED vars
  BY <1>2
     DEF session, sessionRest, reporterVars, history, vars, TypeOK, SessionTypeOK, FaultInv,
         MarkerInv, Idle, Threads, Detached
<1>3. ASSUME NEW t \in Threads, Arming(t) PROVE FaultInv'
  <2>1. PICK s \in Steps \ Detached : Goto(t, s)
    BY <1>3 DEF Arming, SyncSteps, DropSteps, Steps, Detached, ThreadInv, Calls, Buries,
                CallSteps, SyncSteps, DeathSteps
  <2>2. thread[t].pc \notin Detached  BY <1>3 DEF Arming, SyncSteps, DropSteps, Detached
  <2>3. /\ thread'[t].pc \notin Detached
        /\ \A u \in Threads : u # t => thread'[u] = thread[u]
    BY <2>1, MovedType DEF Goto, TypeOK, Detached, Idle
  <2>. QED  BY <1>3, <2>2, <2>3 DEF Arming, FaultInv, sessionRest, Detached, TypeOK, SessionTypeOK
<1> USE MovedType, LivesAreNat
   DEF session, sessionRest, reporterVars, history, vars, SweepFrame, At, Goto, TypeOK,
       SessionTypeOK, FaultInv, MarkerInv, Idle, Steps, Threads, Detached
<1>4. ASSUME Start PROVE FaultInv'  BY <1>4, SessionAssumption DEF Start, Lives, NoThreads
<1>5. ASSUME NEW i \in Instances, Load(i) PROVE FaultInv'  BY <1>5 DEF Load
<1>6. ASSUME NEW i \in Instances, InitializeCall(i) PROVE FaultInv'
  BY <1>6 DEF InitializeCall, Call, Begin
<1>7. ASSUME NEW i \in Instances, FrameCall(i) PROVE FaultInv'
  BY <1>7 DEF FrameCall, Call, Begin
<1>8. ASSUME NEW i \in Instances, OpenCall(i) PROVE FaultInv'
  BY <1>8 DEF OpenCall, Call, Begin
<1>9. ASSUME NEW i \in Instances, CloseCall(i) PROVE FaultInv'
  BY <1>9 DEF CloseCall, Call, Begin
<1>10. ASSUME NEW i \in Instances, NEW t \in Threads, Destroy(t, i) PROVE FaultInv'
  BY <1>10 DEF Destroy, Begin, FirstField, After, DeathSteps
<1>11. ASSUME Answer PROVE FaultInv'  BY <1>11 DEF Answer
<1>12. ASSUME NEW t \in Threads, NEW i \in Instances, DropMarker(t, i) PROVE FaultInv'
  BY <1>12, SMTT(20) DEF DropMarker, After, FirstField, ThreadInv, Buries, DeathSteps, DropSteps
<1>13. ASSUME NEW t \in Threads, HasFault(t) PROVE FaultInv'
  BY <1>13 DEF HasFault, has_fault, After, FirstField
<1>14. ASSUME NEW t \in Threads, RemoveMarker(t) PROVE FaultInv'
  BY <1>14 DEF RemoveMarker, Overtaken, remove_marker
<1>15. ASSUME NEW t \in Threads, RemoveFault(t) PROVE FaultInv'
  BY <1>15 DEF RemoveFault, remove_fault, After, FirstField
<1>16. ASSUME NEW t \in Threads, NEW i \in Instances, Gone(t, i) PROVE FaultInv'
  BY <1>16 DEF Gone
<1>17. ASSUME SweepList /\ SweepFrame PROVE FaultInv'  BY <1>17 DEF SweepList
<1>18. ASSUME NEW l \in Lives, SweepSkip(l) /\ SweepFrame PROVE FaultInv'
  BY <1>18 DEF SweepSkip
<1>19. ASSUME NEW l \in Lives, NEW old \in BOOLEAN, SweepRead(l, old) /\ SweepFrame
      PROVE  FaultInv'
  BY <1>19 DEF SweepRead, Skips
<1>20. ASSUME SweepRemove /\ SweepFrame PROVE FaultInv'
  BY <1>20 DEF SweepRemove, SweepInv, Sweeps
<1>21. ASSUME SweepFaults /\ SweepFrame PROVE FaultInv'
  BY <1>21 DEF SweepFaults, Entry, SweepInv, Sweeps
<1>22. ASSUME SweepReturn /\ SweepFrame PROVE FaultInv'  BY <1>22 DEF SweepReturn
<1>23. ASSUME SweepCapture(client) /\ SweepFrame PROVE FaultInv'  BY <1>23 DEF SweepCapture
<1>24. ASSUME Fault PROVE FaultInv'  BY <1>24 DEF Fault, Record, record_fault
<1>25. ASSUME Crash PROVE FaultInv'  BY <1>25 DEF Crash, Die, Held, NoneLoaded, NoThreads
<1>26. ASSUME Exit PROVE FaultInv'  BY <1>26 DEF Exit, Die, Held, NoneLoaded, NoThreads
<1>27. ASSUME NEW t \in Threads, TransportPanic(t) PROVE FaultInv'
  BY <1>27 DEF TransportPanic, Record, record_fault, Die, Held, NoneLoaded, NoThreads
<1>28. ASSUME NEW clean \in BOOLEAN, NeighbourDies(clean) PROVE FaultInv'
  BY <1>28 DEF NeighbourDies
<1> HIDE MovedType, LivesAreNat
   DEF session, sessionRest, reporterVars, history, vars, SweepFrame, At, Goto, TypeOK,
       SessionTypeOK, FaultInv, MarkerInv, Idle, Steps, Threads, Detached
<1>. QED
  BY <1>1, <1>2, <1>3, <1>4, <1>5, <1>6, <1>7, <1>8, <1>9, <1>10, <1>11, <1>12, <1>13, <1>14,
     <1>15, <1>16, <1>17, <1>18, <1>19, <1>20, <1>21, <1>22, <1>23, <1>24, <1>25, <1>26, <1>27,
     <1>28, ArmsQuietly
     DEF Next, HostStep, PluginStep, StampStep, TeardownStep, SweepStep, SweepFrame

LEMMA AccountedStep ==
  ASSUME TypeOK, ThreadInv, MarkerInv, SweepInv, FaultInv, DeathsAccountedFor, [Next]_vars
  PROVE  DeathsAccountedFor'
<1>1. ASSUME NEW i \in Instances,
             InitStamp(i) \/ InitDone(i) \/ Creating(i) \/ Opened(i) \/ Closing(i)
      PROVE  DeathsAccountedFor'
  <2>1. Stamping(i)  BY <1>1, StampsStamp
  <2>2. life \notin owed  BY <2>1 DEF Stamping, MarkerInv
  <2>3. UNCHANGED <<sweep, reports, lost>>
    BY <1>1 DEF InitStamp, InitDone, Creating, Opened, Closing, Stamp
  <2>. QED  BY <2>1, <2>2, <2>3 DEF Stamping, Held, DeathsAccountedFor, TypeOK, SessionTypeOK
<1>2. ASSUME NEW t \in Threads, NEW i \in Instances, Gone(t, i) PROVE DeathsAccountedFor'
  <2>1. Held' = Held
    BY <1>2 DEF Gone, Held, SweepInv, NoSweep, TypeOK, SessionTypeOK, Sweeps
  <2>. QED  BY <1>2, <2>1 DEF Gone, DeathsAccountedFor, sessionRest
<1>3. ASSUME NEW l \in Lives, NEW old \in BOOLEAN, SweepRead(l, old) /\ SweepFrame
      PROVE  DeathsAccountedFor'
  <2>1. Held' = Held \cup {l} /\ UNCHANGED <<marker_file, last, owed, reports, wiped>> /\ lost \subseteq lost'
    BY <1>3 DEF SweepRead, SweepFrame, history, Held
  <2>. QED  BY <2>1 DEF DeathsAccountedFor
<1>4. ASSUME SweepRemove /\ SweepFrame PROVE DeathsAccountedFor'
  <2>1. Held' = Held /\ sweep.pid \in Held /\ UNCHANGED <<last, owed, reports, lost, wiped>>
    BY <1>4 DEF SweepRemove, SweepFrame, history, Held, TypeOK, SessionTypeOK, Sweeps
  <2>2. \A l \in Lives \ {sweep.pid} : marker_file'[l] = marker_file[l]
    BY <1>4 DEF SweepRemove, TypeOK, SessionTypeOK
  <2>. QED  BY <2>1, <2>2 DEF DeathsAccountedFor, TypeOK, SessionTypeOK
<1>5. ASSUME SweepFaults /\ SweepFrame PROVE DeathsAccountedFor'
  <2> DEFINE entry == [life |-> sweep.pid, stage |-> sweep.read, faults |-> fault_file[sweep.pid] = "record"]
             keep == sweep.read # NoFile /\ Len(sweep.found) < MaxReports
             next == IF keep THEN Append(sweep.found, entry) ELSE sweep.found
  <2>1. /\ sweep.found \in Seq(Entry) /\ sweep.step = "faults" /\ sweep'.found = next
        /\ UNCHANGED <<marker_file, last, owed, reports, wiped>> /\ lost \subseteq lost'
        /\ ~keep => sweep.pid \in lost'
    BY <1>5 DEF SweepFaults, SweepFrame, history, TypeOK, SessionTypeOK, Sweeps
  <2>2. \A k \in 1 .. Len(sweep.found) : k \in 1 .. Len(next) /\ next[k] = sweep.found[k]
    BY <2>1
  <2>3. keep => /\ Len(next) \in 1 .. Len(next)
               /\ next[Len(next)].life = sweep.pid
    BY <2>1
  <2>. HIDE DEF next, keep
  <2>4. \A k \in 1 .. Len(sweep.found) : sweep.found[k].life \in Held'
    BY <2>1, <2>2 DEF Held
  <2>5. keep => sweep.pid \in Held'
    BY <2>1, <2>3 DEF Held
  <2>6. Held \subseteq (Held \cup lost)'
    BY <2>1, <2>4, <2>5 DEF Held
  <2>. QED  BY <2>1, <2>6 DEF DeathsAccountedFor
<1>6. ASSUME SweepReturn /\ SweepFrame PROVE DeathsAccountedFor'
  <2>1. Held' = Held
    <3>1. CASE sweep.found = <<>>  BY <1>6, <3>1 DEF SweepReturn, Held, NoSweep
    <3>2. CASE sweep.found # <<>>  BY <1>6, <3>2 DEF SweepReturn, Held, TypeOK, SessionTypeOK,
                                                     Sweeps
    <3>. QED  BY <3>1, <3>2
  <2>. QED  BY <1>6, <2>1 DEF SweepReturn, SweepFrame, history, DeathsAccountedFor
<1>7. ASSUME SweepCapture(client) /\ SweepFrame PROVE DeathsAccountedFor'
  <2> DEFINE rest == Tail(sweep.found)
             r    == Head(sweep.found)
  <2>1. /\ sweep.found \in Seq(Entry) /\ sweep.found # <<>> /\ sweep.step = "capture"
        /\ UNCHANGED <<marker_file, last, owed, wiped>>
        /\ lost \subseteq lost' /\ reports \subseteq reports' /\ (r.life \in lost' \/ r \in reports')
        /\ sweep'.found = rest
    BY <1>7 DEF SweepCapture, SweepInv, SweepFrame, history, NoSweep, TypeOK, SessionTypeOK, Sweeps
  <2>2. \A k \in 1 .. Len(sweep.found) : k = 1 \/ (k - 1 \in 1 .. Len(rest) /\ rest[k - 1] = sweep.found[k])
    BY <2>1
  <2>3. sweep.found[1] = r  BY <2>1
  <2>. HIDE DEF rest, r
  <2>4. \A k \in 1 .. Len(sweep.found) : k # 1 => sweep.found[k].life \in Held'
    BY <2>1, <2>2 DEF Held
  <2>5. \A l \in Held : l \in (Held \cup lost)' \/ \E q \in reports' : q.life = l
    BY <2>1, <2>3, <2>4 DEF Held
  <2>. QED  BY <2>1, <2>5 DEF DeathsAccountedFor
<1>8. ASSUME Crash PROVE DeathsAccountedFor'
  <2>1. life \notin wiped /\ (markers # {} \/ life \in faulted') => marker_file[life] = stage
    BY <1>8 DEF Crash, FaultInv, Detached
  <2>2. /\ lost' = lost \cup Held /\ owed' \subseteq owed \cup {life} /\ last' = [last EXCEPT ![life] = stage]
        /\ life \in owed' => life \in owed \/ markers # {} \/ life \in faulted'
        /\ UNCHANGED <<marker_file, reports, wiped>> /\ life \notin owed
    BY <1>8 DEF Crash, Die, MarkerInv
  <2>. QED  BY <2>1, <2>2 DEF DeathsAccountedFor, TypeOK, SessionTypeOK
<1>9. ASSUME Exit PROVE DeathsAccountedFor'
  <2>1. life \notin wiped /\ (markers # {} \/ life \in faulted') => marker_file[life] = stage
    BY <1>9 DEF Exit, FaultInv, Detached
  <2>2. /\ lost' = lost \cup Held /\ owed' \subseteq owed \cup {life} /\ last' = [last EXCEPT ![life] = stage]
        /\ life \in owed' => life \in owed \/ markers # {} \/ life \in faulted'
        /\ UNCHANGED <<marker_file, reports, wiped>> /\ life \notin owed
    BY <1>9 DEF Exit, Die, MarkerInv
  <2>. QED  BY <2>1, <2>2 DEF DeathsAccountedFor, TypeOK, SessionTypeOK
<1>10. ASSUME NEW t \in Threads, TransportPanic(t) PROVE DeathsAccountedFor'
  <2>1. life \notin wiped /\ (markers # {} \/ life \in faulted') => marker_file[life] = stage
    <3>1. life \in faulted' => life \in faulted \/ markers # {} \/ thread[t].who \in covered
      BY <1>10 DEF TransportPanic, Record
    <3>2. up /\ thread[t].pc = "close"  BY <1>10 DEF TransportPanic, At
    <3>3. ASSUME NEW u \in Threads, thread[u].pc \in Detached PROVE thread[u].who # thread[t].who
      <4>1. Buries(thread[u]) /\ u # t  BY <3>2, <3>3 DEF Buries, DeathSteps, Detached
      <4>2. Calls(thread[t]) \/ Buries(thread[t])  BY <3>2 DEF Calls, Buries, DropSteps
      <4>. QED  BY <4>1, <4>2, Zenon DEF ThreadInv, Alive, Threads
    <3>4. thread[t].who \in covered => markers # {}  BY <3>3 DEF FaultInv
    <3>. QED  BY <3>1, <3>2, <3>4 DEF FaultInv
  <2>2. /\ lost' = lost \cup Held /\ owed' \subseteq owed \cup {life} /\ last' = [last EXCEPT ![life] = stage]
        /\ life \in owed' => life \in owed \/ markers # {} \/ life \in faulted'
        /\ UNCHANGED <<marker_file, reports, wiped>> /\ life \notin owed
    BY <1>10 DEF TransportPanic, At, Die, MarkerInv
  <2>. QED  BY <2>1, <2>2 DEF DeathsAccountedFor, TypeOK, SessionTypeOK
<1>11. ASSUME NEW clean \in BOOLEAN, NeighbourDies(clean) PROVE DeathsAccountedFor'
  <2>1. UNCHANGED <<last, lost, reports, sweep, wiped>>  BY <1>11 DEF NeighbourDies, history
  <2>2. ended[0] = "no" /\ 0 \notin owed /\ 0 \in Lives
    BY <1>11, LivesAreNat DEF NeighbourDies, MarkerInv
  <2>3. CASE clean
    <3>1. owed' = owed /\ marker_file' = [marker_file EXCEPT ![0] = NoFile]
      BY <1>11, <2>3 DEF NeighbourDies
    <3>. QED  BY <2>1, <2>2, <3>1 DEF DeathsAccountedFor, Held, TypeOK, SessionTypeOK
  <2>4. CASE ~clean
    <3>1. owed' = owed \cup {0} /\ marker_file' = marker_file /\ marker_file[0] = last[0]
      BY <1>11, <2>4 DEF NeighbourDies, MarkerInv
    <3>. QED  BY <2>1, <3>1 DEF DeathsAccountedFor, Held
  <2>. QED  BY <2>3, <2>4
<1>12. CASE UNCHANGED vars
  BY <1>12
     DEF session, sessionRest, reporterVars, history, vars, TypeOK, SessionTypeOK,
         DeathsAccountedFor, Held
<1>13. ASSUME NEW t \in Threads, Arming(t) PROVE DeathsAccountedFor'
  <2>1. Held' = Held
    BY <1>13 DEF Arming, Held, SweepInv, TypeOK, SessionTypeOK, Sweeps
  <2>. QED  BY <1>13, <2>1 DEF Arming, DeathsAccountedFor, sessionRest
<1> USE DEF session, sessionRest, reporterVars, history, vars, SweepFrame, At, Goto, TypeOK,
       SessionTypeOK, DeathsAccountedFor, Held
<1>14. ASSUME Start PROVE DeathsAccountedFor'  BY <1>14 DEF Start
<1>15. ASSUME NEW i \in Instances, Load(i) PROVE DeathsAccountedFor'  BY <1>15 DEF Load
<1>16. ASSUME NEW i \in Instances, InitializeCall(i) PROVE DeathsAccountedFor'
  BY <1>16 DEF InitializeCall, Call, Begin
<1>17. ASSUME NEW i \in Instances, FrameCall(i) PROVE DeathsAccountedFor'
  BY <1>17 DEF FrameCall, Call, Begin
<1>18. ASSUME NEW i \in Instances, OpenCall(i) PROVE DeathsAccountedFor'
  BY <1>18 DEF OpenCall, Call, Begin
<1>19. ASSUME NEW i \in Instances, CloseCall(i) PROVE DeathsAccountedFor'
  BY <1>19 DEF CloseCall, Call, Begin
<1>20. ASSUME NEW i \in Instances, NEW t \in Threads, Destroy(t, i) PROVE DeathsAccountedFor'
  BY <1>20 DEF Destroy, Begin, FirstField, After
<1>21. ASSUME Answer PROVE DeathsAccountedFor'  BY <1>21 DEF Answer
<1>22. ASSUME NEW t \in Threads, NEW i \in Instances, DropMarker(t, i)
      PROVE  DeathsAccountedFor'
  BY <1>22 DEF DropMarker, After, FirstField
<1>23. ASSUME NEW t \in Threads, HasFault(t) PROVE DeathsAccountedFor'
  BY <1>23 DEF HasFault, has_fault, After, FirstField
<1>24. ASSUME NEW t \in Threads, RemoveMarker(t) PROVE DeathsAccountedFor'
  BY <1>24 DEF RemoveMarker, Overtaken, remove_marker, MarkerInv
<1>25. ASSUME NEW t \in Threads, RemoveFault(t) PROVE DeathsAccountedFor'
  BY <1>25 DEF RemoveFault, remove_fault, After, FirstField
<1>26. ASSUME SweepList /\ SweepFrame PROVE DeathsAccountedFor'
  BY <1>26 DEF SweepList, Sweeps
<1>27. ASSUME NEW l \in Lives, SweepSkip(l) /\ SweepFrame PROVE DeathsAccountedFor'
  BY <1>27 DEF SweepSkip, Sweeps
<1>28. ASSUME Fault PROVE DeathsAccountedFor'  BY <1>28 DEF Fault, Record, record_fault
<1> HIDE DEF session, sessionRest, reporterVars, history, vars, SweepFrame, At, Goto, TypeOK,
       SessionTypeOK, DeathsAccountedFor, Held
<1>. QED
  BY <1>1, <1>2, <1>3, <1>4, <1>5, <1>6, <1>7, <1>8, <1>9, <1>10, <1>11, <1>12, <1>13, <1>14,
     <1>15, <1>16, <1>17, <1>18, <1>19, <1>20, <1>21, <1>22, <1>23, <1>24, <1>25, <1>26, <1>27,
     <1>28, ArmsQuietly
     DEF Next, HostStep, PluginStep, StampStep, TeardownStep, SweepStep, SweepFrame

-----------------------------------------------------------------------------
(***************************************************************************)
(* The reporter.                                                           *)
(***************************************************************************)
(***************************************************************************)
(* Only a thread that enters or leaves one of these steps matters to the   *)
(* reporter.                                                               *)
(***************************************************************************)
BuildSteps == {"bind", "store"} \cup DropSteps

LEMMA ArmKept ==
  ASSUME ArmInv, UNCHANGED <<armed, fresh, client, release, built>>, veh # "off" => veh' # "off",
         \A u \in Threads :
           thread'[u].pc = thread[u].pc \/ (thread[u].pc \notin BuildSteps /\ thread'[u].pc \notin BuildSteps)
  PROVE  ArmInv'
<1>1. \A u \in Threads : (thread'[u].pc = "store" <=> thread[u].pc = "store")
                      /\ (thread'[u].pc = "bind" <=> thread[u].pc = "bind")
                      /\ (thread'[u].pc \in DropSteps <=> thread[u].pc \in DropSteps)
  BY DEF BuildSteps
<1>2. fresh' = {t \in Threads : thread'[t].pc = "store"}  BY <1>1 DEF ArmInv
<1>3. Refs' = Refs /\ Binding' = Binding /\ TearingDown' = TearingDown
  BY <1>1 DEF Refs, Binding, TearingDown
<1>4. \A t, u \in Threads : thread'[t].pc = "bind" /\ thread'[u].pc = "bind" => t = u
  BY <1>1 DEF ArmInv
<1>. QED  BY <1>2, <1>3, <1>4 DEF ArmInv

LEMMA MovedTo ==
  ASSUME TypeOK, NEW t \in Threads, NEW s \in Steps, Goto(t, s)
  PROVE  thread'[t].pc = s /\ \A u \in Threads : u # t => thread'[u] = thread[u]
BY MovedType DEF Goto, TypeOK, Idle

LEMMA ReleaseKeepsArm ==
  ASSUME TypeOK, ArmInv, NEW t \in Threads, NEW i \in Instances, thread[t].pc \in {"take", "release"},
         thread[t].ret \in {"idle", "initDone", "marker"},
         Released(t, i, thread[t].ret), UNCHANGED <<fresh, client, release, veh>>
  PROVE  ArmInv'
<1>1. CASE i \in armed /\ LastRef(armed \ {i})
  <2>1. /\ fresh = {} /\ armed' = {} /\ Goto(t, "uninstall") /\ built' = "whole" /\ Refs
    BY <1>1 DEF Released, Drops, LastRef, Refs
  <2>2. thread'[t].pc = "uninstall" /\ \A u \in Threads : u # t => thread'[u] = thread[u]
    BY <2>1, MovedTo DEF Steps
  <2>3. ~Refs' /\ ~Binding'  BY <2>1, <2>2 DEF Refs, Binding, ArmInv
  <2>4. fresh' = {u \in Threads : thread'[u].pc = "store"}  BY <2>1, <2>2 DEF ArmInv
  <2>. QED  BY <2>2, <2>3, <2>4 DEF ArmInv, Binding
<1>2. CASE ~(i \in armed /\ LastRef(armed \ {i}))
  <2>1. Goto(t, thread[t].ret) /\ built' = built /\ armed' \subseteq armed
    BY <1>2 DEF Released, Drops
  <2>2. thread'[t].pc = thread[t].ret /\ \A u \in Threads : u # t => thread'[u] = thread[u]
    BY <2>1, MovedTo DEF Steps
  <2>3. \A u \in Threads : (thread'[u].pc = "store" <=> thread[u].pc = "store")
                        /\ (thread'[u].pc = "bind" <=> thread[u].pc = "bind")
                        /\ (thread'[u].pc \in DropSteps <=> thread[u].pc \in DropSteps)
    BY <2>2 DEF DropSteps
  <2>4. (Refs' => Refs) /\ Binding' = Binding /\ TearingDown' = TearingDown
    BY <2>1, <2>3 DEF Refs, Binding, TearingDown
  <2>5. fresh' = {u \in Threads : thread'[u].pc = "store"}  BY <2>3 DEF ArmInv
  <2>. QED  BY <2>1, <2>3, <2>4, <2>5 DEF ArmInv
<1>. QED  BY <1>1, <1>2

\* Each step of building the reporter and of tearing it down.
LEMMA BuildStep ==
  ASSUME TypeOK, ThreadInv, ArmInv, NEW t \in Threads,
         ArmStep(t) \/ DropReporter(t) \/ (\E i \in Instances : DropSlot(t, i))
  PROVE  ArmInv'
<1>0. /\ thread[t].pc \in CallSteps => thread[t].ret \in {"idle", "initDone"}
      /\ thread[t].pc \in DeathSteps => thread[t].ret = "marker"
      /\ thread[t].pc \in DropSteps => thread[t].ret \in {"idle", "initDone", "marker"}
      /\ thread[t].pc # "idle" => thread[t].who \in Instances
  BY DEF ThreadInv, Calls, Buries
<1>1. CASE Sync(t)
  <2>1. thread[t].pc = "sync" /\ thread[t].ret \in {"idle", "initDone"}
    BY <1>0, <1>1 DEF Sync, At, CallSteps, SyncSteps
  <2>2. PICK s \in {"reporter", "take", "idle", "initDone"} : Goto(t, s)
    BY <1>1, <2>1 DEF Sync
  <2>3. thread'[t].pc = s /\ \A u \in Threads : u # t => thread'[u] = thread[u]
    BY <2>2, MovedTo DEF Steps
  <2>. QED  BY <1>1, <2>1, <2>3, ArmKept DEF Sync, BuildSteps, DropSteps, history
<1>2. CASE Take(t)
  BY <1>0, <1>2, ReleaseKeepsArm DEF Take, At, CallSteps, SyncSteps
<1>3. CASE ReporterStep(t)
  <2>1. /\ thread[t].pc = "reporter" /\ thread[t].ret \in {"idle", "initDone"} /\ ~Binding
        /\ UNCHANGED <<armed, client, release>>
    BY <1>0, <1>3 DEF ReporterStep, At, CallSteps, SyncSteps, Binding
  <2>2. CASE ~LastRef(armed)
    <3>1. fresh' = fresh \cup {t} /\ Goto(t, "store") /\ UNCHANGED <<veh, built>> /\ Refs
      BY <1>3, <2>2 DEF ReporterStep, LastRef, Refs
    <3>2. thread'[t].pc = "store" /\ \A u \in Threads : u # t => thread'[u] = thread[u]
      BY <3>1, MovedTo DEF Steps
    <3>3. fresh' = {u \in Threads : thread'[u].pc = "store"}  BY <3>1, <3>2 DEF ArmInv
    <3>4. ~Binding' /\ (TearingDown' => TearingDown)
      BY <2>1, <3>2 DEF Binding, TearingDown, DropSteps
    <3>. QED  BY <2>1, <3>1, <3>3, <3>4 DEF ArmInv, Binding
  <2>3. CASE LastRef(armed) /\ Goto(t, thread[t].ret) /\ UNCHANGED <<fresh, veh, fault_file, built>>
    <3>1. thread'[t].pc = thread[t].ret /\ \A u \in Threads : u # t => thread'[u] = thread[u]
      BY <2>1, <2>3, MovedTo DEF Steps
    <3>. QED  BY <2>1, <2>3, <3>1, ArmKept DEF BuildSteps, DropSteps
  <2>4. CASE LastRef(armed) /\ Goto(t, "bind") /\ install /\ UNCHANGED fresh
    <3>1. thread'[t].pc = "bind" /\ \A u \in Threads : u # t => thread'[u] = thread[u]
      BY <2>4, MovedTo DEF Steps
    <3>2. ~Refs' /\ fresh' = {u \in Threads : thread'[u].pc = "store"}
      BY <2>1, <2>4, <3>1 DEF Refs, LastRef, ArmInv
    <3>3. \A u, w \in Threads : thread'[u].pc = "bind" /\ thread'[w].pc = "bind" => u = w
      BY <2>1, <3>1 DEF Binding
    <3>4. built' # "beside" => ~TearingDown /\ (built' = "whole" => veh' # "off")
      BY <2>4 DEF install, Installed
    <3>5. TearingDown' => TearingDown  BY <2>1, <3>1 DEF TearingDown, DropSteps
    <3>. QED  BY <3>2, <3>3, <3>4, <3>5 DEF ArmInv
  <2>. QED  BY <1>3, <2>2, <2>3, <2>4 DEF ReporterStep
<1>4. CASE Bind(t)
  <2>1. /\ thread[t].pc = "bind" /\ Binding /\ client' = TRUE /\ release' = TRUE /\ fresh' = fresh \cup {t}
        /\ Goto(t, "store") /\ UNCHANGED <<armed, veh, built>>
    BY <1>4 DEF Bind, At, Binding, history
  <2>2. thread'[t].pc = "store" /\ \A u \in Threads : u # t => thread'[u] = thread[u]
    BY <2>1, MovedTo DEF Steps
  <2>3. fresh' = {u \in Threads : thread'[u].pc = "store"}  BY <2>1, <2>2 DEF ArmInv
  <2>4. ~Binding' /\ (TearingDown' => TearingDown)
    BY <2>1, <2>2 DEF Binding, TearingDown, DropSteps, ArmInv
  <2>. QED  BY <2>1, <2>3, <2>4 DEF ArmInv, Binding
<1>5. CASE Store(t)
  <2>1. /\ thread[t].pc = "store" /\ thread[t].ret \in {"idle", "initDone"}
        /\ fresh' = fresh \ {t} /\ UNCHANGED <<client, release, veh>>
        /\ Drops(t, armed' = {} /\ fresh' = {}, thread[t].ret)
    BY <1>0, <1>5 DEF Store, At, CallSteps, SyncSteps
  <2>2. Refs /\ ~Binding  BY <2>1 DEF Refs, ArmInv
  <2>3. CASE armed' = {} /\ fresh' = {}
    <3>1. Goto(t, "uninstall") /\ ~Refs'  BY <2>1, <2>3 DEF Drops, Refs
    <3>2. thread'[t].pc = "uninstall" /\ \A u \in Threads : u # t => thread'[u] = thread[u]
      BY <3>1, MovedTo DEF Steps
    <3>3. fresh' = {u \in Threads : thread'[u].pc = "store"}  BY <2>1, <3>2 DEF ArmInv
    <3>4. ~Binding'  BY <2>2, <3>2 DEF Binding
    <3>. QED  BY <3>1, <3>3, <3>4 DEF ArmInv, Binding
  <2>4. CASE ~(armed' = {} /\ fresh' = {})
    <3>1. Goto(t, thread[t].ret) /\ built' = built  BY <2>1, <2>4 DEF Drops
    <3>2. thread'[t].pc = thread[t].ret /\ \A u \in Threads : u # t => thread'[u] = thread[u]
      BY <2>1, <3>1, MovedTo DEF Steps
    <3>3. fresh' = {u \in Threads : thread'[u].pc = "store"}  BY <2>1, <3>2 DEF ArmInv
    <3>4. ~Binding' /\ (TearingDown' => TearingDown)
      BY <2>1, <2>2, <3>2 DEF Binding, TearingDown, DropSteps
    <3>. QED  BY <2>1, <2>2, <3>1, <3>3, <3>4 DEF ArmInv, Binding
  <2>. QED  BY <2>3, <2>4
<1>6. CASE DropReporter(t)
  <2>1. /\ thread[t].pc \in DropSteps /\ TearingDown /\ UNCHANGED <<armed, fresh, built>>
    BY <1>6 DEF DropReporter, Uninstall, EndSession, Close, At, DropSteps, TearingDown, history
  <2>2. PICK s \in {"end_session", "close", "idle", "initDone", "marker"} : Goto(t, s)
    BY <1>0, <1>6, <2>1 DEF DropReporter, Uninstall, EndSession, Close
  <2>3. thread'[t].pc = s /\ \A u \in Threads : u # t => thread'[u] = thread[u]
    BY <2>2, MovedTo DEF Steps
  <2>4. fresh' = {u \in Threads : thread'[u].pc = "store"}  BY <2>1, <2>3 DEF ArmInv, DropSteps
  <2>5. Refs' = Refs /\ Binding' = Binding  BY <2>1, <2>3 DEF Refs, Binding, DropSteps
  <2>6. \A u, w \in Threads : thread'[u].pc = "bind" /\ thread'[w].pc = "bind" => u = w
    BY <2>1, <2>3 DEF ArmInv
  <2>7. Refs \/ Binding => built = "beside"  BY <2>1 DEF ArmInv
  <2>. QED  BY <2>1, <2>4, <2>5, <2>6, <2>7 DEF ArmInv
<1>7. ASSUME NEW i \in Instances, DropSlot(t, i) PROVE ArmInv'
  <2>1. thread[t].pc = "release" /\ thread[t].ret = "marker"
    BY <1>0, <1>7 DEF DropSlot, At, DeathSteps
  <2>. QED  BY <1>7, <2>1, ReleaseKeepsArm DEF DropSlot, After, FirstField
<1>. QED  BY <1>1, <1>2, <1>3, <1>4, <1>5, <1>6, <1>7 DEF ArmStep

LEMMA ArmInvStep ==
  ASSUME TypeOK, ThreadInv, ArmInv, [Next]_vars
  PROVE  ArmInv'
<1>1. ASSUME NEW i \in Instances,
             InitStamp(i) \/ InitDone(i) \/ Creating(i) \/ Opened(i) \/ Closing(i)
      PROVE  ArmInv'
  <2>1. Stamping(i) /\ UNCHANGED <<armed, fresh, client, release, veh, built>>
    BY <1>1, StampsStamp DEF InitStamp, InitDone, Creating, Opened, Closing, Stamp
  <2>2. /\ thread["main"].pc \in {"initStamp", "initDone", "creating", "opened", "closing"}
        /\ thread'["main"].pc \in {"sync", "idle", "opened"}
    BY <1>1, MovedType DEF InitStamp, InitDone, Creating, Opened, Closing, Stamp, At, Goto,
                           TypeOK, Threads, Steps, Idle
  <2>. QED  BY <2>1, <2>2, ArmKept DEF Stamping, BuildSteps, DropSteps
<1>2. CASE UNCHANGED vars
  BY <1>2, ArmKept DEF vars, reporterVars, history
<1>3. ASSUME NEW t \in Threads, ArmStep(t) \/ DropReporter(t) \/ (\E i \in Instances : DropSlot(t, i))
      PROVE  ArmInv'
  BY <1>3, BuildStep
<1> USE MovedType, ArmKept
   DEF session, sessionRest, reporterVars, history, SweepFrame, At, Goto, TypeOK,
       BuildSteps, DropSteps, Idle, Steps
<1>4. ASSUME Start PROVE ArmInv'  BY <1>4 DEF Start
<1>5. ASSUME NEW i \in Instances, Load(i) PROVE ArmInv'  BY <1>5 DEF Load
<1>6. ASSUME NEW i \in Instances, InitializeCall(i) PROVE ArmInv'
  BY <1>6 DEF InitializeCall, Call, Begin
<1>7. ASSUME NEW i \in Instances, FrameCall(i) PROVE ArmInv'
  BY <1>7 DEF FrameCall, Call, Begin
<1>8. ASSUME NEW i \in Instances, OpenCall(i) PROVE ArmInv'  BY <1>8 DEF OpenCall, Call, Begin
<1>9. ASSUME NEW i \in Instances, CloseCall(i) PROVE ArmInv'
  BY <1>9 DEF CloseCall, Call, Begin
<1>10. ASSUME NEW i \in Instances, NEW t \in Threads, Destroy(t, i) PROVE ArmInv'
  BY <1>10 DEF Destroy, Begin, FirstField, After
<1>11. ASSUME Answer PROVE ArmInv'  BY <1>11 DEF Answer
<1>12. ASSUME NEW t \in Threads, NEW i \in Instances, DropMarker(t, i) PROVE ArmInv'
  BY <1>12 DEF DropMarker, After, FirstField
<1>13. ASSUME NEW t \in Threads, HasFault(t) PROVE ArmInv'
  BY <1>13 DEF HasFault, has_fault, After, FirstField
<1>14. ASSUME NEW t \in Threads, RemoveMarker(t) PROVE ArmInv'
  BY <1>14 DEF RemoveMarker, Overtaken, remove_marker
<1>15. ASSUME NEW t \in Threads, RemoveFault(t) PROVE ArmInv'
  BY <1>15 DEF RemoveFault, remove_fault, After, FirstField
<1>16. ASSUME NEW t \in Threads, NEW i \in Instances, Gone(t, i) PROVE ArmInv'
  BY <1>16 DEF Gone
<1>17. ASSUME SweepList /\ SweepFrame PROVE ArmInv'  BY <1>17 DEF SweepList
<1>18. ASSUME NEW l \in Lives, SweepSkip(l) /\ SweepFrame PROVE ArmInv'
  BY <1>18 DEF SweepSkip
<1>19. ASSUME NEW l \in Lives, NEW old \in BOOLEAN, SweepRead(l, old) /\ SweepFrame
      PROVE  ArmInv'
  BY <1>19 DEF SweepRead, Skips
<1>20. ASSUME SweepRemove /\ SweepFrame PROVE ArmInv'  BY <1>20 DEF SweepRemove
<1>21. ASSUME SweepFaults /\ SweepFrame PROVE ArmInv'  BY <1>21 DEF SweepFaults, Entry
<1>22. ASSUME SweepReturn /\ SweepFrame PROVE ArmInv'  BY <1>22 DEF SweepReturn
<1>23. ASSUME SweepCapture(client) /\ SweepFrame PROVE ArmInv'  BY <1>23 DEF SweepCapture
<1>24. ASSUME Fault PROVE ArmInv'  BY <1>24 DEF Fault, Record, record_fault
<1>25. ASSUME Crash PROVE ArmInv'  BY <1>25 DEF Crash, Die, ArmInv, Refs, Binding, NoThreads
<1>26. ASSUME Exit PROVE ArmInv'  BY <1>26 DEF Exit, Die, ArmInv, Refs, Binding, NoThreads
<1>27. ASSUME NEW t \in Threads, TransportPanic(t) PROVE ArmInv'
  BY <1>27 DEF TransportPanic, Die, ArmInv, Refs, Binding, NoThreads
<1>28. ASSUME NEW clean \in BOOLEAN, NeighbourDies(clean) PROVE ArmInv'
  BY <1>28 DEF NeighbourDies
<1> HIDE MovedType, ArmKept
   DEF session, sessionRest, reporterVars, history, SweepFrame, At, Goto, TypeOK,
       BuildSteps, DropSteps, Idle, Steps
<1>. QED
  BY <1>1, <1>2, <1>3, <1>4, <1>5, <1>6, <1>7, <1>8, <1>9, <1>10, <1>11, <1>12, <1>13, <1>14,
     <1>15, <1>16, <1>17, <1>18, <1>19, <1>20, <1>21, <1>22, <1>23, <1>24, <1>25, <1>26, <1>27,
     <1>28
     DEF Next, HostStep, PluginStep, StampStep, TeardownStep, SweepStep, SweepFrame

-----------------------------------------------------------------------------
(***************************************************************************)
(* The editor's stages.                                                    *)
(***************************************************************************)
LEMMA WindowStep ==
  ASSUME TypeOK, ThreadInv, MarkerInv, WindowInv, [Next]_vars
  PROVE  WindowInv'
<1>1. ASSUME NEW i \in Instances, InitDone(i) PROVE WindowInv'
  <2>1. /\ up /\ i = thread["main"].who /\ thread["main"].pc = "initDone"
        /\ inst' = IF inst[i] = "loaded" THEN [inst EXCEPT ![i] = "ready"] ELSE inst
        /\ UNCHANGED <<up, life, consent, flipped>>
    BY <1>1 DEF InitDone, Stamp, At
  <2>2. /\ thread'["main"].pc = "idle"
        /\ "idle" # "idle" => thread'["main"].who = i /\ thread'["main"].ret = thread["main"].ret
    BY <1>1, <2>1, MovedType DEF InitDone, Stamp, Goto, TypeOK, Threads, Steps, Idle
  <2>3. /\ i \in markers => markers' = markers /\ (stage \in {"initializing"} => stage' = "initialized")
                             /\ (stage \notin {"initializing"} => stage' = stage)
        /\ i \notin markers => /\ markers # {} => markers' = markers \cup {i} /\ stage' = stage
                               /\ markers = {} => IF consent THEN markers' = {i} /\ stage' = "initialized"
                                                   ELSE markers' = markers /\ stage' = stage
    BY <1>1 DEF InitDone, Stamp, set_stage_if, Attach, create, Advance, write, TypeOK, SessionTypeOK
  <2>4. /\ thread["main"].pc \in {"creating", "opened", "closing"} => inst[i] = "ready"
        /\ Stamped => thread["main"].ret = "initDone"
    BY <2>1 DEF WindowInv, Stamped
  <2>5. ASSUME life \notin flipped
        PROVE  /\ ~consent => markers = {}
               /\ consent => /\ \A j \in Instances : inst[j] \in {"ready", "open"} => j \in markers
                             /\ Stamped => i \in markers
               /\ \A j \in markers : inst[j] = "open" => is_editor(stage)
    BY <2>1, <2>5 DEF WindowInv
  <2>. QED
    BY <2>1, <2>2, <2>3, <2>4, <2>5
    DEF WindowInv, Stamped, DropSteps, is_editor, EditorStage, Stage, TypeOK, SessionTypeOK,
        NoneLoaded
<1>2. ASSUME NEW i \in Instances, Creating(i) PROVE WindowInv'
  <2>1. /\ up /\ i = thread["main"].who /\ thread["main"].pc = "creating"
        /\ inst' = inst
        /\ UNCHANGED <<up, life, consent, flipped>>
    BY <1>2 DEF Creating, Stamp, At
  <2>2. /\ thread'["main"].pc = "opened"
        /\ "opened" # "idle" => thread'["main"].who = i /\ thread'["main"].ret = thread["main"].ret
    BY <1>2, <2>1, MovedType DEF Creating, Stamp, Goto, TypeOK, Threads, Steps, Idle
  <2>3. /\ i \in markers => markers' = markers /\ (stage \in Stage => stage' = "editor_creating")
                             /\ (stage \notin Stage => stage' = stage)
        /\ i \notin markers => /\ markers # {} => markers' = markers \cup {i} /\ stage' = stage
                               /\ markers = {} => IF consent THEN markers' = {i} /\ stage' = "editor_creating"
                                                   ELSE markers' = markers /\ stage' = stage
    BY <1>2 DEF Creating, Stamp, set_stage_if, Attach, create, Advance, write, TypeOK, SessionTypeOK
  <2>4. /\ thread["main"].pc \in {"creating", "opened", "closing"} => inst[i] = "ready"
        /\ Stamped => thread["main"].ret = "initDone"
    BY <2>1 DEF WindowInv, Stamped
  <2>5. ASSUME life \notin flipped
        PROVE  /\ ~consent => markers = {}
               /\ consent => /\ \A j \in Instances : inst[j] \in {"ready", "open"} => j \in markers
                             /\ Stamped => i \in markers
               /\ \A j \in markers : inst[j] = "open" => is_editor(stage)
    BY <2>1, <2>5 DEF WindowInv
  <2>. QED
    BY <2>1, <2>2, <2>3, <2>4, <2>5
    DEF WindowInv, Stamped, DropSteps, is_editor, EditorStage, Stage, TypeOK, SessionTypeOK,
        NoneLoaded
<1>3. ASSUME NEW i \in Instances, Opened(i) PROVE WindowInv'
  <2>1. /\ up /\ i = thread["main"].who /\ thread["main"].pc = "opened"
        /\ inst' = [inst EXCEPT ![i] = "open"]
        /\ UNCHANGED <<up, life, consent, flipped>>
    BY <1>3 DEF Opened, Stamp, At
  <2>2. /\ thread'["main"].pc = "idle"
        /\ "idle" # "idle" => thread'["main"].who = i /\ thread'["main"].ret = thread["main"].ret
    BY <1>3, <2>1, MovedType DEF Opened, Stamp, Goto, TypeOK, Threads, Steps, Idle
  <2>3. /\ i \in markers => markers' = markers /\ (stage \in Stage => stage' = "editor_open")
                             /\ (stage \notin Stage => stage' = stage)
        /\ i \notin markers => /\ markers # {} => markers' = markers \cup {i} /\ stage' = stage
                               /\ markers = {} => IF consent THEN markers' = {i} /\ stage' = "editor_open"
                                                   ELSE markers' = markers /\ stage' = stage
    BY <1>3 DEF Opened, Stamp, set_stage_if, Attach, create, Advance, write, TypeOK, SessionTypeOK
  <2>4. /\ thread["main"].pc \in {"creating", "opened", "closing"} => inst[i] = "ready"
        /\ Stamped => thread["main"].ret = "initDone"
    BY <2>1 DEF WindowInv, Stamped
  <2>5. ASSUME life \notin flipped
        PROVE  /\ ~consent => markers = {}
               /\ consent => /\ \A j \in Instances : inst[j] \in {"ready", "open"} => j \in markers
                             /\ Stamped => i \in markers
               /\ \A j \in markers : inst[j] = "open" => is_editor(stage)
    BY <2>1, <2>5 DEF WindowInv
  <2>. QED
    BY <2>1, <2>2, <2>3, <2>4, <2>5
    DEF WindowInv, Stamped, DropSteps, is_editor, EditorStage, Stage, TypeOK, SessionTypeOK,
        NoneLoaded
<1>4. ASSUME NEW i \in Instances, Closing(i) PROVE WindowInv'
  <2>1. /\ up /\ i = thread["main"].who /\ thread["main"].pc = "closing"
        /\ inst' = inst
        /\ UNCHANGED <<up, life, consent, flipped>>
    BY <1>4 DEF Closing, Stamp, At
  <2>2. /\ thread'["main"].pc = "idle"
        /\ "idle" # "idle" => thread'["main"].who = i /\ thread'["main"].ret = thread["main"].ret
    BY <1>4, <2>1, MovedType DEF Closing, Stamp, Goto, TypeOK, Threads, Steps, Idle
  <2>3. /\ i \in markers => markers' = markers /\ (stage \in Stage => stage' = "editor_closed")
                             /\ (stage \notin Stage => stage' = stage)
        /\ i \notin markers => /\ markers # {} => markers' = markers \cup {i} /\ stage' = stage
                               /\ markers = {} => IF consent THEN markers' = {i} /\ stage' = "editor_closed"
                                                   ELSE markers' = markers /\ stage' = stage
    BY <1>4 DEF Closing, Stamp, set_stage_if, Attach, create, Advance, write, TypeOK, SessionTypeOK
  <2>4. /\ thread["main"].pc \in {"creating", "opened", "closing"} => inst[i] = "ready"
        /\ Stamped => thread["main"].ret = "initDone"
    BY <2>1 DEF WindowInv, Stamped
  <2>5. ASSUME life \notin flipped
        PROVE  /\ ~consent => markers = {}
               /\ consent => /\ \A j \in Instances : inst[j] \in {"ready", "open"} => j \in markers
                             /\ Stamped => i \in markers
               /\ \A j \in markers : inst[j] = "open" => is_editor(stage)
    BY <2>1, <2>5 DEF WindowInv
  <2>. QED
    BY <2>1, <2>2, <2>3, <2>4, <2>5
    DEF WindowInv, Stamped, DropSteps, is_editor, EditorStage, Stage, TypeOK, SessionTypeOK,
        NoneLoaded
<1>5. ASSUME SweepList /\ SweepFrame PROVE WindowInv'
  BY <1>5
     DEF SweepList, session, sessionRest, reporterVars, history, SweepFrame, At, TypeOK,
         SessionTypeOK, WindowInv, Stamped, ThreadInv, Calls, Buries, CallSteps, SyncSteps,
         DropSteps, DeathSteps, Alive, Idle, Steps, Threads, NoThreads
<1>6. ASSUME NEW l \in Lives, SweepSkip(l) /\ SweepFrame PROVE WindowInv'
  BY <1>6
     DEF SweepSkip, session, sessionRest, reporterVars, history, SweepFrame, At, TypeOK,
         SessionTypeOK, WindowInv, Stamped, ThreadInv, Calls, Buries, CallSteps, SyncSteps,
         DropSteps, DeathSteps, Alive, Idle, Steps, Threads, NoThreads
<1>7. ASSUME NEW l \in Lives, NEW old \in BOOLEAN, SweepRead(l, old) /\ SweepFrame
      PROVE  WindowInv'
  BY <1>7
     DEF SweepRead, Skips, session, sessionRest, reporterVars, history, SweepFrame, At,
         TypeOK, SessionTypeOK, WindowInv, Stamped, ThreadInv, Calls, Buries,
         CallSteps, SyncSteps, DropSteps, DeathSteps, Alive, Idle, Steps, Threads, NoThreads
<1>8. ASSUME SweepRemove /\ SweepFrame PROVE WindowInv'
  BY <1>8
     DEF SweepRemove, session, sessionRest, reporterVars, history, SweepFrame, At, TypeOK,
         SessionTypeOK, WindowInv, Stamped, ThreadInv, Calls, Buries, CallSteps, SyncSteps,
         DropSteps, DeathSteps, Alive, Idle, Steps, Threads, NoThreads
<1>9. ASSUME SweepFaults /\ SweepFrame PROVE WindowInv'
  BY <1>9
     DEF SweepFaults, Entry, session, sessionRest, reporterVars, history, SweepFrame, At,
         TypeOK, SessionTypeOK, WindowInv, Stamped, ThreadInv, Calls, Buries,
         CallSteps, SyncSteps, DropSteps, DeathSteps, Alive, Idle, Steps, Threads, NoThreads
<1>10. ASSUME SweepReturn /\ SweepFrame PROVE WindowInv'
  BY <1>10
     DEF SweepReturn, session, sessionRest, reporterVars, history, SweepFrame, At, TypeOK,
         SessionTypeOK, WindowInv, Stamped, ThreadInv, Calls, Buries, CallSteps, SyncSteps,
         DropSteps, DeathSteps, Alive, Idle, Steps, Threads, NoThreads
<1>11. ASSUME SweepCapture(client) /\ SweepFrame PROVE WindowInv'
  BY <1>11
     DEF SweepCapture, session, sessionRest, reporterVars, history, SweepFrame, At, TypeOK,
         SessionTypeOK, WindowInv, Stamped, ThreadInv, Calls, Buries, CallSteps, SyncSteps,
         DropSteps, DeathSteps, Alive, Idle, Steps, Threads, NoThreads
<1>12. ASSUME Fault PROVE WindowInv'
  BY <1>12
     DEF Fault, Record, record_fault, session, sessionRest, reporterVars, history, At, TypeOK,
         SessionTypeOK, WindowInv, Stamped, ThreadInv, Calls, Buries, CallSteps, SyncSteps,
         DropSteps, DeathSteps, Alive, Idle, Steps, Threads, NoThreads
<1>13. ASSUME Crash PROVE WindowInv'
  BY <1>13
     DEF Crash, Die, Held, NoneLoaded, NoThreads, Idle, session, sessionRest, reporterVars,
         history, At, TypeOK, SessionTypeOK, WindowInv, Stamped, ThreadInv, Calls,
         Buries, CallSteps, SyncSteps, DropSteps, DeathSteps, Alive, Steps, Threads
<1>14. ASSUME Exit PROVE WindowInv'
  BY <1>14
     DEF Exit, Die, Held, NoneLoaded, NoThreads, Idle, session, sessionRest, reporterVars,
         history, At, TypeOK, SessionTypeOK, WindowInv, Stamped, ThreadInv, Calls,
         Buries, CallSteps, SyncSteps, DropSteps, DeathSteps, Alive, Steps, Threads
<1>15. ASSUME NEW t \in Threads, TransportPanic(t) PROVE WindowInv'
  BY <1>15
     DEF TransportPanic, Record, record_fault, At, Die, Held, NoneLoaded, NoThreads, Idle,
         session, sessionRest, reporterVars, history, TypeOK, SessionTypeOK, WindowInv,
         Stamped, ThreadInv, Calls, Buries, CallSteps, SyncSteps, DropSteps, DeathSteps, Alive,
         Steps, Threads
<1>16. ASSUME NEW clean \in BOOLEAN, NeighbourDies(clean) PROVE WindowInv'
  BY <1>16
     DEF NeighbourDies, session, sessionRest, reporterVars, history, At, TypeOK,
         SessionTypeOK, WindowInv, Stamped, ThreadInv, Calls, Buries, CallSteps, SyncSteps,
         DropSteps, DeathSteps, Alive, Idle, Steps, Threads, NoThreads
<1>17. CASE UNCHANGED vars
  BY <1>17
     DEF session, sessionRest, reporterVars, history, vars, TypeOK, SessionTypeOK, WindowInv,
         Stamped, ThreadInv, Calls, Buries, CallSteps, SyncSteps, DropSteps, DeathSteps, Alive,
         Idle, Threads, NoThreads, NoneLoaded
<1>18. ASSUME NEW t \in Threads, Arming(t) PROVE WindowInv'
  <2>1. PICK s \in SyncSteps \cup DropSteps \cup {thread[t].ret} : Goto(t, s)
    BY <1>18 DEF Arming
  <2>2. thread[t].ret \in {"idle", "initDone", "marker"}
    BY <1>18 DEF Arming, ThreadInv, Calls, Buries, CallSteps, SyncSteps, SyncSteps, DropSteps,
                 DeathSteps
  <2>3. CASE t = "main"
    <3>1. \/ thread'["main"].pc = "idle"
          \/ thread'["main"].who = thread["main"].who /\ thread'["main"].ret = thread["main"].ret
      BY <2>1, <2>2, <2>3, MovedType DEF Goto, TypeOK, Threads, Steps, SyncSteps, DropSteps, Idle
    <3>2. thread'["main"].pc \in SyncSteps \cup DropSteps \cup {"idle", "initDone", "marker"}
      BY <2>1, <2>2, <2>3, MovedType DEF Goto, TypeOK, Threads, Steps, SyncSteps, DropSteps, Idle
    <3>3. Stamped' => Stamped
      BY <1>18, <2>3, <3>1 DEF Arming, Stamped, SyncSteps, DropSteps, ThreadInv, Buries, DeathSteps
    <3>. QED
      BY <1>18, <3>1, <3>2, <3>3 DEF Arming, WindowInv, Stamped, SyncSteps, DropSteps, sessionRest
  <2>4. CASE t # "main"
    <3>1. thread'["main"] = thread["main"]  BY <2>1, <2>4 DEF Goto, TypeOK, Threads
    <3>. QED  BY <1>18, <3>1 DEF Arming, WindowInv, Stamped, sessionRest
  <2>. QED  BY <2>3, <2>4
<1> USE MovedType, LivesAreNat
   DEF session, sessionRest, reporterVars, history, vars, SweepFrame, At, Goto, TypeOK,
       SessionTypeOK, WindowInv, Stamped, ThreadInv, Calls, Buries, CallSteps, SyncSteps,
       DropSteps, DeathSteps, Alive, Idle, Steps, Threads, NoThreads, NoneLoaded
<1>19. ASSUME Start PROVE WindowInv'  BY <1>19, SessionAssumption DEF Start, Lives, MarkerInv
<1>20. ASSUME NEW i \in Instances, Load(i) PROVE WindowInv'  BY <1>20 DEF Load
<1>21. ASSUME NEW i \in Instances, InitializeCall(i) PROVE WindowInv'
  BY <1>21 DEF InitializeCall, Call, Begin
<1>22. ASSUME NEW i \in Instances, FrameCall(i) PROVE WindowInv'
  BY <1>22 DEF FrameCall, Call, Begin
<1>23. ASSUME NEW i \in Instances, OpenCall(i) PROVE WindowInv'
  BY <1>23 DEF OpenCall, Call, Begin
<1>24. ASSUME NEW i \in Instances, CloseCall(i) PROVE WindowInv'
  BY <1>24 DEF CloseCall, Call, Begin
<1>25. ASSUME NEW i \in Instances, NEW t \in Threads, Destroy(t, i) PROVE WindowInv'
  BY <1>25 DEF Destroy, Begin, FirstField, After
<1>26. ASSUME Answer PROVE WindowInv'  BY <1>26 DEF Answer
<1>27. ASSUME NEW i \in Instances, InitStamp(i) PROVE WindowInv'
  BY <1>27
     DEF InitStamp, Stamp, set_stage_if, Attach, create, Advance, write, not_editor, is_editor
<1>28. ASSUME NEW t \in Threads, NEW i \in Instances, DropMarker(t, i) PROVE WindowInv'
  BY <1>28, SMTT(20) DEF DropMarker, After, FirstField
<1>29. ASSUME NEW t \in Threads, HasFault(t) PROVE WindowInv'
  BY <1>29 DEF HasFault, has_fault, After, FirstField
<1>30. ASSUME NEW t \in Threads, RemoveMarker(t) PROVE WindowInv'
  BY <1>30 DEF RemoveMarker, Overtaken, remove_marker
<1>31. ASSUME NEW t \in Threads, RemoveFault(t) PROVE WindowInv'
  BY <1>31 DEF RemoveFault, remove_fault, After, FirstField
<1>32. ASSUME NEW t \in Threads, NEW i \in Instances, Gone(t, i) PROVE WindowInv'
  BY <1>32 DEF Gone
<1> HIDE MovedType, LivesAreNat
   DEF session, sessionRest, reporterVars, history, vars, SweepFrame, At, Goto, TypeOK,
       SessionTypeOK, WindowInv, Stamped, ThreadInv, Calls, Buries, CallSteps, SyncSteps,
       DropSteps, DeathSteps, Alive, Idle, Steps, Threads, NoThreads, NoneLoaded
<1>. QED
  BY <1>1, <1>2, <1>3, <1>4, <1>5, <1>6, <1>7, <1>8, <1>9, <1>10, <1>11, <1>12, <1>13, <1>14,
     <1>15, <1>16, <1>17, <1>18, <1>19, <1>20, <1>21, <1>22, <1>23, <1>24, <1>25, <1>26, <1>27,
     <1>28, <1>29, <1>30, <1>31, <1>32, ArmsQuietly
     DEF Next, HostStep, PluginStep, StampStep, TeardownStep, SweepStep, SweepFrame

LEMMA WindowAlways == Spec => [](SafeInv /\ WindowInv)
<1>1. Init => SafeInv /\ WindowInv
  <2>1. Init => WindowInv
    BY DEF Init, SessionInit, NoThreads, Idle, WindowInv, Threads
  <2>. QED  BY <2>1, SafeInit
<1>2. SafeInv /\ WindowInv /\ [Next]_vars => (SafeInv /\ WindowInv)'
  <2>1. SUFFICES ASSUME SafeInv, WindowInv, [Next]_vars PROVE SafeInv' /\ WindowInv'
    OBVIOUS
  <2>2. SafeInv'  BY <2>1, SafeStep
  <2>. QED  BY <2>1, <2>2, WindowStep DEF SafeInv
<1>. QED  BY <1>1, <1>2, PTL DEF Spec

(***************************************************************************)
(* While the answer stands, death in spawn() or behind a window is stamped *)
(* as such.                                                                *)
(***************************************************************************)
THEOREM WindowsReported == Spec => []WindowIsReported
<1>1. SafeInv /\ WindowInv => WindowIsReported
  <2>1. SUFFICES ASSUME SafeInv, WindowInv, NEW i \in markers, life \notin flipped
                 PROVE  /\ inst[i] = "open" => is_editor(stage)
                        /\ At("main", "opened") /\ thread["main"].who = i => stage = "editor_creating"
    BY DEF WindowIsReported
  <2>2. up  BY <2>1 DEF SafeInv, MarkerInv
  <2>. QED  BY <2>1, <2>2 DEF WindowInv, At
<1>. QED  BY WindowAlways, <1>1, PTL

-----------------------------------------------------------------------------
MainInv == SafeInv /\ FaultInv /\ ArmInv /\ DeathsAccountedFor

LEMMA MainInit == ASSUME Init PROVE MainInv
<1>1. SafeInv  BY SafeInit
<1>2. FaultInv /\ ArmInv
  BY DEF Init, SessionInit, NoThreads, Idle, FaultInv, ArmInv, Refs, Binding, TearingDown,
         Detached, DropSteps, Threads
<1>3. DeathsAccountedFor
  BY DEF Init, SessionInit, NoThreads, Idle, DeathsAccountedFor, Threads
<1>. QED  BY <1>1, <1>2, <1>3 DEF MainInv

LEMMA MainStep == ASSUME MainInv, [Next]_vars PROVE MainInv'
BY SafeStep, FaultStep, ArmInvStep, AccountedStep DEF MainInv, SafeInv

LEMMA MainAlways == Spec => []MainInv
BY MainInit, MainStep, PTL DEF Spec

(***************************************************************************)
(* No death with the marker attached or a fault on record is forgotten but *)
(* for the causes the code names and the two that DeathsAccountedFor does, *)
(* on whatever thread an instance dies or arms.                            *)
(***************************************************************************)
THEOREM DeathsKept == Spec => []DeathsAccountedFor
<1>1. MainInv => DeathsAccountedFor  BY DEF MainInv
<1>. QED  BY MainAlways, <1>1, PTL

(***************************************************************************)
(* An armed instance has a bound client, a session and, if it could be     *)
(* installed, the handler, unless its client came up beside a teardown.    *)
(***************************************************************************)
THEOREM ArmedWhole == Spec => []ArmedIsWhole
<1>1. MainInv => ArmedIsWhole  BY DEF MainInv, ArmInv, Refs, ArmedIsWhole
<1>. QED  BY MainAlways, <1>1, PTL

=============================================================================
