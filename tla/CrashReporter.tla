---------------------------- MODULE CrashReporter ----------------------------
(***************************************************************************)
(* Crash reporting in one host (crash.rs, veh.rs) with the session marker  *)
(* it arms beside: instances come and go, initialize() and editor frames   *)
(* bring each in line with the stored answer, the last one to let go takes *)
(* the client down, and the host may die between any two steps.  Three     *)
(* threads run plugin code: main, which makes the host's calls, ui, which  *)
(* draws the editors' frames, and late, the background worker, on which an *)
(* instance dies that the host destroyed while the worker still held it.   *)
(***************************************************************************)
EXTENDS SessionMarker

VARIABLES
  inst,        \* per instance: absent, loaded, ready (initialized), open (editor) or dying
  armed,       \* CrashHandles that hold the Reporter
  fresh,       \* threads with a reference of their own, between reporter() and the slot
  client,      \* Hub::main() is bound to a client that is not closed
  release,     \* a release-health session is open on Hub::main()
  veh,         \* the exception handler: off, or what its handle writes to, the
               \* fault file or one that has been removed
  swept,       \* SWEPT, the once-per-process latch of the sweep
  thread,      \* per thread: next step, instance, step after a nested call
  built,       \* history: how the present client came up
  covered,     \* history: instances with a marker whose teardown is not over
  faulted,     \* history: lives that recorded a fault while covered
  wiped,       \* history: lives whose own teardown removed evidence of theirs
  flipped      \* history: lives during which the answer changed

reporterVars == <<inst, armed, fresh, client, release, veh, swept>>
history      == <<built, covered, faulted, wiped, flipped>>
vars         == <<session, reporterVars, thread, history>>

Threads == {"main", "ui", "late"}
Steps   == {"idle", "initStamp", "sync", "take", "reporter", "bind", "store", "uninstall",
            "end_session", "close", "initDone", "creating", "opened", "closing",
            "release", "marker", "has_fault", "rmMarker", "rmFault", "gone"}
Thread  == [pc : Steps, who : Instances \cup {NoFile}, ret : Steps]

TypeOK ==
  /\ SessionTypeOK
  /\ inst \in [Instances -> {"absent", "loaded", "ready", "open", "dying"}]
  /\ armed \subseteq Instances /\ fresh \subseteq Threads
  /\ client \in BOOLEAN /\ release \in BOOLEAN /\ veh \in {"off", "file", "removed"}
  /\ swept \in BOOLEAN
  /\ thread \in [Threads -> Thread]
  /\ built \in {"whole", "bare", "beside"} /\ covered \subseteq Instances
  /\ faulted \subseteq Lives /\ wiped \subseteq Lives /\ flipped \subseteq Lives

Idle == [pc |-> "idle", who |-> NoFile, ret |-> "idle"]

NoneLoaded == [i \in Instances |-> "absent"]
NoThreads  == [t \in Threads |-> Idle]

Init ==
  /\ SessionInit
  /\ inst = NoneLoaded /\ thread = NoThreads /\ armed = {}
  /\ fresh = {} /\ client = FALSE /\ release = FALSE /\ veh = "off" /\ swept = FALSE
  /\ built = "whole" /\ covered = {} /\ faulted = {} /\ wiped = {} /\ flipped = {}

At(t, step)   == up /\ thread[t].pc = step
Moved(th, step) == IF step = "idle" THEN Idle ELSE [th EXCEPT !.pc = step]
Goto(t, step)   == thread' = [thread EXCEPT ![t] = Moved(@, step)]
Begin(t, i, step, then) ==
  thread' = [thread EXCEPT ![t] = [pc |-> step, who |-> i, ret |-> then]]

\* The strong count of the Reporter is zero.
LastRef(handles) == handles = {} /\ fresh = {}

-----------------------------------------------------------------------------
(***************************************************************************)
(* The host: start, load an instance, and calls, on the main thread but    *)
(* for the frames of the editors.                                          *)
(***************************************************************************)
Start ==
  /\ ~up /\ life < MaxLives
  /\ up' = TRUE /\ life' = life + 1
  /\ UNCHANGED <<consent, markers, stage, marker_file, fault_file, sweep, ended, last, owed,
                 reports, lost, reporterVars, thread, history>>

Load(i) ==
  /\ At("main", "idle") /\ inst[i] = "absent"
  /\ inst' = [inst EXCEPT ![i] = "loaded"]
  /\ UNCHANGED <<session, armed, fresh, client, release, veh, swept, thread, history>>

Call(t, i, step, then) ==
  /\ At(t, "idle")
  /\ Begin(t, i, step, then)
  /\ UNCHANGED <<session, armed, fresh, client, release, veh, swept, history>>

\* initialize(): the fast path stamps nothing on the way in.
InitializeCall(i) ==
  /\ inst[i] \in {"loaded", "ready", "open"}
  /\ \/ Call("main", i, "initStamp", "initDone")
     \/ inst[i] # "loaded" /\ Call("main", i, "sync", "initDone")
  /\ UNCHANGED inst

FrameCall(i) == inst[i] = "open" /\ Call("ui", i, "sync", "idle") /\ UNCHANGED inst

OpenCall(i)  == inst[i] = "ready" /\ Call("main", i, "creating", "idle") /\ UNCHANGED inst

\* A window closes between two of its frames.
CloseCall(i) ==
  /\ inst[i] = "open" /\ inst' = [inst EXCEPT ![i] = "ready"]
  /\ thread["ui"].who # i
  /\ Call("main", i, "closing", "idle")

\* The user answers in an editor, or in another instance's.
Answer ==
  /\ At("ui", "idle") /\ \E i \in Instances : inst[i] = "open"
  /\ consent' = ~consent /\ flipped' = flipped \cup {life}
  /\ UNCHANGED <<up, life, markers, stage, marker_file, fault_file, sweep, ended, last, owed,
                 reports, lost, reporterVars, thread, built, covered, faulted, wiped>>

-----------------------------------------------------------------------------
(***************************************************************************)
(* Stage stamps, in program order around the calls they bracket.           *)
(***************************************************************************)
Stamp(from, to, i, allowed, s) ==
  /\ At("main", from) /\ i = thread["main"].who /\ set_stage_if(i, allowed, s) /\ Goto("main", to)
  /\ covered' = covered \cup markers'
  /\ UNCHANGED <<up, life, consent, fault_file, sweep, ended, last, owed, reports, lost, armed, fresh,
                 client, release, veh, swept, built, faulted, wiped, flipped>>

InitStamp(i) == Stamp("initStamp", "sync", i, not_editor, "initializing") /\ UNCHANGED inst
InitDone(i)  ==
  /\ Stamp("initDone", "idle", i, {"initializing"}, "initialized")
  /\ inst' = IF inst[i] = "loaded" THEN [inst EXCEPT ![i] = "ready"] ELSE inst

Creating(i)  == Stamp("creating", "opened", i, Stage, "editor_creating") /\ UNCHANGED inst
Opened(i)    ==
  /\ Stamp("opened", "idle", i, Stage, "editor_open")
  /\ inst' = [inst EXCEPT ![i] = "open"]
Closing(i)   == Stamp("closing", "idle", i, Stage, "editor_closed") /\ UNCHANGED inst

StampStep == \E i \in Instances :
  InitStamp(i) \/ InitDone(i) \/ Creating(i) \/ Opened(i) \/ Closing(i)

-----------------------------------------------------------------------------
(***************************************************************************)
(* sync_consent: the decision is taken under the slot's lock and acted on  *)
(* outside it, where another thread may have acted on the same slot.       *)
(***************************************************************************)
sessionRest == <<up, life, consent, markers, stage, marker_file, ended, last, owed, reports, lost>>

Sync(t) ==
  LET i == thread[t].who IN
  /\ At(t, "sync")
  /\ Goto(t, CASE consent /\ i \notin armed -> "reporter"
               [] ~consent /\ i \in armed -> "take"
               [] OTHER -> thread[t].ret)
  /\ UNCHANGED <<session, inst, armed, fresh, client, release, veh, swept, history>>

\* The last reference to go runs Reporter::drop.
Drops(t, lastRef, then) ==
  /\ Goto(t, IF lastRef THEN "uninstall" ELSE then)
  /\ built' = IF lastRef THEN "whole" ELSE built

\* What a slot gives up when it is taken.
Released(t, i, then) ==
  /\ armed' = armed \ {i}
  /\ Drops(t, i \in armed /\ LastRef(armed \ {i}), then)

Take(t) ==
  /\ At(t, "take") /\ Released(t, thread[t].who, thread[t].ret)
  /\ UNCHANGED <<session, inst, fresh, client, release, veh, swept, covered, faulted, wiped,
                 flipped>>

(***************************************************************************)
(* reporter(): upgrade, or init, which may fail or be backing off; then    *)
(* the handler, the hub and the session.  The registry's lock is held from *)
(* one end to the other; Reporter::drop does not take it.                  *)
(***************************************************************************)
\* Mutant: the handler is installed once for the process.
MutInstalled == veh # "off" \/ swept

Installed == veh # "off"

\* OPEN_ALWAYS: an empty file is evidence of nothing.
open_fault_file ==
  fault_file' = IF fault_file[life] = NoFile
                THEN [fault_file EXCEPT ![life] = "empty"] ELSE fault_file

DropSteps == {"uninstall", "end_session", "close"}

\* A client coming up beside the teardown of the one before it.
TearingDown == \E u \in Threads : thread[u].pc \in DropSteps

\* Idempotent; without the image range or the file a no-op, and when the handler is
\* refused the file is there all the same.
install ==
  \/ /\ Installed /\ UNCHANGED <<veh, fault_file>>
     /\ built' = IF TearingDown THEN "beside" ELSE "whole"
  \/ /\ ~Installed /\ veh' = "file" /\ open_fault_file
     /\ built' = IF TearingDown THEN "beside" ELSE "whole"
  \/ /\ ~Installed /\ UNCHANGED veh /\ (UNCHANGED fault_file \/ open_fault_file)
     /\ built' = IF TearingDown THEN "beside" ELSE "bare"

ReporterStep(t) ==
  /\ At(t, "reporter") /\ \A u \in Threads : thread[u].pc # "bind"
  /\ IF ~LastRef(armed)
     THEN fresh' = fresh \cup {t} /\ Goto(t, "store") /\ UNCHANGED <<veh, fault_file, built>>
     ELSE \/ Goto(t, thread[t].ret) /\ UNCHANGED <<fresh, veh, fault_file, built>>
          \/ Goto(t, "bind") /\ install /\ UNCHANGED fresh
  /\ UNCHANGED <<sessionRest, sweep, inst, armed, client, release, swept,
                 covered, faulted, wiped, flipped>>

Bind(t) ==
  /\ At(t, "bind")
  /\ client' = TRUE /\ release' = TRUE /\ fresh' = fresh \cup {t}
  /\ Goto(t, "store")
  /\ UNCHANGED <<session, inst, armed, veh, swept, history>>

\* The sweep is spawned once, whether or not the queue takes it; then the
\* answer is read again under the slot's lock.
StillConsents == consent

Store(t) ==
  LET i == thread[t].who IN
  /\ At(t, "store")
  /\ swept' = TRUE
  /\ \/ ~swept /\ sweep' = [sweep EXCEPT !.step = "queued"]
     \/ UNCHANGED sweep
  /\ fresh' = fresh \ {t}
  /\ armed' = IF StillConsents THEN armed \cup {i} ELSE armed
  /\ Drops(t, armed' = {} /\ fresh' = {}, thread[t].ret)
  /\ UNCHANGED <<sessionRest, fault_file, inst, client, release, veh, covered, faulted, wiped,
                 flipped>>

(***************************************************************************)
(* Reporter::drop, outside every lock.                                     *)
(***************************************************************************)
Uninstall(t) ==
  /\ At(t, "uninstall") /\ veh' = "off" /\ Goto(t, "end_session")
  /\ UNCHANGED <<session, inst, armed, fresh, client, release, swept, history>>

EndSession(t) ==
  /\ At(t, "end_session") /\ release' = FALSE /\ Goto(t, "close")
  /\ UNCHANGED <<session, inst, armed, fresh, client, veh, swept, history>>

\* The guard joins the transport thread; a client bound since stays bound.
Close(t) ==
  /\ At(t, "close") /\ client' = (client /\ ~LastRef(armed)) /\ Goto(t, thread[t].ret)
  /\ UNCHANGED <<session, inst, armed, fresh, release, veh, swept, history>>

ArmStep(t) == Sync(t) \/ Take(t) \/ ReporterStep(t) \/ Bind(t) \/ Store(t)
DropReporter(t) == Uninstall(t) \/ EndSession(t) \/ Close(t)

-----------------------------------------------------------------------------
(***************************************************************************)
(* An instance dies: its fields drop in declaration order, crash (slot,    *)
(* then worker) before markers.                                            *)
(***************************************************************************)
\* Mutant: the marker goes first, and a fault in the client's teardown comes too late.
MutFirstField == "marker"

FirstField == "release"

After(step) == IF FirstField = "release"
               THEN IF step = "release" THEN "marker" ELSE "gone"
               ELSE IF step = "marker" THEN "release" ELSE "gone"

Destroy(t, i) ==
  /\ up /\ thread["main"] = Idle /\ thread[t] = Idle /\ t # "ui"
  /\ inst[i] \in {"loaded", "ready"}
  /\ inst' = [inst EXCEPT ![i] = "dying"]
  /\ Begin(t, i, FirstField, After("release"))
  /\ UNCHANGED <<session, armed, fresh, client, release, veh, swept, history>>

DropSlot(t, i) ==
  /\ At(t, "release") /\ i = thread[t].who
  /\ Released(t, i, After("release"))
  /\ UNCHANGED <<session, inst, fresh, client, release, veh, swept, covered, faulted, wiped,
                 flipped>>

DropMarker(t, i) ==
  /\ At(t, "marker") /\ i = thread[t].who
  /\ markers' = markers \ {i}
  /\ Goto(t, IF markers = {i} THEN "has_fault" ELSE After("marker"))
  /\ UNCHANGED <<up, life, consent, stage, marker_file, fault_file, sweep, ended, last, owed, reports,
                 lost, reporterVars, history>>

HasFault(t) ==
  /\ At(t, "has_fault") /\ Goto(t, IF has_fault THEN After("marker") ELSE "rmMarker")
  /\ faulted' = IF fault_file[life] = "record" THEN faulted \cup {life} ELSE faulted
  /\ UNCHANGED <<session, reporterVars, built, covered, wiped, flipped>>

(***************************************************************************)
(* Nothing keeps a marker from being made, or a fault from being recorded, *)
(* between the look at the fault file and the removals.                    *)
(***************************************************************************)
Overtaken(t) ==
  \/ markers # {} \/ fault_file[life] = "record"
  \/ \E u \in Threads \ {t} : thread[u].pc = "has_fault"

RemoveMarker(t) ==
  /\ At(t, "rmMarker") /\ remove_marker /\ Goto(t, "rmFault")
  /\ wiped' = IF Overtaken(t) THEN wiped \cup {life} ELSE wiped
  /\ UNCHANGED <<up, life, consent, markers, stage, fault_file, sweep, ended, last, owed, reports,
                 lost, reporterVars, built, covered, faulted, flipped>>

\* FILE_SHARE_DELETE: the file goes, and an installed handler's handle stays.
RemoveFault(t) ==
  /\ At(t, "rmFault") /\ remove_fault /\ Goto(t, After("marker"))
  /\ veh' = IF veh = "file" THEN "removed" ELSE veh
  /\ wiped' = IF life \in faulted THEN wiped \cup {life} ELSE wiped
  /\ UNCHANGED <<sessionRest, sweep, inst, armed, fresh, client, release, swept,
                 built, covered, faulted, flipped>>

\* The worker dies with its last handle: it drains its queue unrun and joins.
Gone(t, i) ==
  /\ At(t, "gone") /\ i = thread[t].who
  /\ inst' = [inst EXCEPT ![i] = "absent"] /\ Goto(t, "idle")
  /\ IF \A j \in Instances \ {i} : inst[j] = "absent"
     THEN sweep.step \in {"idle", "queued"} /\ sweep' = NoSweep
     ELSE UNCHANGED sweep
  /\ covered' = covered \ {i}
  /\ UNCHANGED <<sessionRest, fault_file, armed, fresh, client, release, veh, swept,
                 built, faulted, wiped, flipped>>

TeardownStep(t) ==
  \/ DropReporter(t) \/ HasFault(t) \/ RemoveMarker(t) \/ RemoveFault(t)
  \/ \E i \in Instances : DropSlot(t, i) \/ DropMarker(t, i) \/ Gone(t, i)

-----------------------------------------------------------------------------
(***************************************************************************)
(* What goes wrong: a fault the handler records and the host survives, a   *)
(* panic on the client's own thread while it is joined, death, and a host  *)
(* that ends with nothing loaded.  The neighbour ends too.                 *)
(***************************************************************************)
Record(attached) ==
  /\ record_fault
  /\ faulted' = IF attached # {} THEN faulted \cup {life} ELSE faulted

\* The handler writes through its handle, whatever has become of the file.
Fault ==
  /\ up
  /\ \/ veh = "file" /\ Record(markers) /\ UNCHANGED wiped
     \/ /\ veh = "removed" /\ markers # {} /\ UNCHANGED fault_file
        /\ faulted' = faulted \cup {life} /\ wiped' = wiped \cup {life}
  /\ UNCHANGED <<sessionRest, sweep, reporterVars, thread, built, covered, flipped>>

Die(how) ==
  /\ up' = FALSE /\ ended' = [ended EXCEPT ![life] = how]
  /\ markers' = {} /\ sweep' = NoSweep /\ lost' = lost \cup Held
  /\ owed' = IF markers # {} \/ life \in faulted' THEN owed \cup {life} ELSE owed
  /\ last' = [last EXCEPT ![life] = stage]
  /\ inst' = NoneLoaded /\ thread' = NoThreads /\ armed' = {} /\ covered' = {}
  /\ fresh' = {} /\ client' = FALSE /\ release' = FALSE /\ veh' = "off" /\ swept' = FALSE
  /\ built' = "whole"
  /\ UNCHANGED <<life, consent, stage, marker_file, reports, wiped, flipped>>

Crash == up /\ UNCHANGED <<fault_file, faulted>> /\ Die("crash")

\* join().unwrap() on a transport thread that panicked aborts the host; the
\* hook has recorded the panic, given consent.
TransportPanic(t) ==
  /\ At(t, "close")
  /\ IF consent THEN Record(markers \cup (covered \cap {thread[t].who})) ELSE UNCHANGED <<fault_file, faulted>>
  /\ Die("crash")

Exit ==
  /\ up /\ thread = NoThreads /\ \A i \in Instances : inst[i] = "absent"
  /\ UNCHANGED <<fault_file, faulted>> /\ Die("clean")

NeighbourDies(clean) ==
  /\ ended[0] = "no"
  /\ ended' = [ended EXCEPT ![0] = IF clean THEN "clean" ELSE "crash"]
  /\ IF clean THEN /\ marker_file' = [marker_file EXCEPT ![0] = NoFile]
                   /\ fault_file' = [fault_file EXCEPT ![0] = NoFile] /\ UNCHANGED owed
     ELSE owed' = owed \cup {0} /\ UNCHANGED <<marker_file, fault_file>>
  /\ UNCHANGED <<up, life, consent, markers, stage, sweep, last, reports, lost, reporterVars,
                 thread, history>>

HostStep == \E i \in Instances :
  Load(i) \/ InitializeCall(i) \/ FrameCall(i) \/ OpenCall(i) \/ CloseCall(i)
    \/ (\E t \in Threads : Destroy(t, i))

PluginStep == StampStep \/ (\E t \in Threads : ArmStep(t) \/ TeardownStep(t))

Next ==
  \/ Start \/ HostStep \/ Answer \/ PluginStep
  \/ SweepStep(client) /\ UNCHANGED <<reporterVars, thread, history>>
  \/ Fault \/ Crash \/ Exit
  \/ \E t \in Threads : TransportPanic(t)
  \/ \E clean \in BOOLEAN : NeighbourDies(clean)

Spec == Init /\ [][Next]_vars

-----------------------------------------------------------------------------
(***************************************************************************)
(* A life that died with the marker attached, or that recorded a fault     *)
(* while one was, is accounted for: its marker is on disk at the stage it  *)
(* had reached, a sweep holds it, it was reported, or it was given up for  *)
(* one of the causes the code names (too old, cap reached, the sweeper     *)
(* died or its client closed) - or (wiped) for two it does not name: a     *)
(* marker's teardown was still removing files when another instance made   *)
(* the next marker or a fault was recorded, or it had removed the file     *)
(* that the handler, left armed by an instance without a marker, writes to.*)
(***************************************************************************)
DeathsAccountedFor ==
  \A l \in owed :
    \/ marker_file[l] = last[l]
    \/ l \in Held \cup lost \cup wiped
    \/ \E r \in reports : r.life = l

\* Every report is of a life that is over and ended badly, at the stage it had
\* reached: no host still running and no clean exit is reported as a crash.
ReportsAreTrue ==
  \A r \in reports :
    /\ ended[r.life] = "crash" \/ r.life \in owed
    /\ r.stage = last[r.life]

(***************************************************************************)
(* While any instance is armed the process has all of it: a bound client,  *)
(* a release-health session and, unless its install failed, the exception  *)
(* handler - unless the client was brought up beside the teardown of the   *)
(* one before it, which takes down whatever it finds.                      *)
(***************************************************************************)
ArmedIsWhole ==
  armed # {} /\ built # "beside" => client /\ release /\ (built = "whole" => veh # "off")

\* Unless the answer changed meanwhile, death inside spawn() is reported as
\* editor_creating, and death with a window open as an editor's, whatever
\* initialize() stamps for state loads and other instances.
WindowIsReported ==
  \A i \in markers : life \notin flipped =>
    /\ inst[i] = "open" => is_editor(stage)
    /\ At("main", "opened") /\ thread["main"].who = i => stage = "editor_creating"

=============================================================================
