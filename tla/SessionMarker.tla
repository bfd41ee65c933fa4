---------------------------- MODULE SessionMarker ----------------------------
(***************************************************************************)
(* The files by which a process that dies is reported by the next one      *)
(* (session_marker.rs): one marker per process, holding the stage its life *)
(* had reached, one fault file beside it, and the sweep that collects what *)
(* dead processes left behind.  Lives stand for process ids; life 0 is a   *)
(* host running elsewhere, the others are successive lives of this one.    *)
(* CrashReporter supplies the threads that take these steps.               *)
(***************************************************************************)
EXTENDS Naturals, FiniteSets, Sequences

CONSTANTS
  Instances,     \* plugin instances a host may load
  MaxLives,      \* bound on the lives of this host
  MaxReports,    \* MAX_REPORTS_PER_SWEEP
  NoFile

ASSUME SessionAssumption ==
  /\ IsFiniteSet(Instances) /\ MaxLives \in Nat \ {0} /\ MaxReports \in Nat \ {0}
  /\ NoFile \notin {"empty", "record", "initializing", "initialized",
                    "editor_creating", "editor_open", "editor_closed"}

VARIABLES
  up, life,                  \* whether this host runs, and which life it is in
  consent,                   \* the stored answer, config::analytics_enabled()
  markers,                   \* MarkerHandles that hold the process-wide Marker
  stage,                     \* Marker::stage; meaningful while markers # {}
  marker_file, fault_file,   \* sessions/<pid>.json and sessions/<pid>.fault
  sweep,                     \* the sweep job on the network worker
  ended,                     \* history: how each life ended
  last,                      \* history: the stage each life ended at
  owed,                      \* history: lives that died unclean
  reports, lost              \* history: reports captured; lives given up unreported

session == <<up, life, consent, markers, stage, marker_file, fault_file, sweep,
             ended, last, owed, reports, lost>>

Lives       == 0 .. MaxLives
EditorStage == {"editor_creating", "editor_open", "editor_closed"}
Stage       == {"initializing", "initialized"} \cup EditorStage
is_editor(s) == s \in EditorStage

NoSweep == [step |-> "idle", todo |-> {}, pid |-> 0, read |-> NoFile, found |-> <<>>]

Entry  == [life : Lives, stage : Stage, faults : BOOLEAN]
Sweeps == [step : {"idle", "queued", "check", "read", "faults", "capture"}, todo : SUBSET Lives,
           pid : Lives, read : Stage \cup {NoFile}, found : Seq(Entry)]

SessionTypeOK ==
  /\ up \in BOOLEAN /\ life \in Lives /\ consent \in BOOLEAN
  /\ markers \subseteq Instances /\ stage \in Stage
  /\ marker_file \in [Lives -> Stage \cup {NoFile}]
  /\ fault_file \in [Lives -> {NoFile, "empty", "record"}]
  /\ sweep \in Sweeps
  /\ ended \in [Lives -> {"no", "clean", "crash"}]
  /\ last \in [Lives -> Stage] /\ owed \subseteq Lives
  /\ reports \subseteq Entry /\ lost \subseteq Lives

SessionInit ==
  /\ up = FALSE /\ life = 0 /\ consent \in BOOLEAN
  /\ markers = {} /\ stage = "initializing"
  /\ marker_file = [l \in Lives |-> IF l = 0 THEN "initialized" ELSE NoFile]
  /\ fault_file = [l \in Lives |-> IF l = 0 THEN "empty" ELSE NoFile]
  /\ sweep = NoSweep
  /\ ended = [l \in Lives |-> "no"] /\ owed = {}
  /\ last = [l \in Lives |-> "initialized"]
  /\ reports = {} /\ lost = {}

-----------------------------------------------------------------------------
(***************************************************************************)
(* Stamping.  marker() attaches to the live Marker or, with consent, makes *)
(* one: either is the whole effect of a handle's first stamp.  Later       *)
(* stamps write the file when the current stage is an allowed one.         *)
(***************************************************************************)
write(s) == marker_file' = [marker_file EXCEPT ![life] = s]

\* Marker::create: nothing on disk without consent.
create(i, s) == IF consent THEN markers' = {i} /\ stage' = s /\ write(s)
                ELSE UNCHANGED <<markers, stage, marker_file>>

\* marker() for a handle without one: upgrade, create, or neither.
Attach(i, s) ==
  IF markers # {} THEN /\ markers' = markers \cup {i}
                       /\ UNCHANGED <<stage, marker_file>>
  ELSE create(i, s)

\* Marker::set_stage_if
Advance(allowed, s) ==
  IF stage = s \/ stage \notin allowed THEN UNCHANGED <<stage, marker_file>>
  ELSE stage' = s /\ write(s)

\* MarkerHandle::set_stage_if
set_stage_if(i, allowed, s) ==
  IF i \notin markers THEN Attach(i, s) ELSE Advance(allowed, s) /\ UNCHANGED markers

\* Mutant: the guard that keeps a state load from walking an editor stage back is gone.
MutNotEditor == Stage

not_editor == {s \in Stage : ~is_editor(s)}

has_fault == fault_file[life] = "record"

\* Marker::drop removes the marker first, then the fault file.
remove_marker == marker_file' = [marker_file EXCEPT ![life] = NoFile]
remove_fault  == fault_file' = [fault_file EXCEPT ![life] = NoFile]

\* record_fault: creates the file when it is not there.
record_fault == fault_file' = [fault_file EXCEPT ![life] = "record"]

-----------------------------------------------------------------------------
(***************************************************************************)
(* The sweep, entry by entry: take_stale_in, then sweep_stale_sessions'    *)
(* loop over what it returned.                                             *)
(***************************************************************************)
\* Mutant: whoever left a marker is taken for dead.
MutSkips(l) == l = life

\* process_is_alive may answer TRUE for a pid that is gone, never FALSE for a live one.
Skips(l) == l = life \/ ended[l] = "no"

SweepList ==
  /\ sweep.step = "queued"
  /\ sweep' = [sweep EXCEPT !.step = "check", !.todo = {l \in Lives \ {life} : marker_file[l] # NoFile}]
  /\ UNCHANGED <<marker_file, fault_file, reports, lost>>

SweepSkip(l) ==
  /\ sweep.step = "check" /\ l \in sweep.todo
  /\ sweep' = [sweep EXCEPT !.todo = @ \ {l}]
  /\ UNCHANGED <<marker_file, fault_file, reports, lost>>

\* Read, parsed and filtered by age; old: it was written more than a week ago.
SweepRead(l, old) ==
  /\ sweep.step = "check" /\ l \in sweep.todo /\ ~Skips(l)
  /\ sweep' = [step |-> "read", todo |-> sweep.todo \ {l}, pid |-> l,
                read |-> IF old THEN NoFile ELSE marker_file[l], found |-> sweep.found]
  /\ lost' = IF old THEN lost \cup {l} ELSE lost
  /\ UNCHANGED <<marker_file, fault_file, reports>>

SweepRemove ==
  /\ sweep.step = "read"
  /\ marker_file' = [marker_file EXCEPT ![sweep.pid] = NoFile]
  /\ sweep' = [sweep EXCEPT !.step = "faults"]
  /\ UNCHANGED <<fault_file, reports, lost>>

\* The fault file is read and removed; beyond the cap the session is dropped.
SweepFaults ==
  LET l == sweep.pid
      entry == [life |-> l, stage |-> sweep.read, faults |-> fault_file[l] = "record"]
      keep == sweep.read # NoFile /\ Len(sweep.found) < MaxReports IN
  /\ sweep.step = "faults"
  /\ fault_file' = [fault_file EXCEPT ![l] = NoFile]
  /\ sweep' = [step |-> "check", todo |-> sweep.todo, pid |-> l, read |-> NoFile,
                found |-> IF keep THEN Append(sweep.found, entry) ELSE sweep.found]
  /\ lost' = IF keep THEN lost ELSE lost \cup {l}
  /\ UNCHANGED <<marker_file, reports>>

SweepReturn ==
  /\ sweep.step = "check" /\ sweep.todo = {}
  /\ sweep' = IF sweep.found = <<>> THEN NoSweep ELSE [sweep EXCEPT !.step = "capture"]
  /\ UNCHANGED <<marker_file, fault_file, reports, lost>>

\* capture_event reaches the server only through an open client.
SweepCapture(open) ==
  LET r == Head(sweep.found) IN
  /\ sweep.step = "capture"
  /\ reports' = IF open THEN reports \cup {r} ELSE reports
  /\ lost' = IF open THEN lost ELSE lost \cup {r.life}
  /\ sweep' = IF Tail(sweep.found) = <<>> THEN NoSweep ELSE [sweep EXCEPT !.found = Tail(@)]
  /\ UNCHANGED <<marker_file, fault_file>>

SweepStep(open) ==
  /\ up
  /\ \/ SweepList \/ SweepRemove \/ SweepFaults \/ SweepReturn \/ SweepCapture(open)
     \/ \E l \in Lives : SweepSkip(l) \/ (\E old \in BOOLEAN : SweepRead(l, old))
  /\ UNCHANGED <<up, life, consent, markers, stage, ended, last, owed>>

\* Lives whose files are in the hands of a sweep that has not reported them yet.
Held == (IF sweep.step \in {"read", "faults"} THEN {sweep.pid} ELSE {})
          \cup {sweep.found[k].life : k \in 1 .. Len(sweep.found)}
=============================================================================
