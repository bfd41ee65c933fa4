---------------------------- MODULE CaptureCycle ----------------------------
(***************************************************************************)
(* What the capture phase machine promises, as one atomic state machine    *)
(* (the diagram at the head of src/capture.rs with the abandoning and      *)
(* reclaiming edges of reset(), cancel_capture() and initialize()): at     *)
(* most one capture exists, each finished capture is published at most     *)
(* once and before the next one is finished, and only a snapshot that was  *)
(* complete may be published after its successor was armed.                *)
(***************************************************************************)
VARIABLES
  stage,   \* the phase of the current capture
  due,     \* what is still to be published: nothing, an analysis, or the
           \* snapshot it made, of the latest capture or overtaken by it
  shown    \* the snapshot shown: the latest armed capture's, or an earlier one's or none

vars == <<stage, due, shown>>

Init == stage = "IDLE" /\ due = "none" /\ shown = "earlier"

\* Audio thread: a start edge; never while an earlier analysis may be completed.
Arm ==
  /\ stage = "IDLE" /\ due # "analysis"
  /\ stage' = "ARMED"
  /\ due' = IF due = "snapshot" THEN "overtaken" ELSE due
  /\ shown' = "earlier"

\* Audio thread: the gate opened.
Start == stage = "ARMED" /\ stage' = "CAPTURING" /\ UNCHANGED <<due, shown>>

\* Stop with nothing recorded, cancel, or reset.
Abandon == stage \in {"ARMED", "CAPTURING"} /\ stage' = "IDLE" /\ UNCHANGED <<due, shown>>

\* Audio thread: stop, or the buffers are full; what came before is published.
Finish ==
  /\ stage = "CAPTURING" /\ due = "none"
  /\ stage' = "ANALYZING" /\ due' = "analysis"
  /\ UNCHANGED shown

\* Background task: the analysis, inside the Analyzing phase.
Complete ==
  /\ due = "analysis" /\ stage = "ANALYZING"
  /\ due' = "snapshot"
  /\ UNCHANGED <<stage, shown>>

\* Background task: the snapshot reaches the editor.
Publish ==
  /\ due \in {"snapshot", "overtaken"}
  /\ shown' = IF due = "snapshot" THEN "latest" ELSE "earlier"
  /\ due' = "none"
  /\ UNCHANGED stage

\* A dropped dispatch, a panic, or an initialize() that invalidates the task.
GiveUp == due = "analysis" /\ due' = "none" /\ UNCHANGED <<stage, shown>>

\* The task, its repair arm, or an initialize() that reclaims the phase.
Release == stage = "ANALYZING" /\ stage' = "IDLE" /\ UNCHANGED <<due, shown>>

Next == Arm \/ Start \/ Abandon \/ Finish \/ Complete \/ Publish \/ GiveUp \/ Release

Spec == Init /\ [][Next]_vars
=============================================================================
