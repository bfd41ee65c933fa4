----------------------------- MODULE Alignment -----------------------------
(***************************************************************************)
(* The alignment path of one plugin instance: the latency initialize()     *)
(* reports, the target current_target() derives from parameters and        *)
(* detected values each block, the delay line that follows it, the shift   *)
(* the editor displays, and the two writers of the detected values: the    *)
(* analysis task and a state load.                                         *)
(*                                                                         *)
(* Times in milliseconds are whole numbers, delays whole numbers of 1/Sub  *)
(* sample; latencies are samples, rounded as the code rounds them.         *)
(***************************************************************************)
EXTENDS AlignDelay

CONSTANTS
  Sub,             \* sub-sample resolution of a delay
  Rates,           \* sample rates, in 1/Sub samples per millisecond
  FirCenter,       \* FIR_CENTER, in samples
  MaxShifts, MaxShiftMax,   \* values of the Max Shift parameter and their maximum
  Polarities,      \* values of Polarity the host uses
  Trims, TrimMax, NonFinite,  \* values of Manual Trim; NonFinite is a NaN
  FadeLen(_),      \* CROSSFADE_SECONDS in samples at a rate
  Results,         \* accepted results: [offset : ms, inverted : BOOLEAN]
  Rejected,        \* the outcome of a capture the analysis rejects
  NoResult, NoConfig

ASSUME AlignmentAssumption ==
  /\ Sub \in Nat \ {0} /\ FirCenter \in Nat
  /\ CenterTap = [delay |-> Sub * FirCenter, inverted |-> FALSE]
  /\ Rates \subseteq Nat \ {0} /\ (\A rate \in Rates : FadeLen(rate) \in Nat) /\ NoConfig \notin Rates
  /\ MaxShiftMax \in Nat \ {0} /\ MaxShifts \subseteq 1 .. MaxShiftMax
  /\ Polarities \subseteq {"Auto", "Normal", "Inverted"}
  /\ TrimMax \in Nat /\ NonFinite \notin Int
  /\ Trims \subseteq (-TrimMax .. TrimMax) \cup {NonFinite}
  /\ Results \subseteq [offset : Int, inverted : BOOLEAN]
  /\ {NoResult, Rejected} \cap Results = {} /\ NoResult # Rejected

VARIABLES
  align_on, polarity, trim, max_shift,          \* host parameters
  detected_offset, detected_polarity, snapshot,  \* persisted analysis results
  sample_rate, last_latency, active_config,     \* ConjureAlign's own fields
  line,                                         \* the AlignDelay
  window,                                       \* GuiShared's packed (window, rate)
  pc, offset,                                   \* plugin thread, its local offset
  storing, result,                              \* analysis task, its result
  loading, loaded,                              \* state load, its saved result
  settling          \* history: samples processed since the target last changed

params   == <<align_on, polarity, trim, max_shift>>
detected == <<detected_offset, detected_polarity, snapshot>>
plugin   == <<sample_rate, last_latency, active_config, line, window, pc, offset, settling>>
task     == <<storing, result>>
load     == <<loading, loaded>>
vars     == <<params, detected, plugin, task, load>>

-----------------------------------------------------------------------------
\* round() and ceil() of 1/Sub samples to samples.
Round(x) == (x + Sub \div 2) \div Sub
Ceil(x)  == (x + Sub - 1) \div Sub

latency_samples(ms, rate) == Round(ms * rate) + FirCenter

\* Mutant: the Max Shift knob instead of the latency the host was told about.
MutReportedWindow(latency) == Round(max_shift * sample_rate)

\* saturating_sub
reported_window(latency) == IF latency < FirCenter THEN 0 ELSE latency - FirCenter

Clamp(x, bound) == IF x < -bound THEN -bound ELSE IF x > bound THEN bound ELSE x

MaxDelay(rate) == 2 * Ceil(MaxShiftMax * rate) + Ceil(TrimMax * rate) + FirCenter + 1

\* Detected offset plus trim; what is not finite counts as 0.
Wanted(off) == IF trim = NonFinite THEN 0 ELSE off + trim

Inverted == CASE polarity = "Auto" -> detected_polarity
              [] polarity = "Normal" -> FALSE
              [] polarity = "Inverted" -> TRUE

\* current_target() with the offset it has read and the other fields as they are.
current_target(off, latency, rate) ==
  IF ~align_on
  THEN [delay |-> Sub * latency, inverted |-> FALSE]
  ELSE [delay |-> Sub * latency + Clamp(Wanted(off) * rate, Sub * reported_window(latency)),
        inverted |-> Inverted]

\* The editor's net_shift(), in 1/Sub samples, from the mirrored window.
net_shift ==
  LET raw == Wanted(detected_offset) * window.rate
  IN  IF ~align_on THEN 0
      ELSE IF window.samples = 0 THEN raw
      ELSE Clamp(raw, Sub * window.samples)

-----------------------------------------------------------------------------
Init ==
  /\ align_on = TRUE /\ polarity = "Auto" /\ trim = 0 /\ max_shift \in MaxShifts
  /\ detected_offset = 0 /\ detected_polarity = FALSE /\ snapshot = NoResult
  /\ sample_rate \in Rates /\ last_latency = 0 /\ active_config = NoConfig
  /\ line = NewLine(FirCenter, 1)
  /\ window = [samples |-> 0, rate |-> sample_rate]
  /\ pc = "inactive" /\ offset = 0
  /\ storing = "no" /\ result = NoResult
  /\ loading = "no" /\ loaded = NoResult
  /\ settling = 0

(***************************************************************************)
(* Plugin thread.  current_target() loads detected_offset_ms and then      *)
(* detected_polarity: two steps.                                           *)
(***************************************************************************)
\* initialize() begins: the latency to report, on a slow path a line for the new rate.
InitializeLine(rate) ==
  /\ pc \in {"inactive", "idle"}
  /\ \/ loading = "no" /\ UNCHANGED loading
     \/ loading = "initialize" /\ rate = sample_rate /\ loading' = "no"
  /\ sample_rate' = rate
  /\ IF active_config = rate
     THEN UNCHANGED <<line, active_config>>
     ELSE /\ line' = NewLine(MaxDelay(rate), FadeLen(rate))
          /\ active_config' \in {rate, NoConfig}   \* NoConfig: keep-buffers arm
  /\ last_latency' = latency_samples(max_shift, rate)
  /\ pc' = "report"
  /\ UNCHANGED <<params, detected, window, offset, task, loaded, settling>>

\* Mutant: the window is mirrored only on the first activation.
MutReportWindow ==
  /\ pc = "report"
  /\ window' = IF window.samples > 0 THEN window
               ELSE [samples |-> reported_window(last_latency), rate |-> sample_rate]
  /\ offset' = detected_offset /\ pc' = "jump"
  /\ UNCHANGED <<params, detected, sample_rate, last_latency, active_config, line,
                 settling, task, load>>

\* ... the window for the editor, and the first half of current_target() ...
ReportWindow ==
  /\ pc = "report"
  /\ window' = [samples |-> reported_window(last_latency), rate |-> sample_rate]
  /\ offset' = detected_offset /\ pc' = "jump"
  /\ UNCHANGED <<params, detected, sample_rate, last_latency, active_config, line,
                 settling, task, load>>

\* ... and the target, which is jumped to and not faded in.
InitializeTarget ==
  /\ pc = "jump"
  /\ line' = ResetLine(Retarget(line, current_target(offset, last_latency, sample_rate)))
  /\ pc' = "idle" /\ offset' = 0 /\ settling' = 2 * line.fade_len
  /\ UNCHANGED <<params, detected, window, sample_rate, last_latency, active_config,
                 task, load>>

\* reset()
Reset ==
  /\ pc = "idle"
  /\ line' = ResetLine(line) /\ settling' = 2 * line.fade_len
  /\ UNCHANGED <<params, detected, sample_rate, last_latency, active_config, window,
                 pc, offset, task, load>>

BlockTarget ==
  /\ pc = "idle"
  /\ offset' = detected_offset /\ pc' = "retarget"
  /\ UNCHANGED <<params, detected, sample_rate, last_latency, active_config, line,
                 window, task, load, settling>>

BlockRetarget ==
  /\ pc = "retarget"
  /\ LET target == current_target(offset, last_latency, sample_rate)
     IN  /\ line' = Retarget(line, target)
         /\ settling' = IF target = ultimate_target(line) THEN settling ELSE 0
  /\ pc' = "samples" /\ offset' = 0
  /\ UNCHANGED <<params, detected, sample_rate, last_latency, active_config, window,
                 task, load>>

\* Samples of the block; the count is kept up to two fades.
BlockSample ==
  /\ pc = "samples"
  /\ line' = Advance(line)
  /\ settling' = IF settling >= 2 * line.fade_len THEN settling ELSE settling + 1
  /\ pc' \in {"samples", "idle"}
  /\ UNCHANGED <<params, detected, sample_rate, last_latency, active_config, window,
                 offset, task, load>>

PluginStep ==
  \/ \E rate \in Rates : InitializeLine(rate)
  \/ ReportWindow \/ InitializeTarget \/ Reset \/ BlockTarget \/ BlockRetarget \/ BlockSample

(***************************************************************************)
(* The writers of the detected values.  The analysis task stores offset,   *)
(* polarity and, after computing the spectra, the snapshot; a state load   *)
(* restores them in the order of their keys, then has initialize() run.    *)
(* Loads and activations are calls of the host's main thread.              *)
(***************************************************************************)
StoreOffset(r) ==
  /\ storing = "no" /\ pc # "inactive"
  /\ detected_offset' = r.offset /\ result' = r /\ storing' = "polarity"
  /\ UNCHANGED <<params, detected_polarity, snapshot, plugin, load>>

\* A rejected capture keeps the previous values and publishes its graphs.
Reject ==
  /\ storing = "no" /\ pc # "inactive"
  /\ result' = Rejected /\ storing' = "snapshot"
  /\ UNCHANGED <<params, detected, plugin, load>>

StorePolarity ==
  /\ storing = "polarity"
  /\ detected_polarity' = result.inverted /\ storing' = "snapshot"
  /\ UNCHANGED <<params, detected_offset, snapshot, plugin, result, load>>

StoreSnapshot ==
  /\ storing = "snapshot"
  /\ snapshot' = result /\ storing' = "no" /\ result' = NoResult
  /\ UNCHANGED <<params, detected_offset, detected_polarity, plugin, load>>

LoadSnapshot(r) ==
  /\ loading = "no" /\ pc \notin {"report", "jump"}
  /\ snapshot' = r /\ loaded' = r /\ loading' = "offset"
  /\ UNCHANGED <<params, detected_offset, detected_polarity, plugin, task>>

LoadOffset ==
  /\ loading = "offset"
  /\ detected_offset' = loaded.offset /\ loading' = "polarity"
  /\ UNCHANGED <<params, detected_polarity, snapshot, plugin, task, loaded>>

LoadPolarity ==
  /\ loading = "polarity"
  /\ detected_polarity' = loaded.inverted
  /\ loading' = IF pc = "inactive" THEN "no" ELSE "initialize"
  /\ loaded' = NoResult
  /\ UNCHANGED <<params, detected_offset, snapshot, plugin, task>>

StoreStep == (\E r \in Results : StoreOffset(r)) \/ Reject \/ StorePolarity \/ StoreSnapshot
LoadStep  == (\E r \in Results : LoadSnapshot(r)) \/ LoadOffset \/ LoadPolarity

\* Host automation, a generic UI or the editor.
SetParameters ==
  /\ \/ align_on' \in BOOLEAN /\ UNCHANGED <<polarity, trim, max_shift>>
     \/ polarity' \in Polarities /\ UNCHANGED <<align_on, trim, max_shift>>
     \/ trim' \in Trims /\ UNCHANGED <<align_on, polarity, max_shift>>
     \/ max_shift' \in MaxShifts /\ UNCHANGED <<align_on, polarity, trim>>
  /\ UNCHANGED <<detected, plugin, task, load>>

Next == PluginStep \/ StoreStep \/ LoadStep \/ SetParameters

Spec == Init /\ [][Next]_vars

(***************************************************************************)
(* A host that runs blocks of at least one sample, completes the calls it  *)
(* makes and the state loads it begins.                                    *)
(***************************************************************************)
BlockStep == BlockTarget \/ BlockRetarget \/ BlockSample

FairSpec ==
  /\ Spec
  /\ WF_vars(ReportWindow) /\ WF_vars(InitializeTarget) /\ SF_vars(BlockTarget)
  /\ WF_vars(BlockRetarget) /\ WF_vars(BlockSample) /\ SF_vars(BlockSample /\ pc' = "idle")

-----------------------------------------------------------------------------
TypeOK ==
  /\ align_on \in BOOLEAN /\ polarity \in Polarities \cup {"Auto"}
  /\ trim \in Trims \cup {0} /\ max_shift \in MaxShifts
  /\ detected_offset \in Int /\ detected_polarity \in BOOLEAN
  /\ snapshot \in Results \cup {Rejected, NoResult}
  /\ sample_rate \in Rates /\ last_latency \in Nat
  /\ active_config \in Rates \cup {NoConfig}
  /\ line \in Lines /\ line.fade_pos < line.fade_len
  /\ window \in [samples : Nat, rate : Rates]
  /\ pc \in {"inactive", "report", "jump", "idle", "retarget", "samples"} /\ offset \in Int
  /\ storing \in {"no", "polarity", "snapshot"} /\ result \in Results \cup {Rejected, NoResult}
  /\ loading \in {"no", "offset", "polarity", "initialize"}
  /\ loaded \in Results \cup {NoResult}
  /\ settling \in Nat
  /\ storing = "polarity" => result \in Results
  /\ loading \in {"offset", "polarity"} => loaded \in Results

Running == pc \in {"idle", "retarget", "samples"}

(***************************************************************************)
(* Every tap the line reads or is about to read lies in the range          *)
(* TapSpec documents, [FIR_CENTER, max_delay], also for a line the fast    *)
(* path keeps across Max Shift edits.                                      *)
(***************************************************************************)
TapsInRange ==
  Running =>
    \A tap \in {line.active, line.fading_in, line.pending} \ {NoTap} :
      tap.delay >= Sub * FirCenter /\ tap.delay <= Sub * line.max_delay

(***************************************************************************)
(* The line never fades a tap into itself, which would bump the level by   *)
(* 3 dB mid-fade, whatever targets are coalesced.                          *)
(***************************************************************************)
NeverFadesIntoItself == line.fading_in # line.active

(***************************************************************************)
(* A fade that has begun runs to its end: no step but reset(), which also  *)
(* zeroes the audio history, or initialize() changes the tap fading in or  *)
(* the active one in mid-fade.                                             *)
(***************************************************************************)
FadesRunWhole ==
  [][line.fading_in # NoTap
       /\ (pc = "retarget" \/ (pc = "samples" /\ line.fade_pos + 1 < line.fade_len))
       => line'.fading_in = line.fading_in /\ line'.active = line.active]_vars

(***************************************************************************)
(* However targets were coalesced, two fade lengths after the target last  *)
(* changed the line reads through the last one requested, alone.           *)
(***************************************************************************)
SettlesInTwoFades ==
  Running /\ settling >= 2 * line.fade_len => line.fading_in = NoTap /\ line.pending = NoTap

(***************************************************************************)
(* "Mirrors current_target() - keep the two in sync": the shift the editor *)
(* displays is the one the next block would apply, for every parameter     *)
(* edit, rate change and Max Shift edit the host has or has not activated. *)
(***************************************************************************)
EditorMirrorsTarget ==
  Running =>
    net_shift = current_target(detected_offset, last_latency, sample_rate).delay
                  - Sub * last_latency

(***************************************************************************)
(* Once parameters and detected values stay put, the line settles on the   *)
(* target derived from them, even if a block has read a torn pair of       *)
(* detected values before.                                                 *)
(***************************************************************************)
Steady == <>[][UNCHANGED <<params, detected>>]_vars

OnTarget ==
  Running => /\ line.fading_in = NoTap
             /\ line.active = current_target(detected_offset, last_latency, sample_rate)

SettlesOnTarget == Steady => []<>OnTarget /\ <>[](Running => line.pending = NoTap)
=============================================================================
