------------------------------- MODULE Analysis -------------------------------
(***************************************************************************)
(* analysis.rs: what a capture's analysis may report.  A capture is        *)
(* [n, splices, w, rate, level]: its length, the seams where silence was   *)
(* cut out, the search half-window and how loud its inputs are.  Samples   *)
(* are left out: an energy is loud, silent or nonfinite, a correlation     *)
(* peaks at any lag it may peak at and is trusted or not.                  *)
(***************************************************************************)
EXTENDS Welch

CONSTANT MIN_ANALYSIS_SAMPLES

ASSUME AnalysisAssumption == MIN_ANALYSIS_SAMPLES \in Nat /\ MIN_ANALYSIS_SAMPLES >= 2

Levels == {"loud", "silent", "nonfinite"}

Reject(reason, w) == [outcome |-> reason, offset |-> 0, corr |-> 0, peak |-> 0, max_shift |-> w]

(***************************************************************************)
(* The window the FFT can search without wrapping around.                  *)
(***************************************************************************)
SearchedShift(n, w) == Least(w, NextPowerOfTwo(n + w + 1) \div 2 - 2)

Curve(ms) == 2 * ms + 1

(***************************************************************************)
(* The reports of a signal of this energy, in the order of the checks.     *)
(* The refinement moves the peak by at most 0.6 of a sample, so the        *)
(* rounded offset is at most one lag away from it.                         *)
(***************************************************************************)
analyze_detailed(n, w, level) ==
  IF n < MIN_ANALYSIS_SAMPLES \/ w = 0 THEN {Reject("TooShort", w)}
  ELSE IF level = "nonfinite" THEN {Reject("NonFinite", w)}
  ELSE IF level = "silent" THEN {Reject("Silence", w)}
  ELSE LET ms == SearchedShift(n, w)
       IN {[outcome |-> "LowConfidence", offset |-> 0, corr |-> Curve(ms), peak |-> p + ms,
            max_shift |-> ms] : p \in -ms .. ms}
          \cup {[outcome |-> "Ok", offset |-> p + r, corr |-> Curve(ms), peak |-> p + ms,
                 max_shift |-> ms] : p \in -ms .. ms, r \in {-1, 0, 1}}

(***************************************************************************)
(* The guards around the seams may erase what was loud or not finite;      *)
(* silence that only the guards made is reported as TooShort.              *)
(***************************************************************************)
GuardedLevels(level) ==
  CASE level = "loud" -> {"loud", "silent"}
    [] level = "silent" -> {"silent"}
    [] OTHER -> Levels

Downgraded(report, level) ==
  IF report.outcome = "Silence" /\ level = "loud" THEN Reject("TooShort", report.max_shift)
  ELSE report

analyze_spliced(c) ==
  IF c.splices = {} THEN analyze_detailed(c.n, c.w, c.level)
  ELSE {Downgraded(r, c.level) :
          r \in UNION {analyze_detailed(c.n, c.w, g) : g \in GuardedLevels(c.level)}}
=============================================================================
