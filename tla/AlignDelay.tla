---------------------------- MODULE AlignDelay ----------------------------
(***************************************************************************)
(* src/dsp/delay.rs: the delay line's taps.  A line reads through one      *)
(* active tap; a new target fades in over fade_len samples, and targets    *)
(* that arrive during a fade are coalesced into one pending target.        *)
(* Audio content and FIR kernels are left out.                             *)
(***************************************************************************)
EXTENDS Integers

CONSTANTS
  NoTap,       \* no fade running, nothing pending
  CenterTap    \* the tap a fresh line starts with: FIR_CENTER, not inverted

TapSpecs == [delay : Int, inverted : BOOLEAN]

ASSUME AlignDelayAssumption == NoTap \notin TapSpecs /\ CenterTap \in TapSpecs

Lines ==
  [active : TapSpecs, fading_in : TapSpecs \cup {NoTap}, fade_pos : Nat,
   fade_len : Nat \ {0}, pending : TapSpecs \cup {NoTap}, max_delay : Nat]

NewLine(max_delay, fade_len) ==
  [active |-> CenterTap, fading_in |-> NoTap, fade_pos |-> 0,
   fade_len |-> IF fade_len = 0 THEN 1 ELSE fade_len,
   pending |-> NoTap, max_delay |-> max_delay]

ultimate_target(line) ==
  IF line.pending # NoTap THEN line.pending
  ELSE IF line.fading_in # NoTap THEN line.fading_in
  ELSE line.active

\* Mutant: a target that arrives mid-fade replaces the tap fading in.
MutRetarget(line, spec) ==
  IF spec = ultimate_target(line) THEN line
  ELSE [line EXCEPT !.fading_in = spec]

Retarget(line, spec) ==
  IF spec = ultimate_target(line) THEN line
  ELSE IF line.fading_in # NoTap THEN [line EXCEPT !.pending = spec]
  ELSE [line EXCEPT !.fading_in = spec, !.fade_pos = 0]

\* Mutant: a landed fade starts the pending one whatever its target.
MutLanded(line) ==
  [line EXCEPT !.active = line.fading_in, !.fade_pos = 0,
               !.fading_in = line.pending, !.pending = NoTap]

\* The pending target starts its fade unless the landed one already satisfies it.
Landed(line) ==
  [line EXCEPT !.active = line.fading_in, !.fade_pos = 0, !.pending = NoTap,
               !.fading_in = IF line.pending = line.fading_in THEN NoTap ELSE line.pending]

\* Mutant: the fade position is not advanced while a target is pending.
MutAdvance(line) ==
  IF line.fading_in = NoTap \/ line.pending # NoTap THEN line
  ELSE IF line.fade_pos + 1 >= line.fade_len THEN Landed(line)
  ELSE [line EXCEPT !.fade_pos = @ + 1]

\* One sample of AlignDelay::process.
Advance(line) ==
  IF line.fading_in = NoTap THEN line
  ELSE IF line.fade_pos + 1 >= line.fade_len THEN Landed(line)
  ELSE [line EXCEPT !.fade_pos = @ + 1]

ResetLine(line) ==
  [line EXCEPT !.active = ultimate_target(line),
               !.fading_in = NoTap, !.pending = NoTap, !.fade_pos = 0]
=============================================================================
