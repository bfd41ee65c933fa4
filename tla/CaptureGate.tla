---------------------------- MODULE CaptureGate ----------------------------
(***************************************************************************)
(* src/dsp/gate.rs: decides, sample by sample, whether a gated capture     *)
(* records.  An amplitude is a level, of any height; the exponential       *)
(* release takes an envelope down a level a sample, from wherever it is.   *)
(***************************************************************************)
EXTENDS Naturals

CONSTANTS
  Amps,          \* finite levels of a mono-summed sample, 0 being silence
  NonFinite,     \* an infinite or NaN sample
  OpenThresh, CloseThresh,
  HoldSamples,
  StreakMax      \* where the saturating closed_streak stops (u32::MAX in the code)

ASSUME CaptureGateAssumption ==
  /\ OpenThresh \in Nat \ {0} /\ CloseThresh \in 1 .. OpenThresh
  /\ Amps \subseteq Nat /\ NonFinite \notin Amps
  /\ HoldSamples \in Nat /\ StreakMax \in Nat

Samples == Amps \cup {NonFinite}

NewGate ==
  [env_main |-> 0, env_ref |-> 0, hold_left |-> 0, open |-> FALSE, closed_streak |-> 0]

Decay(env) == IF env = 0 THEN 0 ELSE env - 1

\* Mutant: an infinite sample enters the envelope, where no release takes it down.
MutFollow(env, x) ==
  IF NonFinite \in {env, x} THEN NonFinite
  ELSE IF x > Decay(env) THEN x ELSE Decay(env)

\* Instant attack, exponential release; a non-finite sample only decays.
Follow(env, x) ==
  IF x # NonFinite /\ x > Decay(env) THEN x ELSE Decay(env)

Both(m, r, thresh) == m >= thresh /\ r >= thresh

\* An open gate renews its hold, uses it up, or closes.
Held(g, m, r) ==
  CASE ~g.open -> g
    [] g.open /\ Both(m, r, CloseThresh) -> [g EXCEPT !.hold_left = HoldSamples]
    [] g.open /\ ~Both(m, r, CloseThresh) /\ g.hold_left > 0 -> [g EXCEPT !.hold_left = @ - 1]
    [] OTHER -> [g EXCEPT !.open = FALSE]

\* A closed gate opens only when both envelopes reach the full threshold.
Opened(g, m, r) ==
  IF ~g.open /\ Both(m, r, OpenThresh)
  THEN [g EXCEPT !.open = TRUE, !.hold_left = HoldSamples] ELSE g

Counted(g) ==
  [g EXCEPT !.closed_streak = IF g.open THEN 0 ELSE IF @ = StreakMax THEN @ ELSE @ + 1]

Step(g, main, reference) ==
  LET m == Follow(g.env_main, main)
      r == Follow(g.env_ref, reference)
  IN  Counted(Opened(Held([g EXCEPT !.env_main = m, !.env_ref = r], m, r), m, r))
=============================================================================
