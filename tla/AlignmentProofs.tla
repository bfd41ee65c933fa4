-------------------------- MODULE AlignmentProofs --------------------------
(***************************************************************************)
(* The delay line's crossfades for every fade length, sample rate, shift   *)
(* and order of retargets, resets and activations.                         *)
(***************************************************************************)
EXTENDS Alignment, TLAPS

-----------------------------------------------------------------------------
(***************************************************************************)
(* The line by itself.                                                     *)
(***************************************************************************)
LineOK(l) ==
  /\ l \in Lines /\ l.fade_pos < l.fade_len
  /\ l.fading_in = NoTap => l.pending = NoTap
  /\ l.fading_in # l.active

\* Samples until the line has settled, were no target to arrive.
Left(l) ==
  IF l.fading_in = NoTap THEN 0
  ELSE l.fade_len - l.fade_pos + (IF l.pending = NoTap THEN 0 ELSE l.fade_len)

\* A fresh line is settled.
LEMMA NewLineOK ==
  ASSUME NEW d \in Nat, NEW n \in Nat
  PROVE  LineOK(NewLine(d, n)) /\ Left(NewLine(d, n)) = 0
BY AlignDelayAssumption DEF LineOK, Left, NewLine, Lines

\* A line's ultimate target is a tap.
LEMMA TargetIsTap ==
  ASSUME NEW l, LineOK(l)
  PROVE  ultimate_target(l) \in TapSpecs
BY AlignDelayAssumption DEF LineOK, Lines, ultimate_target

\* A retarget keeps the line sound and leaves at most two fades to run.
LEMMA RetargetOK ==
  ASSUME NEW l, LineOK(l), NEW spec \in TapSpecs
  PROVE  /\ LineOK(Retarget(l, spec))
         /\ Left(Retarget(l, spec)) <= 2 * l.fade_len
         /\ Retarget(l, spec).fade_len = l.fade_len
         /\ spec = ultimate_target(l) => Retarget(l, spec) = l
<1>1. CASE spec = ultimate_target(l)
  BY <1>1 DEF Retarget, LineOK, Left, Lines
<1>2. CASE spec # ultimate_target(l) /\ l.fading_in # NoTap
  BY <1>2, AlignDelayAssumption DEF Retarget, LineOK, Left, Lines
<1>3. CASE spec # ultimate_target(l) /\ l.fading_in = NoTap
  <2>1. spec # l.active
    BY <1>3 DEF LineOK, ultimate_target
  <2>2. l \in Lines /\ l.pending = NoTap /\ spec # NoTap /\ l.fade_len \in Nat \ {0}
    BY <1>3, AlignDelayAssumption DEF LineOK, Lines
  <2> DEFINE m == [l EXCEPT !.fading_in = spec, !.fade_pos = 0]
  <2>3. Retarget(l, spec) = m
    BY <1>3 DEF Retarget
  <2>4. m \in Lines /\ m.fading_in = spec /\ m.fade_pos = 0 /\ m.active = l.active
         /\ m.pending = NoTap /\ m.fade_len = l.fade_len
    BY <2>2 DEF Lines
  <2>5. LineOK(m) /\ Left(m) = l.fade_len
    BY <2>1, <2>2, <2>4 DEF LineOK, Left
  <2>6. QED BY <1>3, <2>2, <2>3, <2>4, <2>5
<1>4. QED BY <1>1, <1>2, <1>3

\* A sample keeps the line sound and uses up one of the samples left.
LEMMA AdvanceOK ==
  ASSUME NEW l, LineOK(l)
  PROVE  /\ LineOK(Advance(l))
         /\ Advance(l).fade_len = l.fade_len
         /\ Left(l) = 0 => Left(Advance(l)) = 0
         /\ Left(l) # 0 => Left(Advance(l)) <= Left(l) - 1
<1>1. CASE l.fading_in = NoTap
  BY <1>1 DEF Advance, Left
<1>2. CASE l.fading_in # NoTap /\ l.fade_pos + 1 >= l.fade_len
  <2>1. Advance(l) = Landed(l) /\ l.fade_pos = l.fade_len - 1
    BY <1>2 DEF Advance, LineOK, Lines
  <2> DEFINE m == Landed(l)
  <2>2. /\ l \in Lines /\ l.fading_in \in TapSpecs /\ l.fade_len \in Nat \ {0}
        /\ NoTap \notin TapSpecs /\ l.pending \in TapSpecs \cup {NoTap}
    BY <1>2, AlignDelayAssumption DEF LineOK, Lines
  <2>3. /\ m \in Lines /\ m.active = l.fading_in /\ m.fade_pos = 0 /\ m.pending = NoTap
        /\ m.fade_len = l.fade_len
        /\ m.fading_in = IF l.pending = l.fading_in THEN NoTap ELSE l.pending
    BY <2>2 DEF Landed, Lines
  <2>4. LineOK(m)
    BY <2>2, <2>3 DEF LineOK
  <2>5. Left(l) = 1 + (IF l.pending = NoTap THEN 0 ELSE l.fade_len)
    BY <1>2, <2>1, <2>2 DEF Left
  <2>6. Left(m) <= Left(l) - 1 /\ Left(l) # 0
    BY <2>2, <2>3, <2>5 DEF Left
  <2>7. QED BY <2>1, <2>3, <2>4, <2>6
<1>3. CASE l.fading_in # NoTap /\ l.fade_pos + 1 < l.fade_len
  BY <1>3 DEF Advance, LineOK, Left, Lines
<1>4. QED BY <1>1, <1>2, <1>3 DEF LineOK, Lines

\* A reset settles the line at once.
LEMMA ResetOK ==
  ASSUME NEW l, LineOK(l)
  PROVE  /\ LineOK(ResetLine(l)) /\ Left(ResetLine(l)) = 0
         /\ ResetLine(l).fade_len = l.fade_len
<1>1. ultimate_target(l) \in TapSpecs /\ NoTap \notin TapSpecs
  BY TargetIsTap, AlignDelayAssumption
<1> DEFINE m == ResetLine(l)
<1>2. l \in Lines
  BY DEF LineOK
<1>3. /\ m \in Lines /\ m.active = ultimate_target(l) /\ m.fading_in = NoTap
      /\ m.pending = NoTap /\ m.fade_pos = 0 /\ m.fade_len = l.fade_len /\ l.fade_len \in Nat \ {0}
  BY <1>1, <1>2 DEF ResetLine, Lines
<1>4. QED BY <1>1, <1>3 DEF LineOK, Left

-----------------------------------------------------------------------------
(***************************************************************************)
(* The values the line is given.                                           *)
(***************************************************************************)
\* Rounded sample counts are whole numbers.
LEMMA RoundType ==
  ASSUME NEW x \in Nat
  PROVE  Round(x) \in Nat /\ Ceil(x) \in Nat
<1>1. Sub \in Nat \ {0}
  BY AlignmentAssumption
<1>2. \A y \in Nat : y \div Sub \in Nat
  BY <1>1
<1>3. Sub \div 2 \in Nat /\ x + Sub - 1 \in Nat
  BY <1>1
<1>4. x + Sub \div 2 \in Nat
  BY <1>3
<1>5. QED BY <1>2, <1>3, <1>4 DEF Round, Ceil

\* Products of natural numbers.
LEMMA TimesType == \A a, b \in Nat : a * b \in Nat
OBVIOUS

\* The latency and the line's capacity are natural numbers.
LEMMA SizesType ==
  ASSUME NEW rate \in Rates, NEW ms \in MaxShifts
  PROVE  latency_samples(ms, rate) \in Nat /\ MaxDelay(rate) \in Nat /\ FadeLen(rate) \in Nat
<1>1. rate \in Nat /\ ms \in Nat /\ MaxShiftMax \in Nat /\ TrimMax \in Nat /\ FirCenter \in Nat
       /\ FadeLen(rate) \in Nat
  BY AlignmentAssumption
<1>2. ms * rate \in Nat /\ MaxShiftMax * rate \in Nat /\ TrimMax * rate \in Nat
  BY <1>1, TimesType
<1>3. Round(ms * rate) \in Nat /\ Ceil(MaxShiftMax * rate) \in Nat /\ Ceil(TrimMax * rate) \in Nat
  BY <1>2, RoundType
<1>4. QED BY <1>1, <1>3 DEF latency_samples, MaxDelay

\* The window is a natural number.
LEMMA WindowType ==
  ASSUME NEW latency \in Nat
  PROVE  reported_window(latency) \in Nat
BY AlignmentAssumption DEF reported_window

\* current_target() is a tap.
LEMMA TargetType ==
  ASSUME TypeOK, NEW off \in Int, NEW latency \in Nat, NEW rate \in Rates
  PROVE  current_target(off, latency, rate) \in TapSpecs
<1>1. Sub \in Nat /\ rate \in Int
  BY AlignmentAssumption
<1>2. Wanted(off) \in Int
  BY AlignmentAssumption DEF TypeOK, Wanted
<1>3. Wanted(off) * rate \in Int /\ Sub * reported_window(latency) \in Int /\ Sub * latency \in Int
  BY <1>1, <1>2, WindowType
<1>4. Clamp(Wanted(off) * rate, Sub * reported_window(latency)) \in Int
  BY <1>3 DEF Clamp
<1>5. Inverted \in BOOLEAN
  BY AlignmentAssumption, Zenon DEF TypeOK, Inverted
<1>6. QED
  BY <1>3, <1>4, <1>5 DEF current_target, TapSpecs

-----------------------------------------------------------------------------
(***************************************************************************)
(* The inductive invariant: besides the types, the line is sound and the   *)
(* samples it still needs fit in what is left of two fades.                *)
(***************************************************************************)
Budget == Left(line) = 0 \/ Left(line) + settling <= 2 * line.fade_len

IInv == TypeOK /\ LineOK(line) /\ Budget

LEMMA InitIInv == Init => IInv
<1> SUFFICES ASSUME Init PROVE IInv
  OBVIOUS
<1>1. FirCenter \in Nat /\ 1 \in Nat
  BY AlignmentAssumption
<1>2. LineOK(line) /\ Left(line) = 0
  BY <1>1, NewLineOK DEF Init
<1>3. sample_rate \in Rates /\ max_shift \in MaxShifts
  BY DEF Init
<1>4. line \in Lines /\ line.fade_pos < line.fade_len
  BY <1>2 DEF LineOK
<1>5. window \in [samples : Nat, rate : Rates]
  BY <1>3 DEF Init
<1>6. TypeOK
  <2>1. align_on \in BOOLEAN /\ detected_polarity \in BOOLEAN
    BY Zenon DEF Init
  <2>2. /\ polarity = "Auto" /\ trim = 0 /\ detected_offset \in Int /\ last_latency \in Nat
        /\ offset \in Int /\ settling \in Nat /\ active_config = NoConfig /\ pc = "inactive"
        /\ storing = "no" /\ loading = "no"
        /\ snapshot = NoResult /\ result = NoResult /\ loaded = NoResult
    BY DEF Init
  <2>3. QED BY <1>3, <1>4, <1>5, <2>1, <2>2 DEF TypeOK
<1>7. QED BY <1>2, <1>6 DEF IInv, Budget

LEMMA InitializeLineIInv ==
  ASSUME IInv, NEW rate \in Rates, InitializeLine(rate)
  PROVE  IInv'
<1>1. max_shift \in MaxShifts
  BY DEF IInv, TypeOK
<1>2. latency_samples(max_shift, rate) \in Nat /\ MaxDelay(rate) \in Nat /\ FadeLen(rate) \in Nat
  BY <1>1, SizesType
<1>3. LineOK(line') /\ (Left(line') = 0 \/ line' = line)
  BY <1>2, NewLineOK DEF InitializeLine, IInv
<1>4. TypeOK'
  BY <1>2, <1>3 DEF InitializeLine, IInv, TypeOK, LineOK, params, detected, task
<1>5. Budget'
  BY <1>3 DEF InitializeLine, IInv, Budget
<1>6. QED BY <1>3, <1>4, <1>5 DEF IInv

LEMMA ReportWindowIInv ==
  ASSUME IInv, ReportWindow
  PROVE  IInv'
<1>1. reported_window(last_latency) \in Nat
  BY WindowType DEF IInv, TypeOK
<1>2. TypeOK'
  BY <1>1 DEF ReportWindow, IInv, TypeOK, params, detected, task, load
<1>3. LineOK(line)' /\ Budget'
  BY DEF ReportWindow, IInv, Budget
<1>4. QED BY <1>2, <1>3 DEF IInv

LEMMA InitializeTargetIInv ==
  ASSUME IInv, InitializeTarget
  PROVE  IInv'
<1> DEFINE target == current_target(offset, last_latency, sample_rate)
<1>1. target \in TapSpecs
  BY TargetType DEF IInv, TypeOK
<1>2. LineOK(Retarget(line, target))
  BY <1>1, RetargetOK DEF IInv
<1>3. LineOK(line') /\ Left(line') = 0
  BY <1>2, ResetOK DEF InitializeTarget
<1>4. 2 * line.fade_len \in Nat
  BY DEF IInv, LineOK, Lines
<1>5. TypeOK'
  BY <1>3, <1>4 DEF InitializeTarget, IInv, TypeOK, LineOK, params, detected, task, load
<1>6. QED BY <1>3, <1>5 DEF IInv, Budget

LEMMA ResetIInv ==
  ASSUME IInv, Reset
  PROVE  IInv'
<1>1. LineOK(line') /\ Left(line') = 0
  BY ResetOK DEF Reset, IInv
<1>2. 2 * line.fade_len \in Nat
  BY DEF IInv, LineOK, Lines
<1>3. TypeOK'
  BY <1>1, <1>2 DEF Reset, IInv, TypeOK, LineOK, params, detected, task, load
<1>4. QED BY <1>1, <1>3 DEF IInv, Budget

LEMMA BlockTargetIInv ==
  ASSUME IInv, BlockTarget
  PROVE  IInv'
<1>1. TypeOK'
  BY DEF BlockTarget, IInv, TypeOK, params, detected, task, load
<1>2. LineOK(line)' /\ Budget'
  BY DEF BlockTarget, IInv, Budget
<1>3. QED BY <1>1, <1>2 DEF IInv

LEMMA BlockRetargetIInv ==
  ASSUME IInv, BlockRetarget
  PROVE  IInv'
<1> DEFINE target == current_target(offset, last_latency, sample_rate)
<1>1. target \in TapSpecs
  BY TargetType DEF IInv, TypeOK
<1>2. /\ LineOK(line') /\ Left(line') <= 2 * line.fade_len /\ line'.fade_len = line.fade_len
      /\ target = ultimate_target(line) => line' = line
  BY <1>1, RetargetOK DEF BlockRetarget, IInv
<1>3. settling' = IF target = ultimate_target(line) THEN settling ELSE 0
  BY DEF BlockRetarget
<1>4. line.fade_len \in Nat /\ settling \in Nat /\ line'.fade_len \in Nat
  BY <1>2 DEF IInv, TypeOK, LineOK, Lines
<1>5. Left(line') \in Int
  BY <1>2 DEF LineOK, Left, Lines
<1>6. Budget'
  BY <1>2, <1>3, <1>4, <1>5 DEF IInv, Budget
<1>7. TypeOK'
  BY <1>2, <1>3, <1>4 DEF BlockRetarget, IInv, TypeOK, LineOK, params, detected, task, load
<1>8. QED BY <1>2, <1>6, <1>7 DEF IInv

LEMMA BlockSampleIInv ==
  ASSUME IInv, BlockSample
  PROVE  IInv'
<1>1. /\ LineOK(line') /\ line'.fade_len = line.fade_len
      /\ Left(line) = 0 => Left(line') = 0
      /\ Left(line) # 0 => Left(line') <= Left(line) - 1
  BY AdvanceOK DEF BlockSample, IInv
<1>2. settling' = IF settling >= 2 * line.fade_len THEN settling ELSE settling + 1
  BY DEF BlockSample
<1>3. line.fade_len \in Nat /\ settling \in Nat /\ Left(line) \in Nat /\ Left(line') \in Int
  BY <1>1 DEF IInv, TypeOK, LineOK, Lines, Left
<1>4. Budget'
  BY <1>1, <1>2, <1>3 DEF IInv, Budget
<1>5. TypeOK'
  BY <1>1, <1>2, <1>3 DEF BlockSample, IInv, TypeOK, LineOK, params, detected, task, load
<1>6. QED BY <1>1, <1>4, <1>5 DEF IInv

LEMMA PluginStepIInv == IInv /\ PluginStep => IInv'
BY InitializeLineIInv, ReportWindowIInv, InitializeTargetIInv, ResetIInv, BlockTargetIInv,
   BlockRetargetIInv, BlockSampleIInv DEF PluginStep

\* The analysis task, a state load and parameter edits leave the line alone.
LEMMA OtherStepIInv ==
  ASSUME IInv, StoreStep \/ LoadStep \/ SetParameters
  PROVE  IInv'
<1>1. UNCHANGED <<line, settling>>
  BY DEF StoreStep, StoreOffset, Reject, StorePolarity, StoreSnapshot,
         LoadStep, LoadSnapshot, LoadOffset, LoadPolarity, SetParameters, plugin
<1>2. LineOK(line)' /\ Budget'
  BY <1>1 DEF IInv, Budget
<1>3. TypeOK'
  <2>1. CASE \E r \in Results : StoreOffset(r)
    <3>1. PICK r \in Results : StoreOffset(r)
      BY <2>1
    <3>2. r.offset \in Int
      BY AlignmentAssumption
    <3>3. QED BY <3>1, <3>2 DEF StoreOffset, IInv, TypeOK, params, plugin, load
  <2>2. CASE Reject
    BY <2>2 DEF Reject, IInv, TypeOK, params, detected, plugin, load
  <2>3. CASE StorePolarity
    <3>1. result \in Results
      BY <2>3 DEF StorePolarity, IInv, TypeOK
    <3>2. result.inverted \in BOOLEAN
      BY <3>1, AlignmentAssumption
    <3>3. QED BY <3>2, <2>3 DEF StorePolarity, IInv, TypeOK, params, plugin, load
  <2>4. CASE StoreSnapshot
    BY <2>4 DEF StoreSnapshot, IInv, TypeOK, params, plugin, load
  <2>5. CASE \E r \in Results : LoadSnapshot(r)
    BY <2>5 DEF LoadSnapshot, IInv, TypeOK, params, plugin, task
  <2>6. CASE LoadOffset
    <3>1. loaded \in Results
      BY <2>6 DEF LoadOffset, IInv, TypeOK
    <3>2. loaded.offset \in Int
      BY <3>1, AlignmentAssumption
    <3>3. QED BY <3>1, <3>2, <2>6 DEF LoadOffset, IInv, TypeOK, params, plugin, task
  <2>7. CASE LoadPolarity
    <3>1. loaded \in Results
      BY <2>7 DEF LoadPolarity, IInv, TypeOK
    <3>2. loaded.inverted \in BOOLEAN
      BY <3>1, AlignmentAssumption
    <3>3. QED BY <3>2, <2>7 DEF LoadPolarity, IInv, TypeOK, params, plugin, task
  <2>8. CASE SetParameters
    <3>1. /\ align_on' \in BOOLEAN /\ polarity' \in Polarities \cup {"Auto"}
          /\ trim' \in Trims \cup {0} /\ max_shift' \in MaxShifts
      BY <2>8 DEF SetParameters, IInv, TypeOK
    <3>2. UNCHANGED <<detected, plugin, task, load>>
      BY <2>8 DEF SetParameters
    <3>3. QED BY <3>1, <3>2 DEF IInv, TypeOK, detected, plugin, task, load
  <2>9. QED
    BY <2>1, <2>2, <2>3, <2>4, <2>5, <2>6, <2>7, <2>8 DEF StoreStep, LoadStep
<1>4. QED BY <1>2, <1>3 DEF IInv

LEMMA StutterIInv == IInv /\ UNCHANGED vars => IInv'
<1> SUFFICES ASSUME IInv, UNCHANGED vars PROVE IInv'
  OBVIOUS
<1>1. TypeOK'
  BY DEF IInv, TypeOK, vars, params, detected, plugin, task, load
<1>2. LineOK(line)' /\ Budget'
  BY DEF IInv, Budget, vars, plugin
<1>3. QED BY <1>1, <1>2 DEF IInv

-----------------------------------------------------------------------------
THEOREM Invariance == Spec => []IInv
<1>1. IInv /\ [Next]_vars => IInv'
  BY PluginStepIInv, OtherStepIInv, StutterIInv DEF Next
<1>2. QED BY InitIInv, <1>1, PTL DEF Spec

(***************************************************************************)
(* No order of retargets, coalesced targets, resets and activations makes  *)
(* AlignDelay fade a tap into itself.                                      *)
(***************************************************************************)
THEOREM CleanFades == Spec => []NeverFadesIntoItself
<1>1. IInv => NeverFadesIntoItself
  BY DEF IInv, LineOK, NeverFadesIntoItself
<1>2. QED BY <1>1, Invariance, PTL

(***************************************************************************)
(* Two fade lengths after the last new target the line has settled, for    *)
(* every fade length.                                                      *)
(***************************************************************************)
THEOREM TwoFadesSuffice == Spec => []SettlesInTwoFades
<1>1. ASSUME IInv, settling >= 2 * line.fade_len
      PROVE  line.fading_in = NoTap /\ line.pending = NoTap
  <2>1. line.fade_len \in Nat /\ line.fade_pos \in Nat /\ settling \in Nat
         /\ line.fade_pos < line.fade_len
    BY <1>1 DEF IInv, TypeOK, LineOK, Lines
  <2>2. line.fading_in = NoTap
    BY <1>1, <2>1 DEF IInv, Budget, Left
  <2>3. QED BY <1>1, <2>2 DEF IInv, LineOK
<1>2. IInv => SettlesInTwoFades
  BY <1>1 DEF SettlesInTwoFades
<1>3. QED BY <1>2, Invariance, PTL

(***************************************************************************)
(* A fade that has begun runs to its end, for every fade length.           *)
(***************************************************************************)
THEOREM WholeFades == Spec => FadesRunWhole
<1> DEFINE Begun == /\ line.fading_in # NoTap
                    /\ pc = "retarget" \/ (pc = "samples" /\ line.fade_pos + 1 < line.fade_len)
           Kept  == line'.fading_in = line.fading_in /\ line'.active = line.active
<1>1. ASSUME IInv, [Next]_vars, Begun PROVE Kept
  <2>1. line \in Lines /\ line.fading_in # NoTap
    BY <1>1 DEF IInv, LineOK
  <2>2. CASE BlockRetarget
    <3> DEFINE spec == current_target(offset, last_latency, sample_rate)
    <3>1. line' = line \/ line' = [line EXCEPT !.pending = spec]
      BY <2>1, <2>2 DEF BlockRetarget, Retarget
    <3>2. QED BY <2>1, <3>1 DEF Lines
  <2>3. CASE BlockSample
    <3>1. line.fade_pos + 1 < line.fade_len
      BY <1>1, <2>3 DEF BlockSample
    <3>2. line.fade_pos \in Nat /\ line.fade_len \in Nat
      BY <2>1 DEF Lines
    <3>3. line' = [line EXCEPT !.fade_pos = @ + 1]
      BY <2>1, <2>3, <3>1, <3>2 DEF BlockSample, Advance
    <3>4. QED BY <2>1, <3>3 DEF Lines
  <2>4. CASE (\E rate \in Rates : InitializeLine(rate)) \/ ReportWindow \/ InitializeTarget
             \/ Reset \/ BlockTarget
    BY <1>1, <2>4 DEF InitializeLine, ReportWindow, InitializeTarget, Reset, BlockTarget
  <2>5. CASE StoreStep \/ LoadStep \/ SetParameters \/ UNCHANGED vars
    BY <2>5 DEF StoreStep, StoreOffset, Reject, StorePolarity, StoreSnapshot,
         LoadStep, LoadSnapshot, LoadOffset, LoadPolarity, SetParameters, plugin, vars
  <2>6. QED BY <1>1, <2>2, <2>3, <2>4, <2>5 DEF Next, PluginStep
<1>2. IInv /\ [Next]_vars => [Begun => Kept]_vars
  BY <1>1
<1>3. QED BY <1>2, Invariance, PTL DEF Spec, FadesRunWhole

-----------------------------------------------------------------------------
(***************************************************************************)
(* The arithmetic of latency, window and capacity.                         *)
(***************************************************************************)
LEMMA DivFacts ==
  ASSUME NEW s \in Nat \ {0}, NEW a \in Nat
  PROVE  a \div s \in Nat /\ s * (a \div s) <= a /\ a < s * (a \div s) + s
OBVIOUS

LEMMA TimesMono ==
  ASSUME NEW s \in Nat, NEW a \in Int, NEW b \in Int, a <= b
  PROVE  s * a <= s * b /\ a * s <= b * s
OBVIOUS

LEMMA DivMono ==
  ASSUME NEW s \in Nat \ {0}, NEW a \in Nat, NEW b \in Nat, a <= b
  PROVE  a \div s <= b \div s
<1> DEFINE p == a \div s
           q == b \div s
<1>1. p \in Nat /\ q \in Nat /\ s * p <= a /\ b < s * q + s
  BY DivFacts
<1>2. s * p < s * q + s
  BY <1>1
<1>3. p < q + 1
  <2>1. SUFFICES ASSUME p >= q + 1 PROVE FALSE
    BY <1>1
  <2> HIDE DEF p, q
  <2>2. s * (q + 1) <= s * p
    BY <1>1, <2>1, TimesMono
  <2>3. s * (q + 1) = s * q + s
    BY <1>1
  <2>4. QED BY <1>1, <1>2, <2>2, <2>3
<1>4. QED BY <1>1, <1>3

\* Rounding a smaller number does not exceed rounding up a larger one.
LEMMA RoundBelowCeil ==
  ASSUME NEW x \in Nat, NEW y \in Nat, x <= y
  PROVE  Round(x) <= Ceil(y)
<1>1. Sub \in Nat \ {0}
  BY AlignmentAssumption
<1>2. Sub \div 2 <= Sub - 1 /\ Sub \div 2 \in Nat
  BY <1>1
<1>3. x + Sub \div 2 <= y + Sub - 1 /\ x + Sub \div 2 \in Nat /\ y + Sub - 1 \in Nat
  BY <1>1, <1>2
<1>4. QED BY <1>1, <1>3, DivMono DEF Round, Ceil

\* Every latency leaves room, above and below, for the window it reports.
LEMMA LatencyFits ==
  ASSUME NEW rate \in Rates, NEW ms \in MaxShifts
  PROVE  LET latency == latency_samples(ms, rate)
         IN  /\ latency \in Nat /\ reported_window(latency) \in Nat
             /\ latency - reported_window(latency) = FirCenter
             /\ latency + reported_window(latency) <= MaxDelay(rate)
<1> DEFINE shift == Round(ms * rate)
<1>1. /\ ms \in Nat /\ MaxShiftMax \in Nat /\ ms <= MaxShiftMax /\ rate \in Nat
      /\ TrimMax \in Nat /\ FirCenter \in Nat
  BY AlignmentAssumption
<1>2. ms * rate \in Nat /\ MaxShiftMax * rate \in Nat /\ TrimMax * rate \in Nat
  BY <1>1, TimesType
<1>3. ms * rate <= MaxShiftMax * rate
  BY <1>1, TimesMono
<1>4. shift \in Nat /\ Ceil(MaxShiftMax * rate) \in Nat /\ Ceil(TrimMax * rate) \in Nat
  BY <1>2, RoundType
<1>5. shift <= Ceil(MaxShiftMax * rate)
  BY <1>2, <1>3, RoundBelowCeil
<1>6. QED
  <2> HIDE DEF shift
  <2>1. latency_samples(ms, rate) = shift + FirCenter
    BY DEF latency_samples, shift
  <2>2. reported_window(shift + FirCenter) = shift
    BY <1>1, <1>4 DEF reported_window
  <2>3. QED BY <1>1, <1>4, <1>5, <2>1, <2>2 DEF MaxDelay

-----------------------------------------------------------------------------
(***************************************************************************)
(* TapsInRange needs, besides the types, that a line kept by the fast path *)
(* was built for the present rate and that the latency is one the host was *)
(* told about.                                                             *)
(***************************************************************************)
InRange(tap, bound) == Sub * FirCenter <= tap.delay /\ tap.delay <= Sub * bound

LineInRange(l) ==
  \A tap \in {l.active, l.fading_in, l.pending} \ {NoTap} : InRange(tap, l.max_delay)

RangeInv ==
  /\ LineInRange(line)
  /\ active_config # NoConfig => line.max_delay = MaxDelay(active_config)
  /\ pc # "inactive" => /\ line.max_delay = MaxDelay(sample_rate)
                        /\ \E ms \in MaxShifts : last_latency = latency_samples(ms, sample_rate)

\* current_target() stays in the line's range.
LEMMA TargetInRange ==
  ASSUME IInv, RangeInv, pc # "inactive", NEW off \in Int
  PROVE  InRange(current_target(off, last_latency, sample_rate), line.max_delay)
<1> DEFINE window_ == reported_window(last_latency)
           shift   == Clamp(Wanted(off) * sample_rate, Sub * window_)
           tap     == current_target(off, last_latency, sample_rate)
<1>1. /\ last_latency \in Nat /\ window_ \in Nat /\ last_latency - window_ = FirCenter
      /\ last_latency + window_ <= line.max_delay
  BY LatencyFits DEF IInv, RangeInv, TypeOK
<1>2. Sub \in Nat /\ FirCenter \in Nat /\ sample_rate \in Int /\ line.max_delay \in Nat
  BY AlignmentAssumption DEF IInv, TypeOK, Lines
<1>3. Wanted(off) \in Int
  BY AlignmentAssumption DEF IInv, TypeOK, Wanted
<1>4. Wanted(off) * sample_rate \in Int /\ Sub * window_ \in Nat
  BY <1>1, <1>2, <1>3, TimesType
<1>5. shift \in Int /\ -(Sub * window_) <= shift /\ shift <= Sub * window_
  <2> HIDE DEF window_
  <2>1. QED BY <1>4 DEF Clamp
<1>6. tap.delay = Sub * last_latency \/ tap.delay = Sub * last_latency + shift
  BY DEF current_target
<1>7. /\ Sub * last_latency - Sub * window_ = Sub * FirCenter
      /\ Sub * last_latency + Sub * window_ <= Sub * line.max_delay
  <2> HIDE DEF window_
  <2>1. Sub * (last_latency - window_) = Sub * last_latency - Sub * window_
    BY <1>1, <1>2
  <2>2. Sub * (last_latency + window_) = Sub * last_latency + Sub * window_
    BY <1>1, <1>2
  <2>3. Sub * (last_latency + window_) <= Sub * line.max_delay
    BY <1>1, <1>2, TimesMono
  <2>4. QED BY <1>1, <2>1, <2>2, <2>3
<1>8. Sub * last_latency \in Int
  BY <1>1, <1>2
<1>9. QED
  <2> HIDE DEF window_, shift, tap
  <2>1. Sub * FirCenter <= tap.delay /\ tap.delay <= Sub * line.max_delay
    BY <1>4, <1>5, <1>6, <1>7, <1>8, <1>2
  <2>2. QED BY <2>1 DEF InRange, tap

\* The operations of the line give it no tap but its own and the target's.
LEMMA LineStepInRange ==
  ASSUME NEW l, LineOK(l), LineInRange(l), NEW spec \in TapSpecs, InRange(spec, l.max_delay)
  PROVE  /\ LineInRange(Retarget(l, spec)) /\ Retarget(l, spec).max_delay = l.max_delay
         /\ LineInRange(Advance(l)) /\ Advance(l).max_delay = l.max_delay
         /\ LineInRange(ResetLine(l)) /\ ResetLine(l).max_delay = l.max_delay
<1>1. l \in Lines /\ NoTap \notin TapSpecs
  BY AlignDelayAssumption DEF LineOK
<1>2. LineInRange(Retarget(l, spec)) /\ Retarget(l, spec).max_delay = l.max_delay
  BY <1>1 DEF LineInRange, Retarget, Lines
<1>3. LineInRange(ResetLine(l)) /\ ResetLine(l).max_delay = l.max_delay
  BY <1>1 DEF LineInRange, ResetLine, ultimate_target, Lines
<1>4. CASE l.fading_in # NoTap /\ l.fade_pos + 1 >= l.fade_len
  <2> DEFINE m == Landed(l)
  <2>1. /\ m.active = l.fading_in /\ m.pending = NoTap /\ m.max_delay = l.max_delay
        /\ m.fading_in = l.pending \/ m.fading_in = NoTap
    BY <1>1 DEF Landed, Lines
  <2>2. LineInRange(m)
    BY <1>4, <2>1 DEF LineInRange
  <2>3. Advance(l) = m
    BY <1>4 DEF Advance
  <2>4. QED BY <1>2, <1>3, <2>1, <2>2, <2>3
<1>5. CASE ~(l.fading_in # NoTap /\ l.fade_pos + 1 >= l.fade_len)
  BY <1>1, <1>2, <1>3, <1>5 DEF LineInRange, Advance, Lines
<1>6. QED BY <1>4, <1>5

LEMMA InitRange == Init => RangeInv
<1> SUFFICES ASSUME Init PROVE RangeInv
  OBVIOUS
<1>1. line.active = CenterTap /\ line.fading_in = NoTap /\ line.pending = NoTap
       /\ line.max_delay = FirCenter
  BY DEF Init, NewLine
<1>2. InRange(CenterTap, FirCenter)
  BY AlignmentAssumption DEF InRange
<1>3. LineInRange(line)
  BY <1>1, <1>2 DEF LineInRange
<1>4. QED BY <1>3 DEF Init, RangeInv

LEMMA StepRange ==
  ASSUME IInv, RangeInv, [Next]_vars
  PROVE  RangeInv'
<1>1. LineOK(line)
  BY DEF IInv
<1>2. CASE \E rate \in Rates : InitializeLine(rate)
  <2>1. PICK rate \in Rates : InitializeLine(rate)
    BY <1>2
  <2>2. max_shift \in MaxShifts /\ rate # NoConfig
    BY AlignmentAssumption DEF IInv, TypeOK
  <2>3. LineInRange(line') /\ line'.max_delay = MaxDelay(rate) /\ active_config' \in {rate, NoConfig}
    <3>1. CASE active_config = rate
      BY <2>1, <2>2, <3>1 DEF InitializeLine, RangeInv
    <3>2. CASE active_config # rate
      <4>1. line' = NewLine(MaxDelay(rate), FadeLen(rate)) /\ active_config' \in {rate, NoConfig}
        BY <2>1, <3>2 DEF InitializeLine
      <4>2. /\ line'.active = CenterTap /\ line'.fading_in = NoTap /\ line'.pending = NoTap
            /\ line'.max_delay = MaxDelay(rate)
        BY <4>1 DEF NewLine
      <4>3. FirCenter <= MaxDelay(rate) /\ MaxDelay(rate) \in Nat /\ FirCenter \in Nat /\ Sub \in Nat
        BY <2>2, LatencyFits, SizesType, AlignmentAssumption
      <4>4. Sub * FirCenter <= Sub * MaxDelay(rate)
        BY <4>3, TimesMono
      <4>5. InRange(CenterTap, MaxDelay(rate))
        BY <4>3, <4>4, AlignmentAssumption DEF InRange
      <4>6. QED BY <4>1, <4>2, <4>5 DEF LineInRange
    <3>3. QED BY <3>1, <3>2
  <2>4. sample_rate' = rate /\ last_latency' = latency_samples(max_shift, rate)
    BY <2>1 DEF InitializeLine
  <2>5. QED BY <2>2, <2>3, <2>4 DEF RangeInv
<1>3. CASE InitializeTarget
  <2> DEFINE spec == current_target(offset, last_latency, sample_rate)
  <2>1. spec \in TapSpecs /\ InRange(spec, line.max_delay)
    BY <1>3, TargetType, TargetInRange DEF InitializeTarget, IInv, TypeOK
  <2> HIDE DEF spec
  <2>2. /\ LineOK(Retarget(line, spec)) /\ LineInRange(Retarget(line, spec))
        /\ Retarget(line, spec).max_delay = line.max_delay
    BY <1>1, <2>1, RetargetOK, LineStepInRange DEF RangeInv
  <2>3. LineInRange(ResetLine(Retarget(line, spec)))
         /\ ResetLine(Retarget(line, spec)).max_delay = line.max_delay
    BY <2>1, <2>2, LineStepInRange
  <2>4. line' = ResetLine(Retarget(line, spec))
         /\ UNCHANGED <<active_config, sample_rate, last_latency>> /\ pc = "jump"
    BY <1>3 DEF InitializeTarget, spec
  <2>5. QED BY <2>3, <2>4 DEF RangeInv
<1>4. CASE Reset \/ BlockSample
  <2>1. PICK spec \in TapSpecs : InRange(spec, line.max_delay)
    <3>1. line.active \in TapSpecs /\ line.active # NoTap
      BY <1>1, AlignDelayAssumption DEF LineOK, Lines
    <3>2. QED BY <3>1 DEF RangeInv, LineInRange
  <2>2. LineInRange(line') /\ line'.max_delay = line.max_delay
    BY <1>1, <1>4, <2>1, LineStepInRange DEF RangeInv, Reset, BlockSample
  <2>3. UNCHANGED <<active_config, sample_rate, last_latency>> /\ pc # "inactive"
    BY <1>4 DEF Reset, BlockSample
  <2>4. QED BY <2>2, <2>3 DEF RangeInv
<1>5. CASE BlockRetarget
  <2> DEFINE spec == current_target(offset, last_latency, sample_rate)
  <2>1. spec \in TapSpecs /\ InRange(spec, line.max_delay)
    BY <1>5, TargetType, TargetInRange DEF BlockRetarget, IInv, TypeOK
  <2>2. line' = Retarget(line, spec)
         /\ UNCHANGED <<active_config, sample_rate, last_latency>> /\ pc = "retarget"
    BY <1>5 DEF BlockRetarget
  <2> HIDE DEF spec
  <2>3. LineInRange(line') /\ line'.max_delay = line.max_delay
    BY <1>1, <2>1, <2>2, LineStepInRange DEF RangeInv
  <2>4. QED BY <2>2, <2>3 DEF RangeInv
<1>6. CASE ReportWindow \/ BlockTarget
  BY <1>6 DEF ReportWindow, BlockTarget, RangeInv
<1>7. CASE StoreStep \/ LoadStep \/ SetParameters \/ UNCHANGED vars
  <2>1. UNCHANGED plugin
    BY <1>7 DEF StoreStep, StoreOffset, Reject, StorePolarity, StoreSnapshot,
         LoadStep, LoadSnapshot, LoadOffset, LoadPolarity, SetParameters, vars
  <2>2. QED BY <2>1 DEF plugin, RangeInv
<1>8. QED BY <1>2, <1>3, <1>4, <1>5, <1>6, <1>7 DEF Next, PluginStep

(***************************************************************************)
(* The delay line reads within its capacity for every sample rate and      *)
(* every Max Shift, also on the line the fast path keeps when Max Shift    *)
(* has been edited.                                                        *)
(***************************************************************************)
THEOREM CapacitySuffices == Spec => []TapsInRange
<1>1. IInv /\ RangeInv => TapsInRange
  <2> SUFFICES ASSUME IInv, RangeInv,
                      NEW tap \in {line.active, line.fading_in, line.pending} \ {NoTap}
               PROVE  tap.delay >= Sub * FirCenter /\ tap.delay <= Sub * line.max_delay
    BY DEF TapsInRange
  <2>1. InRange(tap, line.max_delay)
    BY DEF RangeInv, LineInRange
  <2>2. tap \in TapSpecs
    BY DEF IInv, LineOK, Lines
  <2>3. Sub * FirCenter \in Int /\ tap.delay \in Int
    BY <2>2, AlignmentAssumption DEF TapSpecs
  <2>4. QED BY <2>1, <2>3 DEF InRange
<1>2. IInv /\ IInv' /\ RangeInv /\ [Next]_vars => RangeInv'
  BY StepRange
<1>3. QED BY InitRange, <1>1, <1>2, Invariance, PTL DEF Spec

-----------------------------------------------------------------------------
(***************************************************************************)
(* The window the editor mirrors.  It is the one current_target() clamps   *)
(* to from its publication until the next activation begins.               *)
(***************************************************************************)
WindowInv ==
  pc \in {"jump", "idle", "retarget", "samples"} =>
    window = [samples |-> reported_window(last_latency), rate |-> sample_rate]

\* Half a sample in a millisecond at least: the smallest Max Shift is not rounded
\* to an empty window, which the editor could not tell from none.
AudioRates == \A rate \in Rates : Sub <= 2 * rate

LEMMA WindowNotEmpty ==
  ASSUME AudioRates, NEW rate \in Rates, NEW ms \in MaxShifts
  PROVE  reported_window(latency_samples(ms, rate)) > 0
<1> DEFINE shift == Round(ms * rate)
<1>1. /\ Sub \in Nat \ {0} /\ ms \in Nat /\ 1 <= ms /\ rate \in Nat /\ FirCenter \in Nat
      /\ Sub <= 2 * rate
  BY AlignmentAssumption DEF AudioRates
<1>2. ms * rate \in Nat /\ rate <= ms * rate
  <2>1. 1 * rate <= ms * rate
    BY <1>1, TimesMono
  <2> QED BY <1>1, <2>1, TimesType
<1>3. shift \in Nat
  BY <1>2, RoundType
<1>4. shift > 0
  <2> DEFINE x == ms * rate
  <2>1. x \in Nat /\ Sub <= 2 * x
    BY <1>1, <1>2
  <2> HIDE DEF x
  <2>2. Sub \div 2 \in Nat /\ Sub <= 2 * (Sub \div 2) + 1
    BY <1>1
  <2>3. Sub <= x + Sub \div 2 /\ x + Sub \div 2 \in Nat
    BY <1>1, <2>1, <2>2
  <2>4. Sub \div Sub = 1
    BY <1>1
  <2>5. 1 <= (x + Sub \div 2) \div Sub
    BY <1>1, <2>3, <2>4, DivMono
  <2> QED BY <1>3, <2>5 DEF Round, x, shift
<1> HIDE DEF shift
<1>5. latency_samples(ms, rate) = shift + FirCenter
  BY DEF latency_samples, shift
<1> QED BY <1>1, <1>3, <1>4, <1>5 DEF reported_window

LEMMA StepWindow ==
  ASSUME WindowInv, [Next]_vars
  PROVE  WindowInv'
<1>1. CASE (\E rate \in Rates : InitializeLine(rate)) \/ ReportWindow
  BY <1>1 DEF InitializeLine, ReportWindow, WindowInv
<1>2. CASE InitializeTarget \/ Reset \/ BlockTarget \/ BlockRetarget \/ BlockSample
  BY <1>2 DEF InitializeTarget, Reset, BlockTarget, BlockRetarget, BlockSample, WindowInv
<1>3. CASE StoreStep \/ LoadStep \/ SetParameters \/ UNCHANGED vars
  <2>1. UNCHANGED plugin
    BY <1>3 DEF StoreStep, StoreOffset, Reject, StorePolarity, StoreSnapshot,
         LoadStep, LoadSnapshot, LoadOffset, LoadPolarity, SetParameters, vars
  <2> QED BY <2>1 DEF plugin, WindowInv
<1> QED BY <1>1, <1>2, <1>3 DEF Next, PluginStep

(***************************************************************************)
(* net_shift() in editor/mod.rs mirrors current_target() for every sample  *)
(* rate, Max Shift, trim and detected offset, activated or edited since.   *)
(***************************************************************************)
THEOREM MirrorHolds == ASSUME AudioRates PROVE Spec => []EditorMirrorsTarget
<1>1. ASSUME IInv, RangeInv, WindowInv, Running
      PROVE  net_shift = current_target(detected_offset, last_latency, sample_rate).delay
                           - Sub * last_latency
  <2>1. PICK ms \in MaxShifts : last_latency = latency_samples(ms, sample_rate)
    BY <1>1 DEF RangeInv, Running
  <2>2. /\ window.samples = reported_window(last_latency) /\ window.rate = sample_rate
        /\ sample_rate \in Rates /\ last_latency \in Nat
    BY <1>1 DEF WindowInv, Running, IInv, TypeOK
  <2>3. reported_window(last_latency) > 0
    BY <2>1, <2>2, WindowNotEmpty
  <2>4. Wanted(detected_offset) \in Int /\ Sub \in Int /\ sample_rate \in Int
    BY <1>1, AlignmentAssumption DEF IInv, TypeOK, Wanted
  <2> DEFINE shift == Clamp(Wanted(detected_offset) * sample_rate, Sub * reported_window(last_latency))
  <2>5. Wanted(detected_offset) * sample_rate \in Int /\ Sub * reported_window(last_latency) \in Int
         /\ Sub * last_latency \in Int
    BY <2>2, <2>4, WindowType
  <2>6. shift \in Int
    BY <2>5 DEF Clamp
  <2>7. net_shift = IF align_on THEN shift ELSE 0
    BY <2>2, <2>3 DEF net_shift
  <2>8. current_target(detected_offset, last_latency, sample_rate).delay
          = IF align_on THEN Sub * last_latency + shift ELSE Sub * last_latency
    BY DEF current_target
  <2> HIDE DEF shift
  <2> QED BY <2>5, <2>6, <2>7, <2>8
<1>2. IInv /\ RangeInv /\ WindowInv => EditorMirrorsTarget
  BY <1>1 DEF EditorMirrorsTarget
<1>3. IInv /\ IInv' /\ RangeInv /\ [Next]_vars => RangeInv'
  BY StepRange
<1>4. Init => WindowInv
  BY DEF Init, WindowInv
<1>5. WindowInv /\ [Next]_vars => WindowInv'
  BY StepWindow
<1> QED BY InitRange, <1>2, <1>3, <1>4, <1>5, Invariance, PTL DEF Spec
=============================================================================
