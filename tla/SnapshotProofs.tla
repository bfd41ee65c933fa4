---------------------------- MODULE SnapshotProofs ----------------------------
(***************************************************************************)
(* Proofs about Snapshot, for every capture length, window, rate, splice   *)
(* list and gesture within the caps: what the task publishes and what a    *)
(* load restores can be saved and restored again, is estimated from sound  *)
(* segments, and is drawn without a clamp out of order.                    *)
(***************************************************************************)
EXTENDS Snapshot, TLAPS, FiniteSetTheorems, WellFoundedInduction

(***************************************************************************)
(* Both windows of a segment start and end inside the capture, whatever    *)
(* the sign of the lag: fft_pair never slices past its buffers.            *)
(***************************************************************************)
LEMMA WindowsInCapture ==
  ASSUME NEW n \in Nat, NEW d \in Int, NEW nfft \in Nat, NEW s \in SegmentStarts(n, d, nfft)
  PROVE  s \in Int /\ InCapture(s, d, nfft, n)
<1>1. /\ s \in Int
      /\ Most(d, 0) <= s /\ s <= n - nfft + Least(d, 0)
  BY DEF SegmentStarts, Most, Least
<1>2. CASE d >= 0
  BY <1>1, <1>2 DEF InCapture, Most, Least
<1>3. CASE d < 0
  BY <1>1, <1>3 DEF InCapture, Most, Least
<1> QED BY <1>2, <1>3

(***************************************************************************)
(* A segment crosses_seam lets through has no splice inside the hull of    *)
(* its two windows, so both read the same stretch.                         *)
(***************************************************************************)
LEMMA KeptInOneChunk ==
  ASSUME NEW s \in Int, NEW d \in Int, NEW nfft \in Nat, NEW splices \in SUBSET Int,
         ~CrossesSeam(s, d, nfft, splices)
  PROVE  OneChunk(s, d, nfft, splices)
<1> SUFFICES ASSUME NEW t \in splices
             PROVE  \/ t <= s /\ t <= s - d
                    \/ t >= s + nfft /\ t >= s - d + nfft
  BY DEF OneChunk
<1>1. t \in Int
  OBVIOUS
<1>2. ~(Least(s - d, s) < t /\ t < Most(s - d, s) + nfft)
  BY DEF CrossesSeam
<1> QED BY <1>1, <1>2 DEF Least, Most

(***************************************************************************)
(* Every segment averaged into a spectrum, at the task's size or at one    *)
(* the panel picks, is sound, the ones of the seam fallback included.      *)
(***************************************************************************)
LEMMA SegmentsSound ==
  ASSUME NEW n \in Nat, NEW d \in Int, NEW nfft \in Nat, NEW splices \in SUBSET Int
  PROVE  Sound(n, d, nfft, splices)
<1>1. ASSUME NEW seams \in SUBSET Int, NEW s \in estimate(n, d, nfft, seams)
      PROVE  InCapture(s, d, nfft, n) /\ OneChunk(s, d, nfft, seams)
  <2>1. s \in SegmentStarts(n, d, nfft) /\ ~CrossesSeam(s, d, nfft, seams)
    BY DEF estimate
  <2>2. s \in Int /\ InCapture(s, d, nfft, n)
    BY <2>1, WindowsInCapture
  <2> QED BY <2>1, <2>2, KeptInOneChunk
<1>2. ASSUME NEW s \in estimate_with_seam_fallback(n, d, nfft, splices)
      PROVE  InCapture(s, d, nfft, n)
  <2>1. s \in estimate(n, d, nfft, splices) \/ s \in estimate(n, d, nfft, {})
    BY DEF estimate_with_seam_fallback
  <2> QED BY <2>1, <1>1
<1> QED BY <1>1, <1>2 DEF Sound

-----------------------------------------------------------------------------
\* The library states this for operators; here for a set.
LEMMA SmallestOf ==
  ASSUME NEW T \in SUBSET Nat, T # {}
  PROVE  \E x \in T : \A y \in T : x <= y
<1> DEFINE Less == OpToRel(<, Nat)
<1>1. IsWellFoundedOn(Less, Nat)
  BY NatLessThanWellFounded, Zenon
<1>2. \A x, y \in Nat : y < x => <<y, x>> \in Less
  BY DEF OpToRel
<1> HIDE DEF Less
<1>3. PICK x \in T : \A y \in T : ~(<<y, x>> \in Less)
  BY <1>1, WFMin
<1>4. ASSUME NEW y \in T PROVE x <= y
  <2>1. x \in Nat /\ y \in Nat /\ ~(y < x)
    BY <1>2, <1>3
  <2> QED BY <2>1
<1> QED BY <1>4

\* The largest of a bounded set, from the smallest distance to its bound.
LEMMA LargestOf ==
  ASSUME NEW T \in SUBSET Nat, T # {}, NEW b \in Nat, \A y \in T : y <= b
  PROVE  \E x \in T : \A y \in T : y <= x
<1> DEFINE D == {b - y : y \in T}
<1>1. D \in SUBSET Nat /\ D # {}
  <2>1. \A y \in T : y \in Nat /\ y <= b /\ b - y \in Nat
    OBVIOUS
  <2> QED BY <2>1
<1>2. PICK e \in D : \A f \in D : e <= f
  BY <1>1, SmallestOf
<1>3. PICK x \in T : e = b - x
  OBVIOUS
<1>4. ASSUME NEW y \in T PROVE y <= x
  <2>1. b - x <= b - y /\ x \in Nat /\ y \in Nat
    BY <1>2, <1>3
  <2> QED BY <2>1
<1> QED BY <1>4

LEMMA Powers == \A p \in PowersOfTwo : p \in Nat /\ p >= 1
  BY DEF PowersOfTwo

(***************************************************************************)
(* next_power_of_two, as long as some power considered is large enough.    *)
(***************************************************************************)
LEMMA NextPower ==
  ASSUME NEW x \in Int, NEW r \in PowersOfTwo, r >= x
  PROVE  /\ NextPowerOfTwo(x) \in PowersOfTwo
         /\ NextPowerOfTwo(x) >= x /\ NextPowerOfTwo(x) <= r
<1> DEFINE T == {p \in PowersOfTwo : p >= x}
<1>1. T \in SUBSET Nat /\ T # {}
  BY Powers
<1>2. \E p \in T : \A q \in T : p <= q
  BY <1>1, SmallestOf
<1>3. \E p \in PowersOfTwo : p >= x /\ \A q \in PowersOfTwo : q >= x => p <= q
  BY <1>2
<1> QED BY <1>3 DEF NextPowerOfTwo

(***************************************************************************)
(* The automatic size is a power of two that fits, within the wire cap,    *)
(* and no smaller than MIN_NFFT at any rate that asks for that much.       *)
(***************************************************************************)
LEMMA Picked ==
  ASSUME NEW rate \in 0 .. MAX_SAMPLE_RATE, NEW usable \in Nat
  PROVE  \/ pick_nfft(rate, usable) = NoSize
         \/ /\ pick_nfft(rate, usable) \in PowersOfTwo
            /\ pick_nfft(rate, usable) <= usable /\ pick_nfft(rate, usable) <= MAX_NFFT
            /\ rate \div 6 >= MIN_NFFT => pick_nfft(rate, usable) >= MIN_NFFT
<1> DEFINE target == NextPowerOfTwo(Most(rate \div 6, 1))
           halved == {p \in PowersOfTwo : MIN_NFFT <= p /\ p < target /\ p <= usable}
           result == IF target <= usable THEN target
                     ELSE IF halved = {} THEN NoSize
                     ELSE CHOOSE p \in halved : \A q \in halved : q <= p
<1>1. /\ MAX_NFFT \in PowersOfTwo /\ MAX_SAMPLE_RATE \in Nat /\ MAX_SAMPLE_RATE \div 6 <= MAX_NFFT
      /\ MIN_NFFT \in Nat /\ rate \in Nat /\ rate <= MAX_SAMPLE_RATE
  BY SnapshotAssumption, WelchAssumption
<1>2. rate \div 6 \in Nat /\ rate \div 6 <= MAX_NFFT /\ MAX_NFFT >= 1 /\ MAX_NFFT \in Nat
  BY <1>1, Powers
<1>3. Most(rate \div 6, 1) \in Nat /\ Most(rate \div 6, 1) <= MAX_NFFT /\ Most(rate \div 6, 1) >= rate \div 6
  BY <1>2 DEF Most
<1>4. target \in PowersOfTwo /\ target >= rate \div 6 /\ target <= MAX_NFFT
  <2>1. target \in PowersOfTwo /\ target >= Most(rate \div 6, 1) /\ target <= MAX_NFFT
    BY <1>1, <1>3, NextPower
  <2>2. target \in Nat
    BY <2>1, Powers
  <2> QED BY <1>2, <1>3, <2>1, <2>2
<1>5. target \in Nat
  BY <1>4, Powers
<1>6. CASE target <= usable
  <2>1. result = target
    BY <1>6
  <2> HIDE DEF target
  <2>2. rate \div 6 >= MIN_NFFT => target >= MIN_NFFT
    BY <1>1, <1>2, <1>4, <1>5
  <2> QED BY <1>4, <1>6, <2>1, <2>2 DEF pick_nfft, target
<1>7. CASE ~(target <= usable) /\ halved = {}
  BY <1>7 DEF pick_nfft
<1>8. CASE ~(target <= usable) /\ halved # {}
  <2> HIDE DEF target
  <2>1. halved \in SUBSET Nat /\ \A p \in halved : p <= usable
    BY Powers
  <2>2. \E p \in halved : \A q \in halved : q <= p
    BY <1>8, <2>1, LargestOf
  <2>3. result \in halved
    BY <1>8, <2>2
  <2>4. \A p \in halved : p \in PowersOfTwo /\ p <= usable /\ p <= MAX_NFFT /\ p >= MIN_NFFT
    BY <1>1, <1>2, <1>4, <1>5, Powers
  <2>5. pick_nfft(rate, usable) = result
    BY <1>8 DEF pick_nfft, target
  <2> HIDE DEF halved, result
  <2> QED BY <2>3, <2>4, <2>5
<1> QED BY <1>6, <1>7, <1>8

-----------------------------------------------------------------------------
\* What reports, snapshots and saved sessions are made of.
Outcomes == {"Ok", "LowConfidence", "TooShort", "NonFinite", "Silence"}
Reports == [outcome : Outcomes, offset : Int, corr : Nat, peak : Int, max_shift : Nat]
Spectra == [nfft : Nat, prealign : Int, segments : Nat, pmm : Nat, prr : Nat, pmr : Nat]
Snapshots == [main : Nat, reference : Nat, rate : Nat, max_shift : Nat, corr : Nat, peak : Int,
              splices : SUBSET Nat, spectrum : Spectra \cup {NoSpectrum},
              outcome : Outcomes, offset : Int]
Blobs == [v : Nat, rate : Nat, max_shift : Nat, main : Nat, reference : Nat, corr : Nat,
          peak : Int, splices : SUBSET Nat, outcome : Outcomes, offset : Int,
          spectrum : Spectra \cup {NoSpectrum}]

\* A spectrum decode() accepts.
Fitting(sp) ==
  sp # NoSpectrum =>
    /\ sp \in Spectra
    /\ sp.nfft \in PowersOfTwo \cap MIN_NFFT .. MAX_NFFT
    /\ Magnitude(sp.prealign) <= MAX_WAVE_SAMPLES
    /\ sp.pmm = Bins(sp.nfft) /\ sp.prr = Bins(sp.nfft) /\ sp.pmr = Bins(sp.nfft)

(***************************************************************************)
(* The snapshots a save keeps: those of which decode() accepts what        *)
(* encode() writes.  Whatever the task publishes with a decodable size and *)
(* whatever a load restores is among them.                                 *)
(***************************************************************************)
Storable(s) ==
  /\ s \in Snapshots
  /\ s.rate \in 1 .. MAX_SAMPLE_RATE /\ s.rate # NonFinite
  /\ s.max_shift <= MAX_SHIFT_SAMPLES_CAP
  /\ s.main <= MAX_WAVE_SAMPLES /\ s.reference = s.main
  /\ s.corr = 0 \/ s.corr = Curve(s.max_shift)
  /\ Cardinality(s.splices) <= MAX_SPLICES /\ \A t \in s.splices : t <= s.main
  /\ Fitting(s.spectrum)
  /\ s.outcome = "Ok" => s.offset # NonFinite

(***************************************************************************)
(* A capture long enough to analyze is searched over at least lag 0.       *)
(***************************************************************************)
LEMMA Searched ==
  ASSUME NEW c \in Captures, c.n >= MIN_ANALYSIS_SAMPLES, c.w # 0
  PROVE  SearchedShift(c.n, c.w) \in 0 .. c.w
<1>1. c.n \in Nat /\ c.w \in Nat /\ c.w >= 1 /\ c.n >= 2
  BY SnapshotAssumption, AnalysisAssumption DEF InCaps
<1>2. PICK r \in PowersOfTwo : c.n + c.w < r
  BY SnapshotAssumption DEF InCaps
<1> DEFINE p == NextPowerOfTwo(c.n + c.w + 1)
<1>3. r \in Nat /\ r >= c.n + c.w + 1 /\ c.n + c.w + 1 \in Int
  BY <1>1, <1>2, Powers
<1>4. p \in PowersOfTwo /\ p >= c.n + c.w + 1
  BY <1>3, NextPower
<1>5. p \in Nat
  BY <1>4, Powers
<1> HIDE DEF p
<1>6. p \div 2 - 2 \in Nat
  BY <1>1, <1>4, <1>5
<1> QED BY <1>1, <1>6 DEF SearchedShift, Least, p

(***************************************************************************)
(* Every report states the window it searched and a curve over it, or none.*)
(***************************************************************************)
LEMMA Reported ==
  ASSUME NEW c \in Captures, NEW level \in Levels, NEW report \in analyze_detailed(c.n, c.w, level)
  PROVE  /\ report \in Reports /\ report.max_shift <= c.w
         /\ report.corr = 0 \/ report.corr = Curve(report.max_shift)
         /\ report.outcome = "Ok" => report.offset <= c.w + 1
<1>1. c.n \in Nat /\ c.w \in Nat
  BY SnapshotAssumption DEF InCaps
<1>2. ASSUME NEW reason \in {"TooShort", "NonFinite", "Silence"}, report = Reject(reason, c.w)
      PROVE  /\ report \in Reports /\ report.max_shift <= c.w /\ report.corr = 0
             /\ report.outcome # "Ok"
  BY <1>1, <1>2 DEF Reject, Reports, Outcomes
<1>3. CASE \E reason \in {"TooShort", "NonFinite", "Silence"} : report = Reject(reason, c.w)
  BY <1>2, <1>3
<1>4. CASE ~\E reason \in {"TooShort", "NonFinite", "Silence"} : report = Reject(reason, c.w)
  <2> DEFINE ms == SearchedShift(c.n, c.w)
  <2>1. c.n >= MIN_ANALYSIS_SAMPLES /\ c.w # 0
    BY <1>1, <1>4, AnalysisAssumption DEF analyze_detailed
  <2>2. ms \in Nat /\ ms <= c.w
    BY <1>1, <2>1, Searched
  <2>3. \/ \E p \in -ms .. ms : report = [outcome |-> "LowConfidence", offset |-> 0,
              corr |-> Curve(ms), peak |-> p + ms, max_shift |-> ms]
        \/ \E p \in -ms .. ms, r \in {-1, 0, 1} : report = [outcome |-> "Ok", offset |-> p + r,
              corr |-> Curve(ms), peak |-> p + ms, max_shift |-> ms]
    <3> HIDE DEF ms
    <3> QED BY <1>4, <2>1 DEF analyze_detailed, ms
  <2> HIDE DEF ms
  <2>4. Curve(ms) \in Nat
    BY <2>2 DEF Curve
  <2>5. ASSUME NEW p \in -ms .. ms,
               report = [outcome |-> "LowConfidence", offset |-> 0,
                         corr |-> Curve(ms), peak |-> p + ms, max_shift |-> ms]
        PROVE  /\ report \in Reports /\ report.max_shift = ms
               /\ report.corr = Curve(ms) /\ report.outcome # "Ok"
    BY <2>2, <2>4, <2>5 DEF Reports, Outcomes
  <2>6. ASSUME NEW p \in -ms .. ms, NEW r \in {-1, 0, 1},
               report = [outcome |-> "Ok", offset |-> p + r,
                         corr |-> Curve(ms), peak |-> p + ms, max_shift |-> ms]
        PROVE  /\ report \in Reports /\ report.max_shift = ms
               /\ report.corr = Curve(ms) /\ report.offset <= c.w + 1
    <3>1. p + r \in Int /\ p + ms \in Int /\ p + r <= c.w + 1
      BY <1>1, <2>2
    <3> QED BY <2>2, <2>4, <2>6, <3>1 DEF Reports, Outcomes
  <2> QED BY <2>2, <2>3, <2>5, <2>6
<1> QED BY <1>3, <1>4

\* The same after the guards around the seams.
LEMMA SplicedReported ==
  ASSUME NEW c \in Captures, NEW report \in analyze_spliced(c)
  PROVE  /\ report \in Reports /\ report.max_shift <= c.w
         /\ report.corr = 0 \/ report.corr = Curve(report.max_shift)
         /\ report.outcome = "Ok" => report.offset <= c.w + 1
<1>1. c.level \in Levels
  BY SnapshotAssumption DEF InCaps
<1>2. CASE c.splices = {}
  BY <1>1, <1>2, Reported DEF analyze_spliced
<1>3. CASE c.splices # {}
  <2>1. GuardedLevels(c.level) \subseteq Levels
    BY <1>1 DEF GuardedLevels, Levels
  <2>2. PICK g \in GuardedLevels(c.level) : \E r \in analyze_detailed(c.n, c.w, g) :
          report = Downgraded(r, c.level)
    BY <1>3 DEF analyze_spliced
  <2>3. PICK r \in analyze_detailed(c.n, c.w, g) : report = Downgraded(r, c.level)
    BY <2>2
  <2>4. /\ r \in Reports /\ r.max_shift <= c.w
        /\ r.corr = 0 \/ r.corr = Curve(r.max_shift)
        /\ r.outcome = "Ok" => r.offset <= c.w + 1
    BY <2>1, Reported
  <2>5. CASE report = r
    BY <2>4, <2>5
  <2>6. CASE report = Reject("TooShort", r.max_shift)
    <3>1. r.max_shift \in Nat
      BY <2>4 DEF Reports
    <3> QED BY <2>4, <2>6, <3>1 DEF Reject, Reports, Outcomes
  <2> QED BY <2>3, <2>5, <2>6 DEF Downgraded
<1> QED BY <1>2, <1>3

LEMMA LagType ==
  ASSUME NEW report, report.outcome = "Ok" => report.offset \in Int,
         report.corr \in Nat, report.peak \in Int, report.max_shift \in Int
  PROVE  prealign_lag(report) \in Int
  BY DEF prealign_lag

LEMMA EstimateFinite ==
  ASSUME NEW n \in Nat, NEW d \in Int, NEW nfft \in Nat, NEW splices
  PROVE  Cardinality(estimate_with_seam_fallback(n, d, nfft, splices)) \in Nat
<1>1. Most(d, 0) \in Int /\ Least(d, 0) \in Int
  BY DEF Most, Least
<1>2. n - nfft + Least(d, 0) \in Int
  BY <1>1
<1>3. IsFiniteSet(Most(d, 0) .. n - nfft + Least(d, 0))
  BY <1>1, <1>2, FS_Interval
<1>4. IsFiniteSet(SegmentStarts(n, d, nfft))
  <2>1. SegmentStarts(n, d, nfft) \subseteq Most(d, 0) .. n - nfft + Least(d, 0)
    BY DEF SegmentStarts
  <2> QED BY <1>3, <2>1, FS_Subset
<1>5. estimate_with_seam_fallback(n, d, nfft, splices) \subseteq SegmentStarts(n, d, nfft)
  BY DEF estimate_with_seam_fallback, estimate
<1>6. IsFiniteSet(estimate_with_seam_fallback(n, d, nfft, splices))
  BY <1>4, <1>5, FS_Subset
<1> QED BY <1>6, FS_CardinalityType

(***************************************************************************)
(* The task's spectrum, whatever choice it read: of a decodable size, a    *)
(* spectrum decode() accepts; for a choice the selector offers, always.    *)
(***************************************************************************)
LEMMA SpectrumFits ==
  ASSUME NEW c \in Captures, NEW report \in Reports, NEW override \in Nat
  PROVE  LET sp == welch_for_capture(c.n, c.rate, report, c.splices, override)
         IN /\ sp \in Spectra \cup {NoSpectrum}
            /\ Decodable(sp) => Fitting(sp)
            /\ override \in Listed => Decodable(sp)
<1> DEFINE d == prealign_lag(report)
           usable == usable_len(c.n, d)
           nfft == IF nfft_fits(override, usable) THEN override ELSE pick_nfft(c.rate, usable)
           segments == estimate_with_seam_fallback(c.n, d, nfft, c.splices)
           sp == [nfft |-> nfft, prealign |-> d, segments |-> Cardinality(segments),
                  pmm |-> Bins(nfft), prr |-> Bins(nfft), pmr |-> Bins(nfft)]
<1>1. /\ c.n \in Nat /\ c.n <= MAX_WAVE_SAMPLES /\ MAX_WAVE_SAMPLES \in Nat
      /\ c.rate \in 0 .. MAX_SAMPLE_RATE /\ c.rate \div 6 >= MIN_NFFT
      /\ MIN_NFFT \in Nat /\ MIN_NFFT >= 2
  BY SnapshotAssumption, WelchAssumption DEF InCaps
<1>2. d \in Int
  BY LagType DEF Reports
<1> HIDE DEF d
<1>3. usable \in Nat /\ (usable > 0 => Magnitude(d) <= c.n)
  BY <1>1, <1>2 DEF usable_len, Most, Magnitude
<1> HIDE DEF usable
<1>4. nfft # NoSize => /\ nfft \in Nat /\ nfft >= MIN_NFFT /\ nfft <= usable
                       /\ override \in Listed => nfft \in PowersOfTwo \cap MIN_NFFT .. MAX_NFFT
  <2>1. CASE nfft_fits(override, usable)
    <3>1. override \in MIN_NFFT .. usable /\ override # AutoSize
      BY <1>1, <1>3, <2>1 DEF nfft_fits, AutoSize
    <3> QED BY <1>1, <1>3, <2>1, <3>1, SnapshotAssumption DEF Listed
  <2>2. CASE ~nfft_fits(override, usable)
    <3>1. nfft = pick_nfft(c.rate, usable)
      BY <2>2
    <3>2. nfft # NoSize => nfft \in PowersOfTwo /\ nfft <= usable /\ nfft <= MAX_NFFT /\ nfft >= MIN_NFFT
      BY <1>1, <1>3, <3>1, Picked
    <3>3. MAX_NFFT \in Nat
      BY SnapshotAssumption, Powers
    <3> HIDE DEF nfft
    <3> QED BY <1>1, <3>2, <3>3, Powers
  <2> QED BY <2>1, <2>2
<1>5. welch_for_capture(c.n, c.rate, report, c.splices, override) =
        IF report.corr = 0 \/ nfft = NoSize THEN NoSpectrum
        ELSE IF segments = {} THEN NoSpectrum ELSE sp
  BY DEF welch_for_capture, Spectrum, d, usable
<1> HIDE DEF nfft
<1>6. ASSUME nfft # NoSize
      PROVE  /\ sp \in Spectra /\ (Decodable(sp) => Fitting(sp))
             /\ override \in Listed => Decodable(sp)
  <2>1. Cardinality(segments) \in Nat
    BY <1>1, <1>2, <1>4, <1>6, EstimateFinite
  <2>2. Bins(nfft) \in Nat
    BY <1>4, <1>6 DEF Bins
  <2> HIDE DEF segments
  <2>3. sp \in Spectra
    BY <1>2, <1>4, <1>6, <2>1, <2>2 DEF Spectra
  <2>4. Magnitude(d) <= MAX_WAVE_SAMPLES
    <3>1. Magnitude(d) \in Int
      BY <1>2 DEF Magnitude
    <3> QED BY <1>1, <1>3, <1>4, <1>6, <3>1
  <2>5. sp.nfft = nfft /\ sp.prealign = d /\ sp.pmm = Bins(nfft) /\ sp.prr = Bins(nfft)
        /\ sp.pmr = Bins(nfft) /\ sp # NoSpectrum
    BY <1>6 DEF NoSpectrum
  <2> HIDE DEF sp
  <2> QED BY <1>4, <1>6, <2>3, <2>4, <2>5 DEF Fitting, Decodable
<1> QED BY <1>5, <1>6 DEF Fitting, Decodable

(***************************************************************************)
(* What the task publishes can be saved.                                   *)
(***************************************************************************)
LEMMA PublishedStorable ==
  ASSUME NEW c \in Captures, NEW report \in analyze_spliced(c), NEW override \in Nat
  PROVE  /\ Published(c, report, override) \in Snapshots
         /\ Published(c, report, override).rate \in 1 .. MAX_SAMPLE_RATE
         /\ Decodable(Published(c, report, override).spectrum)
              => Storable(Published(c, report, override))
         /\ override \in Listed => Decodable(Published(c, report, override).spectrum)
<1> DEFINE s == Published(c, report, override)
           sp == welch_for_capture(c.n, c.rate, report, c.splices, override)
<1>1. /\ c.n \in 0 .. MAX_WAVE_SAMPLES /\ c.w \in 0 .. MAX_SHIFT_SAMPLES_CAP
      /\ c.rate \in 1 .. MAX_SAMPLE_RATE /\ MAX_SAMPLE_RATE < NonFinite
      /\ c.splices \subseteq 0 .. c.n /\ Cardinality(c.splices) <= MAX_SPLICES
      /\ {MAX_SAMPLE_RATE, MAX_WAVE_SAMPLES, MAX_SHIFT_SAMPLES_CAP} \subseteq Nat
      /\ MAX_SHIFT_SAMPLES_CAP + 1 < NonFinite /\ NonFinite \in Nat
  BY SnapshotAssumption DEF InCaps, NonFinite
<1>2. /\ report \in Reports /\ report.max_shift <= c.w
      /\ report.corr = 0 \/ report.corr = Curve(report.max_shift)
      /\ report.outcome = "Ok" => report.offset <= c.w + 1
  BY SplicedReported
<1>3. /\ sp \in Spectra \cup {NoSpectrum}
      /\ Decodable(sp) => Fitting(sp)
      /\ override \in Listed => Decodable(sp)
  BY <1>2, SpectrumFits
<1>4. s = [main |-> c.n, reference |-> c.n, rate |-> c.rate, max_shift |-> report.max_shift,
           corr |-> report.corr, peak |-> report.peak, splices |-> c.splices,
           spectrum |-> sp, outcome |-> report.outcome, offset |-> report.offset]
  BY DEF Published
<1> HIDE DEF s, sp
<1>5. /\ report.outcome \in Outcomes /\ report.offset \in Int /\ report.corr \in Nat
      /\ report.peak \in Int /\ report.max_shift \in Nat
  BY <1>2 DEF Reports
<1>6. c.splices \in SUBSET Nat /\ \A t \in c.splices : t <= c.n
  BY <1>1
<1>7. s \in Snapshots
  BY <1>1, <1>3, <1>4, <1>5, <1>6 DEF Snapshots
<1>8. /\ s.rate = c.rate /\ s.max_shift = report.max_shift /\ s.main = c.n /\ s.reference = c.n
      /\ s.corr = report.corr /\ s.splices = c.splices /\ s.spectrum = sp
      /\ s.outcome = report.outcome /\ s.offset = report.offset
  BY <1>4
<1>9. s.rate \in 1 .. MAX_SAMPLE_RATE /\ s.rate # NonFinite /\ s.main <= MAX_WAVE_SAMPLES
      /\ s.max_shift <= MAX_SHIFT_SAMPLES_CAP /\ (s.outcome = "Ok" => s.offset # NonFinite)
  BY <1>1, <1>2, <1>5, <1>8
<1> QED BY <1>1, <1>2, <1>3, <1>6, <1>7, <1>8, <1>9 DEF Storable, s

-----------------------------------------------------------------------------
(***************************************************************************)
(* What decode() lets through can be saved again.                          *)
(***************************************************************************)
LEMMA RestoredStorable ==
  ASSUME NEW b \in Blobs, BlobDecodes(b)
  PROVE  Storable(Decoded(b))
<1> DEFINE sp == b.spectrum
           back == WithCurves(sp, sp.pmm \div 4, sp.prr \div 4, sp.pmr \div 8)
           spectrum == IF sp = NoSpectrum THEN NoSpectrum ELSE back
<1>1. /\ b.main \in Nat /\ b.reference \in Nat /\ b.rate \in Nat /\ b.max_shift \in Nat
      /\ b.corr \in Nat /\ b.peak \in Int /\ b.splices \in SUBSET Nat
      /\ sp \in Spectra \cup {NoSpectrum} /\ b.outcome \in Outcomes /\ b.offset \in Int
  BY DEF Blobs
<1>2. spectrum \in Spectra \cup {NoSpectrum} /\ Fitting(spectrum)
  <2>1. CASE sp = NoSpectrum
    BY <2>1 DEF Fitting
  <2>2. CASE sp # NoSpectrum
    <3>1. sp \in Spectra /\ SpectrumDecodes(sp)
      BY <1>1, <2>2 DEF BlobDecodes
    <3> HIDE DEF sp
    <3>2. /\ back \in Spectra /\ back.nfft = sp.nfft /\ back.prealign = sp.prealign
          /\ back.pmm = sp.pmm \div 4 /\ back.prr = sp.prr \div 4 /\ back.pmr = sp.pmr \div 8
      BY <3>1 DEF Spectra, WithCurves
    <3> HIDE DEF back
    <3>3. Fitting(back)
      BY <3>1, <3>2 DEF Fitting, SpectrumDecodes
    <3> QED BY <2>2, <3>2, <3>3
  <2> QED BY <2>1, <2>2
<1>3. Decoded(b) = [main |-> b.main \div 4, reference |-> b.reference \div 4, rate |-> b.rate,
        max_shift |-> b.max_shift, corr |-> b.corr \div 4, peak |-> b.peak,
        splices |-> b.splices, outcome |-> b.outcome, offset |-> b.offset, spectrum |-> spectrum]
  BY DEF Decoded
<1> HIDE DEF spectrum, sp
<1>4. Decoded(b) \in Snapshots
  <2>1. b.main \div 4 \in Nat /\ b.reference \div 4 \in Nat /\ b.corr \div 4 \in Nat
    BY <1>1
  <2> QED BY <1>1, <1>2, <1>3, <2>1 DEF Snapshots
<1>5. /\ b.rate > 0 /\ b.rate <= MAX_SAMPLE_RATE /\ b.rate # NonFinite
      /\ b.max_shift <= MAX_SHIFT_SAMPLES_CAP
      /\ b.main \div 4 <= MAX_WAVE_SAMPLES /\ b.main = b.reference
      /\ b.corr = 0 \/ b.corr \div 4 = Curve(b.max_shift)
      /\ Cardinality(b.splices) <= MAX_SPLICES /\ \A t \in b.splices : t <= b.main \div 4
      /\ b.outcome = "Ok" => b.offset # NonFinite
  BY DEF BlobDecodes, Decodes, Curve
<1>6. b.rate \in 1 .. MAX_SAMPLE_RATE
  BY <1>1, <1>5, SnapshotAssumption
<1>7. b.corr = 0 => b.corr \div 4 = 0
  BY <1>1
<1> DEFINE s == Decoded(b)
<1>8. /\ s.rate = b.rate /\ s.max_shift = b.max_shift /\ s.main = b.main \div 4
      /\ s.reference = b.reference \div 4 /\ s.corr = b.corr \div 4 /\ s.splices = b.splices
      /\ s.spectrum = spectrum /\ s.outcome = b.outcome /\ s.offset = b.offset
  BY <1>3
<1> HIDE DEF s
<1>9. s \in Snapshots
  BY <1>4 DEF s
<1> QED BY <1>2, <1>5, <1>6, <1>7, <1>8, <1>9 DEF Storable, s

\* The length check passes whatever fits the cap, in four or eight bytes.
LEMMA CountDecodes ==
  ASSUME NEW k \in Nat, NEW max \in Nat, k <= max
  PROVE  /\ Decodes(4 * k, 4, max) /\ (4 * k) \div 4 = k
         /\ Decodes(8 * k, 8, max) /\ (8 * k) \div 8 = k
<1>1. (4 * k) \div 4 = k /\ (4 * k) % 4 = 0 /\ (8 * k) \div 8 = k /\ (8 * k) % 8 = 0
  OBVIOUS
<1>2. 4 * ((4 * k + 2) \div 3) <= 4 * ((max * 4 + 2) \div 3) + 4
  OBVIOUS
<1>3. 4 * ((8 * k + 2) \div 3) <= 4 * ((max * 8 + 2) \div 3) + 4
  OBVIOUS
<1> QED BY <1>1, <1>2, <1>3 DEF Decodes, Base64Length

(***************************************************************************)
(* decode() accepts what encode() writes of a storable snapshot and gives  *)
(* the same snapshot back.                                                 *)
(***************************************************************************)
LEMMA EncodedBack ==
  ASSUME NEW s, Storable(s)
  PROVE  encode(s) \in Blobs /\ BlobDecodes(encode(s)) /\ Decoded(encode(s)) = s
<1> DEFINE sp == s.spectrum
           out == WithCurves(sp, 4 * sp.pmm, 4 * sp.prr, 8 * sp.pmr)
           spectrum == IF sp = NoSpectrum THEN NoSpectrum ELSE out
           back == WithCurves(spectrum, spectrum.pmm \div 4, spectrum.prr \div 4, spectrum.pmr \div 8)
           b == encode(s)
<1>1. /\ s.main \in Nat /\ s.reference \in Nat /\ s.rate \in Nat /\ s.max_shift \in Nat
      /\ s.corr \in Nat /\ s.peak \in Int /\ s.splices \in SUBSET Nat
      /\ sp \in Spectra \cup {NoSpectrum} /\ s.outcome \in Outcomes /\ s.offset \in Int
      /\ s = [main |-> s.main, reference |-> s.reference, rate |-> s.rate,
              max_shift |-> s.max_shift, corr |-> s.corr, peak |-> s.peak, splices |-> s.splices,
              spectrum |-> sp, outcome |-> s.outcome, offset |-> s.offset]
  BY DEF Storable, Snapshots
<1>2. sp # NoSpectrum =>
        /\ spectrum \in Spectra /\ spectrum # NoSpectrum /\ SpectrumDecodes(spectrum)
        /\ back = sp
  <2> SUFFICES ASSUME sp # NoSpectrum
               PROVE  /\ out \in Spectra /\ out # NoSpectrum /\ SpectrumDecodes(out)
                      /\ WithCurves(out, out.pmm \div 4, out.prr \div 4, out.pmr \div 8) = sp
    OBVIOUS
  <2>1. Fitting(sp) /\ sp \in Spectra
    BY <1>1 DEF Storable
  <2>2. /\ sp.nfft \in Nat /\ sp.prealign \in Int /\ sp.segments \in Nat
        /\ sp.pmm \in Nat /\ sp.prr \in Nat /\ sp.pmr \in Nat
        /\ sp = [nfft |-> sp.nfft, prealign |-> sp.prealign, segments |-> sp.segments,
                 pmm |-> sp.pmm, prr |-> sp.prr, pmr |-> sp.pmr]
    BY <2>1 DEF Spectra
  <2>3. /\ sp.nfft \in PowersOfTwo \cap MIN_NFFT .. MAX_NFFT
        /\ Magnitude(sp.prealign) <= MAX_WAVE_SAMPLES
        /\ sp.pmm = Bins(sp.nfft) /\ sp.prr = Bins(sp.nfft) /\ sp.pmr = Bins(sp.nfft)
    BY <2>1 DEF Fitting
  <2> HIDE DEF sp
  <2>4. out = [nfft |-> sp.nfft, prealign |-> sp.prealign, segments |-> sp.segments,
               pmm |-> 4 * sp.pmm, prr |-> 4 * sp.prr, pmr |-> 8 * sp.pmr]
    BY DEF WithCurves
  <2> HIDE DEF out
  <2>5. /\ out.nfft = sp.nfft /\ out.prealign = sp.prealign /\ out.pmm = 4 * sp.pmm
        /\ out.prr = 4 * sp.prr /\ out.pmr = 8 * sp.pmr
    BY <2>4
  <2>6. out \in Spectra
    <3>1. 4 * sp.pmm \in Nat /\ 4 * sp.prr \in Nat /\ 8 * sp.pmr \in Nat
      BY <2>2
    <3> QED BY <2>2, <2>4, <3>1 DEF Spectra
  <2>7. out # NoSpectrum
    <3>1. sp.nfft # 0
      BY <2>3, WelchAssumption
    <3> QED BY <2>5, <3>1 DEF NoSpectrum, NoSize
  <2>8. SpectrumDecodes(out)
    <3>1. Bins(sp.nfft) \in Nat
      BY <2>2, <2>3
    <3> DEFINE k == Bins(sp.nfft)
    <3>2. /\ Decodes(4 * k, 4, k) /\ (4 * k) \div 4 = k
          /\ Decodes(8 * k, 8, k) /\ (8 * k) \div 8 = k
      <4> HIDE DEF k
      <4>1. k \in Nat /\ k <= k
        BY <3>1 DEF k
      <4> QED BY <4>1, CountDecodes
    <3>3. /\ Decodes(4 * sp.pmm, 4, Bins(sp.nfft)) /\ Decodes(4 * sp.prr, 4, Bins(sp.nfft))
          /\ Decodes(8 * sp.pmr, 8, Bins(sp.nfft)) /\ (4 * sp.pmm) \div 4 = Bins(sp.nfft)
          /\ (4 * sp.prr) \div 4 = Bins(sp.nfft) /\ (8 * sp.pmr) \div 8 = Bins(sp.nfft)
      BY <2>3, <3>2
    <3> QED BY <2>3, <2>5, <3>3 DEF SpectrumDecodes
  <2>9. WithCurves(out, out.pmm \div 4, out.prr \div 4, out.pmr \div 8) =
          [nfft |-> sp.nfft, prealign |-> sp.prealign, segments |-> sp.segments,
           pmm |-> sp.pmm, prr |-> sp.prr, pmr |-> sp.pmr]
    <3>1. (4 * sp.pmm) \div 4 = sp.pmm /\ (4 * sp.prr) \div 4 = sp.prr /\ (8 * sp.pmr) \div 8 = sp.pmr
      BY <2>2
    <3> QED BY <2>4, <3>1 DEF WithCurves
  <2> QED BY <2>2, <2>6, <2>7, <2>8, <2>9
<1>3. sp = NoSpectrum => spectrum = NoSpectrum
  OBVIOUS
<1>4. b = [v |-> BLOB_VERSION, rate |-> s.rate, max_shift |-> s.max_shift,
           main |-> 4 * s.main, reference |-> 4 * s.reference, corr |-> 4 * s.corr,
           peak |-> s.peak, splices |-> s.splices, outcome |-> s.outcome, offset |-> s.offset,
           spectrum |-> spectrum]
  BY DEF encode
<1> HIDE DEF sp, spectrum, b
<1>5. /\ b.v = BLOB_VERSION /\ b.rate = s.rate /\ b.max_shift = s.max_shift /\ b.main = 4 * s.main
      /\ b.reference = 4 * s.reference /\ b.corr = 4 * s.corr /\ b.peak = s.peak
      /\ b.splices = s.splices /\ b.outcome = s.outcome /\ b.offset = s.offset
      /\ b.spectrum = spectrum
  BY <1>4
<1>6. b \in Blobs
  <2>1. 4 * s.main \in Nat /\ 4 * s.reference \in Nat /\ 4 * s.corr \in Nat /\ BLOB_VERSION \in Nat
    BY <1>1 DEF BLOB_VERSION
  <2> QED BY <1>1, <1>2, <1>3, <1>4, <2>1 DEF Blobs
<1>7. /\ MAX_WAVE_SAMPLES \in Nat /\ 2 * MAX_SHIFT_SAMPLES_CAP + 1 \in Nat /\ MAX_SAMPLE_RATE \in Nat
      /\ MAX_SHIFT_SAMPLES_CAP \in Nat
  BY SnapshotAssumption
<1>8. /\ s.rate \in 1 .. MAX_SAMPLE_RATE /\ s.rate # NonFinite
      /\ s.max_shift <= MAX_SHIFT_SAMPLES_CAP
      /\ s.main <= MAX_WAVE_SAMPLES /\ s.reference = s.main
      /\ s.corr = 0 \/ s.corr = 2 * s.max_shift + 1
      /\ Cardinality(s.splices) <= MAX_SPLICES /\ \A t \in s.splices : t <= s.main
      /\ s.outcome = "Ok" => s.offset # NonFinite
  BY DEF Storable, Curve
<1>9. s.corr <= 2 * MAX_SHIFT_SAMPLES_CAP + 1
  BY <1>1, <1>7, <1>8
<1>10. /\ Decodes(b.main, 4, MAX_WAVE_SAMPLES) /\ Decodes(b.reference, 4, MAX_WAVE_SAMPLES)
       /\ Decodes(b.corr, 4, 2 * MAX_SHIFT_SAMPLES_CAP + 1)
       /\ b.main \div 4 = s.main /\ b.reference \div 4 = s.reference /\ b.corr \div 4 = s.corr
  BY <1>1, <1>5, <1>7, <1>8, <1>9, CountDecodes
<1>11. b.corr = 0 \/ b.corr \div 4 = 2 * b.max_shift + 1
  BY <1>1, <1>5, <1>8, <1>10
<1>12. b.spectrum = NoSpectrum \/ SpectrumDecodes(b.spectrum)
  BY <1>2, <1>3, <1>5
<1>13. b.rate > 0 /\ b.rate <= MAX_SAMPLE_RATE /\ b.rate # NonFinite
  BY <1>5, <1>8
<1>14. BlobDecodes(b)
  BY <1>5, <1>8, <1>10, <1>11, <1>12, <1>13 DEF BlobDecodes
<1>15. Decoded(b) = [main |-> s.main, reference |-> s.reference, rate |-> s.rate,
          max_shift |-> s.max_shift, corr |-> s.corr, peak |-> s.peak,
          splices |-> s.splices, outcome |-> s.outcome, offset |-> s.offset,
          spectrum |-> IF b.spectrum = NoSpectrum THEN NoSpectrum ELSE back]
  BY <1>5, <1>10 DEF Decoded
<1>16. (IF b.spectrum = NoSpectrum THEN NoSpectrum ELSE back) = sp
  BY <1>2, <1>3, <1>5
<1> HIDE DEF back
<1> QED BY <1>1, <1>6, <1>14, <1>15, <1>16 DEF b

-----------------------------------------------------------------------------
(***************************************************************************)
(* An edited session still has the fields of one.                          *)
(***************************************************************************)
LEMMA EditedBlobs ==
  ASSUME NEW b \in Blobs, NEW e \in Edited(b)
  PROVE  e \in Blobs
<1>1. EditValues \subseteq Nat /\ MAX_WAVE_SAMPLES \in Nat /\ NonFinite \in Int
  BY SnapshotAssumption DEF NonFinite
<1>2. ASSUME NEW field \in {"v", "rate", "max_shift", "main", "reference", "corr"},
             NEW x \in EditValues, e = [b EXCEPT ![field] = x]
      PROVE  e \in Blobs
  BY <1>1, <1>2 DEF Blobs
<1>3. ASSUME NEW x \in {NonFinite, -MAX_WAVE_SAMPLES}, e = [b EXCEPT !.offset = x]
      PROVE  e \in Blobs
  BY <1>1, <1>3 DEF Blobs
<1>4. ASSUME NEW x \in EditValues, e = [b EXCEPT !.splices = {x}]
      PROVE  e \in Blobs
  BY <1>1, <1>4 DEF Blobs
<1>5. ASSUME b.spectrum # NoSpectrum, NEW field \in {"nfft", "prealign", "pmm", "pmr"},
             NEW x \in EditValues, e = [b EXCEPT !.spectrum[field] = x]
      PROVE  e \in Blobs
  <2>1. b.spectrum \in Spectra
    BY <1>5 DEF Blobs
  <2>2. [b.spectrum EXCEPT ![field] = x] \in Spectra
    BY <1>1, <2>1 DEF Spectra
  <2>3. e = [b EXCEPT !.spectrum = [b.spectrum EXCEPT ![field] = x]]
    BY <1>5
  <2> DEFINE sp == [b.spectrum EXCEPT ![field] = x]
  <2> HIDE DEF sp
  <2> QED BY <2>2, <2>3 DEF Blobs, sp
<1> QED BY <1>2, <1>3, <1>4, <1>5 DEF Edited

(***************************************************************************)
(* The invariants.  CellInv is the shape of what the cell holds, whatever  *)
(* the session stored; RestoredInv is that it can be saved if its size can *)
(* be decoded, and that the panel agrees with the task while both go by    *)
(* the same choice, unless the task honoured an unlisted one.              *)
(***************************************************************************)
Views == [lo : Int, span : Int]

CellInv ==
  /\ cell # NoSnapshot => cell \in Snapshots /\ cell.rate \in 1 .. MAX_SAMPLE_RATE
  /\ choice \in Nat
  /\ view \in Views

RestoredInv ==
  /\ cell # NoSnapshot /\ Decodable(cell.spectrum) => Storable(cell)
  /\ cell # NoSnapshot /\ used \in Listed => Decodable(cell.spectrum)
  /\ used # NotUsed /\ cell # NoSnapshot /\ cell.spectrum # NoSpectrum
       => \/ cell.spectrum.nfft = resolve_nfft(used, cell.rate, Usable(cell))
          \/ used \notin Listed /\ cell.spectrum.nfft = used

LEMMA OptionsNat == \A n \in SPECTRUM_NFFT_OPTIONS \cup {AutoSize} : n \in Nat
  BY SnapshotAssumption, Powers DEF AutoSize

LEMMA StorableShape ==
  ASSUME NEW s, Storable(s)
  PROVE  s \in Snapshots /\ s.rate \in 1 .. MAX_SAMPLE_RATE
  BY DEF Storable

\* A restored snapshot is storable, however its session was edited.
LEMMA LoadedStorable ==
  ASSUME NEW s \in Snapshots, s.rate \in 1 .. MAX_SAMPLE_RATE,
         NEW b \in Sessions(s), Restored(b) # NoSnapshot, encode(s) \in Blobs
  PROVE  Storable(Restored(b))
<1>1. b \in Blobs
  BY EditedBlobs DEF Sessions
<1>2. BlobDecodes(b) /\ Restored(b) = Decoded(b)
  BY DEF Restored
<1> QED BY <1>1, <1>2, RestoredStorable

\* Whatever is saved has the fields of a session.
LEMMA EncodedBlobs ==
  ASSUME NEW s \in Snapshots
  PROVE  encode(s) \in Blobs
<1> DEFINE sp == s.spectrum
           spectrum == IF sp = NoSpectrum THEN NoSpectrum
                       ELSE WithCurves(sp, 4 * sp.pmm, 4 * sp.prr, 8 * sp.pmr)
<1>1. /\ s.main \in Nat /\ s.reference \in Nat /\ s.rate \in Nat /\ s.max_shift \in Nat
      /\ s.corr \in Nat /\ s.peak \in Int /\ s.splices \in SUBSET Nat
      /\ sp \in Spectra \cup {NoSpectrum} /\ s.outcome \in Outcomes /\ s.offset \in Int
  BY DEF Snapshots
<1>2. spectrum \in Spectra \cup {NoSpectrum}
  <2> SUFFICES ASSUME sp \in Spectra
               PROVE  WithCurves(sp, 4 * sp.pmm, 4 * sp.prr, 8 * sp.pmr) \in Spectra
    BY <1>1
  <2> HIDE DEF sp
  <2> QED BY DEF Spectra, WithCurves
<1>3. encode(s) = [v |-> BLOB_VERSION, rate |-> s.rate, max_shift |-> s.max_shift,
           main |-> 4 * s.main, reference |-> 4 * s.reference, corr |-> 4 * s.corr,
           peak |-> s.peak, splices |-> s.splices, outcome |-> s.outcome, offset |-> s.offset,
           spectrum |-> spectrum]
  BY DEF encode
<1> HIDE DEF sp, spectrum
<1>4. 4 * s.main \in Nat /\ 4 * s.reference \in Nat /\ 4 * s.corr \in Nat /\ BLOB_VERSION \in Nat
  BY <1>1 DEF BLOB_VERSION
<1> QED BY <1>1, <1>2, <1>3, <1>4 DEF Blobs

LEMMA NoViewType == NoView \in Views
  BY DEF NoView, Views

(***************************************************************************)
(* The task and the panel resolve the same choice to the same size, or it  *)
(* is an unlisted one that fits.                                           *)
(***************************************************************************)
LEMMA PublishedAgrees ==
  ASSUME NEW c \in Captures, NEW report \in Reports,
         NEW override \in Nat, Published(c, report, override).spectrum # NoSpectrum
  PROVE  LET s == Published(c, report, override)
         IN \/ s.spectrum.nfft = resolve_nfft(override, c.rate, Usable(s))
            \/ override \notin Listed /\ s.spectrum.nfft = override
<1> DEFINE s == Published(c, report, override)
           d == prealign_lag(report)
           usable == usable_len(c.n, d)
           nfft == IF nfft_fits(override, usable) THEN override ELSE pick_nfft(c.rate, usable)
<1>1. Usable(s) = usable
  <2>1. /\ s.outcome = report.outcome /\ s.offset = report.offset /\ s.corr = report.corr
        /\ s.peak = report.peak /\ s.max_shift = report.max_shift /\ s.main = c.n
    BY DEF Published
  <2>2. prealign_lag(s) = d
    <3> HIDE DEF s
    <3> QED BY <2>1 DEF prealign_lag
  <2> HIDE DEF s
  <2> QED BY <2>1, <2>2 DEF Usable, Lag
<1>2. s.spectrum = welch_for_capture(c.n, c.rate, report, c.splices, override)
  BY DEF Published
<1> HIDE DEF s
<1>3. s.spectrum.nfft = nfft
  BY <1>2 DEF welch_for_capture, Spectrum, s
<1>4. c.n \in Nat /\ MIN_NFFT \in Nat /\ MIN_NFFT >= 2
  BY SnapshotAssumption, WelchAssumption DEF InCaps
<1>5. nfft_fits(override, usable) => override # AutoSize
  <2> HIDE DEF usable
  <2> QED BY <1>4 DEF nfft_fits, AutoSize
<1> QED BY <1>1, <1>3, <1>5 DEF resolve_nfft, Listed, s

LEMMA StoreInit == Init => CellInv
  BY NoViewType DEF Init, CellInv, AutoSize

-----------------------------------------------------------------------------
(***************************************************************************)
(* A view the arithmetic may pass on: whole units, and no clamp called out *)
(* of order so far.                                                        *)
(***************************************************************************)
Fine(v) == v.lo \in Int /\ v.span \in Int /\ v.ordered

(***************************************************************************)
(* Zooming, panning and resolving a stored view keep clamps in order.      *)
(***************************************************************************)
LEMMA ZoomFine ==
  ASSUME NEW v, Fine(v), NEW frac \in Int, NEW factor \in (Nat \ {0}) \X (Nat \ {0}),
         NEW least \in Int, NEW lo \in Int, NEW hi \in Int, NEW e \in Rounding
  PROVE  Fine(zoom_about(v, frac, factor, least, lo, hi, e))
<1> DEFINE full == hi - lo
           span == Clamp((v.span * factor[2]) \div factor[1], Least(least, full), full)
           top == Most(hi - span + e, lo)
<1>1. v.lo \in Int /\ v.span \in Int /\ v.ordered /\ factor[1] \in Nat \ {0} /\ factor[2] \in Nat
      /\ full \in Int /\ e \in Int
  BY DEF Fine, Rounding
<1>2. (v.span * factor[2]) \div factor[1] \in Int
  BY <1>1
<1>3. span \in Int
  BY <1>1, <1>2 DEF Clamp, Most, Least
<1> HIDE DEF span
<1>4. top \in Int /\ lo <= top
  BY <1>1, <1>3 DEF Most, Least
<1> HIDE DEF top
<1>5. (frac * (v.span - span)) \div 2 \in Int
  BY <1>1, <1>3
<1>6. Clamp(v.lo + (frac * (v.span - span)) \div 2, lo, top) \in Int
  BY <1>1, <1>4, <1>5 DEF Clamp
<1>7. Fine(View(Clamp(v.lo + (frac * (v.span - span)) \div 2, lo, top), span,
                v.ordered /\ lo <= top))
  BY <1>1, <1>3, <1>4, <1>6 DEF Fine, View
<1> QED BY <1>7 DEF zoom_about, span, top

LEMMA PanFine ==
  ASSUME NEW v, Fine(v), NEW delta \in Int, NEW lo \in Int, NEW hi \in Int, NEW e \in Rounding
  PROVE  Fine(pan(v, delta, lo, hi, e))
<1> DEFINE top == Most(hi - v.span + e, lo)
<1>1. v.lo \in Int /\ v.span \in Int /\ v.ordered /\ e \in Int
  BY DEF Fine, Rounding
<1>2. top \in Int /\ lo <= top
  BY <1>1 DEF Most, Least
<1> HIDE DEF top
<1>3. Clamp(v.lo + delta, lo, top) \in Int
  BY <1>1, <1>2 DEF Clamp
<1>4. Fine(View(Clamp(v.lo + delta, lo, top), v.span, v.ordered /\ lo <= top))
  BY <1>1, <1>2, <1>3 DEF Fine, View
<1> QED BY <1>4 DEF pan, top

LEMMA ApplyFine ==
  ASSUME NEW g \in Gestures, NEW v, Fine(v), NEW least \in Int, NEW lo \in Int, NEW hi \in Int,
         NEW e \in Rounding
  PROVE  Fine(Apply(g, v, least, lo, hi, e))
<1>1. Factors \subseteq (Nat \ {0}) \X (Nat \ {0}) /\ Steps \subseteq Int
  BY SnapshotAssumption
<1>2. CASE g = [kind |-> "none"]
  BY <1>2 DEF Apply
<1>3. CASE g = [kind |-> "fit"]
  <2>1. Apply(g, v, least, lo, hi, e) = View(lo, hi - lo, v.ordered)
    BY <1>3 DEF Apply
  <2> QED BY <2>1 DEF Fine, View
<1>4. ASSUME NEW a \in 0..2, NEW f \in Factors, g = [kind |-> "zoom", frac |-> a, factor |-> f]
      PROVE  Fine(Apply(g, v, least, lo, hi, e))
  <2>1. Apply(g, v, least, lo, hi, e) = zoom_about(v, a, f, least, lo, hi, e)
    BY <1>4 DEF Apply
  <2> QED BY <1>1, <2>1, ZoomFine
<1>5. ASSUME NEW d \in Steps, g = [kind |-> "pan", delta |-> d]
      PROVE  Fine(Apply(g, v, least, lo, hi, e))
  <2>1. Apply(g, v, least, lo, hi, e) = pan(v, d, lo, hi, e)
    BY <1>5 DEF Apply
  <2> QED BY <1>1, <2>1, PanFine
<1> QED BY <1>2, <1>3, <1>4, <1>5 DEF Gestures

LEMMA StoredType == ASSUME NEW v, Fine(v) PROVE Stored(v) \in Views
  BY DEF Fine, Stored, Views

\* The two stored views a frame resolves against the snapshot.
LEMMA CorrFine ==
  ASSUME NEW stored \in Views, NEW least \in Int, NEW full \in Nat
  PROVE  Fine(CorrView(stored, least, full))
<1> DEFINE low == Least(least, 2 * full)
           span == Clamp(stored.span, low, 2 * full)
           top == Most(full - span, -full)
<1>1. stored.lo \in Int /\ stored.span \in Int
  BY DEF Views
<1>2. low \in Int /\ low <= 2 * full
  BY DEF Most, Least
<1> HIDE DEF low
<1>3. span \in Int
  BY <1>1, <1>2 DEF Clamp
<1> HIDE DEF span
<1>4. top \in Int /\ -full <= top
  BY <1>3 DEF Most, Least
<1> HIDE DEF top
<1>5. Clamp(stored.lo, -full, top) \in Int
  BY <1>1, <1>4 DEF Clamp
<1>6. Fine(View(Clamp(stored.lo, -full, top), span, low <= 2 * full /\ -full <= top))
  BY <1>2, <1>3, <1>4, <1>5 DEF Fine, View
<1>7. Fine(View(-full, 2 * full, TRUE))
  BY DEF Fine, View
<1> QED BY <1>6, <1>7 DEF CorrView, low, span, top

LEMMA SpecFine ==
  ASSUME NEW stored \in Views, NEW base_lo \in Int, NEW base_hi \in Int
  PROVE  Fine(SpecView(stored, base_lo, base_hi))
<1> DEFINE top == Most(base_hi - 1, base_lo)
           lo == Clamp(stored.lo, base_lo, top)
           low == Least(lo + 1, base_hi)
           hi == Clamp(stored.lo + stored.span, low, base_hi)
<1>1. stored.lo \in Int /\ stored.span \in Int
  BY DEF Views
<1>2. top \in Int /\ base_lo <= top
  BY DEF Most, Least
<1> HIDE DEF top
<1>3. lo \in Int
  BY <1>1, <1>2 DEF Clamp
<1> HIDE DEF lo
<1>4. low \in Int /\ low <= base_hi
  BY <1>3 DEF Most, Least
<1> HIDE DEF low
<1>5. hi \in Int
  BY <1>1, <1>4 DEF Clamp
<1> HIDE DEF hi
<1>6. Fine(View(lo, hi - lo, base_lo <= top /\ low <= base_hi))
  <2>1. hi - lo \in Int /\ base_lo <= top /\ low <= base_hi
    BY <1>2, <1>3, <1>4, <1>5
  <2> DEFINE span == hi - lo
             ordered == base_lo <= top /\ low <= base_hi
  <2>2. span \in Int /\ ordered
    BY <2>1
  <2> HIDE DEF span, ordered
  <2>3. Fine(View(lo, span, ordered))
    BY <1>3, <2>2 DEF Fine, View
  <2> QED BY <2>3 DEF span, ordered
<1>7. Fine(View(base_lo, base_hi - base_lo, TRUE))
  BY DEF Fine, View
<1> QED BY <1>6, <1>7 DEF SpecView, top, lo, low, hi

LEMMA WaveStartFine ==
  ASSUME NEW v, Fine(v), NEW len \in Nat
  PROVE  Fine(WaveStart(v, len))
<1>1. v.lo \in Int /\ v.span \in Int /\ v.ordered
  BY DEF Fine
<1>2. Most(len - v.span, 0) \in Int
  BY <1>1 DEF Most, Least
<1>3. Clamp(v.lo, 0, Most(len - v.span, 0)) \in Int
  BY <1>1, <1>2 DEF Clamp
<1> QED BY <1>1, <1>3 DEF WaveStart, Fine, View

LEMMA SetSpanType ==
  ASSUME NEW stored \in Views, NEW len \in Nat, NEW span \in Nat
  PROVE  set_span(stored, len, span) \in Views
<1> DEFINE s == Least(span, len)
           center == IF stored = NoView THEN len \div 2 ELSE stored.lo + stored.span \div 2
<1>1. s \in Int
  BY DEF Most, Least
<1>2. center \in Int
  BY DEF Views
<1> HIDE DEF s, center
<1>3. Most(len - s, 0) \in Int /\ center - s \div 2 \in Int
  BY <1>1, <1>2 DEF Most, Least
<1>4. Clamp(center - s \div 2, 0, Most(len - s, 0)) \in Int
  BY <1>3 DEF Clamp
<1> QED BY <1>1, <1>4 DEF set_span, Views, s, center

-----------------------------------------------------------------------------
\* A frame stores a view of whole units and calls no clamp out of order.
LEMMA ShowFine ==
  ASSUME NEW v, Fine(v), NEW stored \in Views, Show(v, stored), clamped
  PROVE  view' \in Views /\ clamped' /\ UNCHANGED <<cell, choice, used>>
  BY DEF Show, Fine

LEMMA FrameFine ==
  ASSUME CellInv, clamped, NEW g \in Gestures, NEW e \in Rounding,
         WaveFrame(g, e) \/ CorrFrame(g, e) \/ SpecFrame(g, e)
  PROVE  view' \in Views /\ clamped' /\ UNCHANGED <<cell, choice, used>>
<1>1. view \in Views /\ view.lo \in Int /\ view.span \in Int /\ MinView \in Nat /\ LOG_F_LO \in Nat
  BY SnapshotAssumption DEF CellInv, Views
<1>2. cell # NoSnapshot => cell.main \in Nat /\ cell.max_shift \in Nat /\ cell.rate \in Nat
  BY DEF CellInv, Snapshots
<1>3. CASE WaveFrame(g, e)
  <2> DEFINE len == cell.main
             full == Most(len, 1)
             least == Least(MinView, full)
             fit == IF view = NoView THEN View(0, full, TRUE)
                    ELSE View(view.lo, Clamp(view.span, least, full), TRUE)
             v == WaveStart(Apply(g, fit, least, 0, full, e), len)
             stored == IF (view # NoView /\ g.kind # "fit") \/ v.span < len
                       THEN Stored(v) ELSE NoView
  <2>1. len \in Nat
    BY <1>2, <1>3 DEF WaveFrame
  <2>2. Show(v, stored)
    BY <1>3 DEF WaveFrame
  <2> HIDE DEF len
  <2>3. full \in Int
    BY <2>1 DEF Most
  <2> HIDE DEF full
  <2>4. least \in Int
    BY <1>1, <2>3 DEF Least
  <2> HIDE DEF least
  <2>5. Fine(fit)
    BY <1>1, <2>3, <2>4 DEF Fine, View, Clamp
  <2> HIDE DEF fit
  <2>6. Fine(Apply(g, fit, least, 0, full, e))
    BY <2>3, <2>4, <2>5, ApplyFine
  <2>7. Fine(v)
    BY <2>1, <2>6, WaveStartFine
  <2> HIDE DEF v
  <2>8. stored \in Views
    BY <2>7, StoredType, NoViewType
  <2> HIDE DEF stored
  <2> QED BY <2>2, <2>7, <2>8, ShowFine
<1>4. CASE CorrFrame(g, e)
  <2> DEFINE full == cell.max_shift
             least == Least(MinView, 2 * full)
             v == Apply(g, CorrView(view, least, full), least, -full, full, e)
             stored == IF g.kind = "fit" THEN NoView
                       ELSE IF g.kind = "none" THEN view ELSE Stored(v)
  <2>1. full \in Nat
    BY <1>2, <1>4 DEF CorrFrame
  <2>2. Show(v, stored)
    BY <1>4 DEF CorrFrame
  <2> HIDE DEF full
  <2>3. least \in Int
    BY <1>1, <2>1 DEF Least
  <2> HIDE DEF least
  <2>4. Fine(CorrView(view, least, full))
    BY <1>1, <2>1, <2>3, CorrFine
  <2>5. -full \in Int /\ full \in Int
    BY <2>1
  <2>6. Fine(v)
    BY <2>3, <2>4, <2>5, ApplyFine
  <2> HIDE DEF v
  <2>7. stored \in Views
    BY <1>1, <2>6, StoredType, NoViewType
  <2> HIDE DEF stored
  <2> QED BY <2>2, <2>6, <2>7, ShowFine
<1>5. CASE SpecFrame(g, e)
  <2> DEFINE log == panel = "log"
             base_hi == cell.rate \div 2
             base_lo == IF log THEN Least(LOG_F_LO, base_hi \div 2) ELSE 0
             v == Apply(g, SpecView(view, base_lo, base_hi), MinView, base_lo, base_hi, e)
             drift == IF log THEN e ELSE 0
             stored == IF g.kind = "fit" THEN NoView ELSE IF g.kind = "none" THEN view
                       ELSE [lo |-> v.lo, span |-> v.span + drift]
  <2>1. base_hi \in Int
    BY <1>2, <1>5 DEF SpecFrame
  <2>2. Show(v, stored)
    BY <1>5 DEF SpecFrame
  <2> HIDE DEF base_hi
  <2>3. base_lo \in Int
    BY <1>1, <2>1 DEF Least
  <2> HIDE DEF base_lo
  <2>4. Fine(SpecView(view, base_lo, base_hi))
    BY <1>1, <2>1, <2>3, SpecFine
  <2>5. Fine(v)
    <3>1. MinView \in Int
      BY <1>1
    <3> QED BY <2>1, <2>3, <2>4, <3>1, ApplyFine
  <2> HIDE DEF v
  <2>6. drift \in Int
    BY DEF Rounding
  <2> HIDE DEF drift
  <2>7. stored \in Views
    BY <1>1, <2>5, <2>6, NoViewType DEF Views, Fine
  <2> HIDE DEF stored
  <2> QED BY <2>2, <2>5, <2>7, ShowFine
<1> QED BY <1>3, <1>4, <1>5

(***************************************************************************)
(* No step puts anything else into the cell or calls a clamp out of order. *)
(***************************************************************************)
LEMMA CellStep == CellInv /\ clamped /\ [Next]_vars => CellInv' /\ clamped'
<1> SUFFICES ASSUME CellInv, clamped, [Next]_vars
             PROVE  CellInv' /\ clamped'
  OBVIOUS
<1>1. /\ StoredChoices \subseteq Nat /\ EditValues \subseteq Nat /\ MinView \in Nat
      /\ cell # NoSnapshot => cell \in Snapshots /\ cell.rate \in 1 .. MAX_SAMPLE_RATE
      /\ choice \in Nat /\ view \in Views
  BY SnapshotAssumption DEF CellInv
<1>2. CASE Analyze
  <2>1. PICK c \in Captures, report \in Reports :
          /\ report \in analyze_spliced(c)
          /\ Store(Published(c, report, choice))
    BY <1>2, SplicedReported DEF Analyze
  <2>2. UNCHANGED <<choice, clamped>>
    BY <1>2 DEF Analyze, Store
  <2>3. cell' = Published(c, report, choice) /\ view' = NoView
    BY <2>1 DEF Store
  <2> QED BY <1>1, <2>1, <2>2, <2>3, PublishedStorable, NoViewType DEF CellInv
<1>3. CASE Load
  <2>1. choice' \in Nat /\ view' = NoView /\ clamped'
    BY <1>1, <1>3 DEF Load, Store
  <2>2. cell' = NoSnapshot \/ (cell # NoSnapshot /\ \E b \in Sessions(cell) : cell' = Restored(b))
    BY <1>3 DEF Load, Store
  <2>3. cell' # NoSnapshot => Storable(cell')
    BY <1>1, <2>2, LoadedStorable, EncodedBlobs
  <2> QED BY <2>1, <2>3, StorableShape, NoViewType DEF CellInv
<1>4. CASE nfft_selector
  <2>1. choice' \in Nat /\ UNCHANGED <<cell, view, clamped>>
    BY <1>1, <1>4, OptionsNat DEF nfft_selector
  <2> QED BY <1>1, <2>1 DEF CellInv
<1>5. CASE ToggleAxis
  BY <1>1, <1>5, NoViewType DEF ToggleAxis, CellInv
<1>6. CASE Frame
  BY <1>1, <1>6, FrameFine DEF Frame, CellInv
<1>7. ASSUME NEW x \in EditValues, WavePreset(x)
      PROVE  CellInv' /\ clamped'
  <2>1. cell.main \in Nat /\ UNCHANGED <<cell, choice, clamped>> /\ view' = set_span(view, cell.main, x)
    BY <1>1, <1>7 DEF WavePreset, Snapshots
  <2>2. view' \in Views
    BY <1>1, <2>1, SetSpanType
  <2> QED BY <1>1, <2>1, <2>2 DEF CellInv
<1>8. ASSUME NEW x \in EditValues, CorrPeak(x)
      PROVE  CellInv' /\ clamped'
  <2>1. cell.max_shift \in Nat /\ UNCHANGED <<cell, choice, clamped>>
    BY <1>1, <1>8 DEF CorrPeak, Snapshots
  <2>2. view' \in Views
    BY <1>1, <1>8, <2>1 DEF CorrPeak, Views, Clamp, Least, Most
  <2> QED BY <1>1, <2>1, <2>2 DEF CellInv
<1>9. CASE UNCHANGED vars
  BY <1>9 DEF vars, CellInv
<1> QED BY <1>2, <1>3, <1>4, <1>5, <1>6, <1>7, <1>8, <1>9 DEF Next

(***************************************************************************)
(* No clamp of the view arithmetic meets bounds out of order, for every    *)
(* snapshot, stored view, gesture and rounding: f64::clamp never panics.   *)
(***************************************************************************)
THEOREM ClampsSafe == Spec => []ClampsOrdered
<1>1. Init => CellInv /\ clamped
  BY StoreInit DEF Init
<1>2. CellInv /\ clamped => ClampsOrdered
  BY DEF ClampsOrdered
<1> QED BY <1>1, <1>2, CellStep, PTL DEF Spec

\* The sizes estimated for a snapshot, by the task and by the panel.
LEMMA DrawnSizesNat == ASSUME CellInv, cell # NoSnapshot, NEW nfft \in DrawnSizes PROVE nfft \in Nat
<1>1. /\ cell.spectrum \in Spectra \cup {NoSpectrum} /\ cell.main \in Nat
      /\ cell.rate \in 0 .. MAX_SAMPLE_RATE
  BY DEF CellInv, Snapshots
<1>2. cell.spectrum.nfft \in Nat
  BY <1>1 DEF Spectra, NoSpectrum, NoSize
<1>3. Lag(cell) \in Int
  BY LagType DEF CellInv, Snapshots, Lag
<1>4. Usable(cell) \in Nat
  BY <1>1, <1>3 DEF Usable, usable_len, Most, Magnitude
<1>5. resolve_nfft(choice, cell.rate, Usable(cell)) \in Nat
  <2>1. pick_nfft(cell.rate, Usable(cell)) \in Nat
    BY <1>1, <1>4, Picked, Powers DEF NoSize
  <2> QED BY <2>1, OptionsNat DEF resolve_nfft
<1> QED BY <1>2, <1>5 DEF DrawnSizes

(***************************************************************************)
(* Every segment estimated for a published or restored snapshot, at any    *)
(* size drawn, reads inside the capture and inside one chunk of it, however*)
(* the session was edited in between.                                      *)
(***************************************************************************)
THEOREM SegmentsAlwaysSound == Spec => []SegmentsAreSound
<1>1. Init => CellInv /\ clamped
  BY StoreInit DEF Init
<1>2. CellInv => SegmentsAreSound
  <2> SUFFICES ASSUME CellInv, cell # NoSnapshot, NEW nfft \in DrawnSizes
               PROVE  Sound(cell.main, Lag(cell), nfft, cell.splices)
    BY DEF SegmentsAreSound
  <2>1. nfft \in Nat
    BY DrawnSizesNat
  <2>2. cell.main \in Nat /\ cell.splices \in SUBSET Int
    BY DEF CellInv, Snapshots
  <2>3. Lag(cell) \in Int
    BY LagType DEF CellInv, Snapshots, Lag
  <2> QED BY <2>1, <2>2, <2>3, SegmentsSound
<1> QED BY <1>1, <1>2, CellStep, PTL DEF Spec

(***************************************************************************)
(* A save keeps the size of the spectrum, and decode() checks it.          *)
(***************************************************************************)
LEMMA Undecodable ==
  ASSUME NEW s \in Snapshots, ~Decodable(s.spectrum)
  PROVE  ~BlobDecodes(encode(s))
<1> DEFINE sp == s.spectrum
           out == WithCurves(sp, 4 * sp.pmm, 4 * sp.prr, 8 * sp.pmr)
<1>1. sp # NoSpectrum /\ encode(s).spectrum = out
  BY DEF Decodable, encode
<1>2. out.nfft = sp.nfft /\ out # NoSpectrum
  BY DEF WithCurves, NoSpectrum
<1>3. ~SpectrumDecodes(out)
  <2> HIDE DEF out
  <2> QED BY <1>2 DEF SpectrumDecodes, Decodable
<1> HIDE DEF out, sp
<1> QED BY <1>1, <1>2, <1>3 DEF BlobDecodes

\* The step cases; whatever leaves cell, choice and used alone is trivial.
LEMMA RestoredStep ==
  ASSUME CellInv, RestoredInv, [Next]_vars
  PROVE  RestoredInv'
<1>1. /\ cell # NoSnapshot => cell \in Snapshots /\ cell.rate \in 1 .. MAX_SAMPLE_RATE
      /\ choice \in Nat
  BY DEF CellInv, RestoredInv
<1>2. CASE Analyze
  <2>1. PICK c \in Captures, report \in Reports :
          /\ report \in analyze_spliced(c)
          /\ Store(Published(c, report, choice))
    BY <1>2, SplicedReported DEF Analyze
  <2>2. choice' = choice /\ used' = choice
    BY <1>2 DEF Analyze
  <2>3. cell' = Published(c, report, choice)
    BY <2>1 DEF Store
  <2>4. cell'.rate = c.rate
    BY <2>3 DEF Published
  <2>5. /\ Decodable(cell'.spectrum) => Storable(cell')
        /\ choice \in Listed => Decodable(cell'.spectrum)
    BY <1>1, <2>1, <2>3, PublishedStorable
  <2>6. cell'.spectrum # NoSpectrum
          => \/ cell'.spectrum.nfft = resolve_nfft(choice, cell'.rate, Usable(cell'))
             \/ choice \notin Listed /\ cell'.spectrum.nfft = choice
    BY <1>1, <2>3, <2>4, PublishedAgrees
  <2> QED BY <1>1, <2>2, <2>5, <2>6 DEF RestoredInv
<1>3. CASE Load
  <2>1. used' = NotUsed
    BY <1>3 DEF Load
  <2>2. cell' = NoSnapshot \/ (cell # NoSnapshot /\ \E b \in Sessions(cell) : cell' = Restored(b))
    BY <1>3 DEF Load, Store
  <2>3. cell' # NoSnapshot => Storable(cell')
    BY <1>1, <2>2, LoadedStorable, EncodedBlobs
  <2>4. NotUsed \notin Listed
    BY OptionsNat DEF NotUsed, Listed
  <2> QED BY <2>1, <2>3, <2>4 DEF RestoredInv
<1>4. CASE nfft_selector
  <2>1. UNCHANGED cell /\ (used' = used \/ used' = NotUsed)
    BY <1>4 DEF nfft_selector
  <2>2. NotUsed \notin Listed
    BY OptionsNat DEF NotUsed, Listed
  <2> QED BY <2>1, <2>2 DEF RestoredInv
<1>5. CASE UNCHANGED <<cell, choice, used>>
  BY <1>5 DEF RestoredInv
<1>6. CASE ToggleAxis \/ Frame \/ \E x \in EditValues : WavePreset(x) \/ CorrPeak(x)
  BY <1>5, <1>6 DEF ToggleAxis, Frame, WaveFrame, CorrFrame, SpecFrame, Show, WavePreset, CorrPeak
<1> QED BY <1>2, <1>3, <1>4, <1>5, <1>6 DEF Next, vars

LEMMA RestoredInvariant == Spec => [](CellInv /\ RestoredInv)
<1>1. Init => CellInv /\ clamped /\ RestoredInv
  BY StoreInit DEF Init, RestoredInv
<1>2. CellInv /\ clamped /\ RestoredInv /\ [Next]_vars => (CellInv /\ clamped /\ RestoredInv)'
  BY CellStep, RestoredStep
<1> QED BY <1>1, <1>2, PTL DEF Spec

(***************************************************************************)
(* What is saved is restored: any capture within the caps, analyzed at any *)
(* choice, and any session restored before, edited or not; unless its      *)
(* spectrum has a size decode() refuses, which restores nothing.           *)
(***************************************************************************)
THEOREM SessionsKept == Spec => []SavedIsRestored
<1>1. CellInv /\ RestoredInv => SavedIsRestored
  <2> SUFFICES ASSUME CellInv, RestoredInv, cell # NoSnapshot
               PROVE  Restored(encode(cell)) = IF Decodable(cell.spectrum) THEN cell ELSE NoSnapshot
    BY DEF SavedIsRestored, RestoredInv
  <2>1. CASE Decodable(cell.spectrum)
    BY <2>1, EncodedBack DEF RestoredInv, Restored
  <2>2. CASE ~Decodable(cell.spectrum)
    BY <2>2, Undecodable DEF CellInv, Restored
  <2> QED BY <2>1, <2>2
<1> QED BY <1>1, RestoredInvariant, PTL

(***************************************************************************)
(* While the selection is the one the task read, the panel resolves it to  *)
(* the size of the spectrum the task published; whatever is stored, the    *)
(* one exception is an unlisted size the task found to fit.                *)
(***************************************************************************)
THEOREM PanelsAgree == Spec => []PanelAgreesWithTask
<1>1. CellInv /\ RestoredInv => PanelAgreesWithTask
  BY DEF CellInv, RestoredInv, PanelAgreesWithTask, NotUsed
<1> QED BY <1>1, RestoredInvariant, PTL
=============================================================================
