-------------------------------- MODULE Welch --------------------------------
(***************************************************************************)
(* The index arithmetic of spectrum.rs: which segment size a capture gets, *)
(* which lag main is pre-shifted by, and which segments are averaged.      *)
(* Sample values, windows and transforms are left out; a spectrum is known *)
(* by its size, its lag and the starts of the segments averaged into it.   *)
(* Frequencies are in units of one hertz, sizes in samples.                *)
(***************************************************************************)
EXTENDS Integers, FiniteSets

CONSTANTS
  MIN_NFFT,    \* no transform shorter than this (256)
  Octaves      \* powers of two considered: 2^0 .. 2^Octaves

ASSUME WelchAssumption == MIN_NFFT \in Nat /\ MIN_NFFT >= 2 /\ Octaves \in Nat

Least(a, b) == IF a <= b THEN a ELSE b
Most(a, b) == IF a >= b THEN a ELSE b
Magnitude(i) == IF i < 0 THEN -i ELSE i

PowersOfTwo == {p \in 1..2^Octaves : \E k \in 0..Octaves : p = 2^k}
NextPowerOfTwo(x) ==
  CHOOSE p \in PowersOfTwo : p >= x /\ \A q \in PowersOfTwo : q >= x => p <= q

NoSize == 0

(***************************************************************************)
(* The automatic size: about 6 Hz a bin, halved until a segment fits.  The *)
(* floor is tested only after a halving.                                   *)
(***************************************************************************)
pick_nfft(rate, usable) ==
  LET target == NextPowerOfTwo(Most(rate \div 6, 1))
      halved == {p \in PowersOfTwo : MIN_NFFT <= p /\ p < target /\ p <= usable}
  IN IF target <= usable THEN target
     ELSE IF halved = {} THEN NoSize
     ELSE CHOOSE p \in halved : \A q \in halved : q <= p

nfft_fits(nfft, usable) == nfft \in MIN_NFFT .. usable

(***************************************************************************)
(* A report is [outcome, offset, corr, peak, max_shift]: the rounded       *)
(* refined offset, the length of the curve, the index of its largest value *)
(* and the half-window searched; index i of the curve is lag i - max_shift. *)
(***************************************************************************)
prealign_lag(report) ==
  IF report.outcome = "Ok" THEN report.offset
  ELSE IF report.corr > 0 THEN report.peak - report.max_shift ELSE 0

usable_len(n, d) == Most(n - Magnitude(d), 0)

(***************************************************************************)
(* Segment s pairs reference[s .. s + nfft) with main[s - d .. s - d +     *)
(* nfft), half a segment apart.                                            *)
(***************************************************************************)
Hop(nfft) == Most(nfft \div 2, 1)

SegmentStarts(n, d, nfft) ==
  {s \in Most(d, 0) .. n - nfft + Least(d, 0) : (s - Most(d, 0)) % Hop(nfft) = 0}

(***************************************************************************)
(* Mutant: only the reference window is looked at.                         *)
(***************************************************************************)
MutCrossesSeam(s, d, nfft, splices) == \E t \in splices : s < t /\ t < s + nfft

CrossesSeam(s, d, nfft, splices) ==
  \E t \in splices : Least(s - d, s) < t /\ t < Most(s - d, s) + nfft

estimate(n, d, nfft, splices) ==
  IF nfft < 2 THEN {}
  ELSE {s \in SegmentStarts(n, d, nfft) : ~CrossesSeam(s, d, nfft, splices)}

estimate_with_seam_fallback(n, d, nfft, splices) ==
  IF estimate(n, d, nfft, splices) # {} THEN estimate(n, d, nfft, splices)
  ELSE estimate(n, d, nfft, {})

NoSpectrum == [nfft |-> NoSize]

Bins(nfft) == nfft \div 2 + 1

Spectrum(d, nfft, segments) ==
  IF segments = {} THEN NoSpectrum
  ELSE [nfft |-> nfft, prealign |-> d, segments |-> Cardinality(segments),
        pmm |-> Bins(nfft), prr |-> Bins(nfft), pmr |-> Bins(nfft)]

(***************************************************************************)
(* Both snapshot sites: no curve, no spectrum; a fitting override is       *)
(* honoured, anything else gets the automatic size.                        *)
(***************************************************************************)
welch_for_capture(n, rate, report, splices, override) ==
  LET d == prealign_lag(report)
      usable == usable_len(n, d)
      nfft == IF nfft_fits(override, usable) THEN override ELSE pick_nfft(rate, usable)
  IN IF report.corr = 0 \/ nfft = NoSize THEN NoSpectrum
     ELSE Spectrum(d, nfft, estimate_with_seam_fallback(n, d, nfft, splices))

-----------------------------------------------------------------------------
(***************************************************************************)
(* What a segment has to be: two windows inside the capture, and no seam   *)
(* before one window's end and after the other's start, so that both read  *)
(* the same contiguous chunk.                                              *)
(***************************************************************************)
InCapture(s, d, nfft, n) == s >= 0 /\ s + nfft <= n /\ s - d >= 0 /\ s - d + nfft <= n

OneChunk(s, d, nfft, splices) ==
  \A t \in splices :
     \/ t <= s /\ t <= s - d
     \/ t >= s + nfft /\ t >= s - d + nfft

(***************************************************************************)
(* Every averaged segment reads inside the capture and inside one chunk of *)
(* it; with the seam fallback, still inside the capture.                   *)
(***************************************************************************)
Sound(n, d, nfft, splices) ==
  /\ \A s \in estimate(n, d, nfft, splices) :
       InCapture(s, d, nfft, n) /\ OneChunk(s, d, nfft, splices)
  /\ \A s \in estimate_with_seam_fallback(n, d, nfft, splices) : InCapture(s, d, nfft, n)
=============================================================================
