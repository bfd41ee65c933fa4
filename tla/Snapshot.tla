------------------------------ MODULE Snapshot ------------------------------
(***************************************************************************)
(* The life of an analysis snapshot: the task publishes it in the          *)
(* SnapshotCell, the host saves it with the session and restores it (or    *)
(* whatever the session has become in between), and the panels draw it     *)
(* with a view the user pans and zooms.                                    *)
(*                                                                         *)
(* Buffers are known by their lengths, spectra by their sizes, lags and    *)
(* averaged segments; encoding is modelled by the lengths it produces and  *)
(* decoding checks.  The three panels share nothing but the snapshot, so a *)
(* behaviour follows the view of one of them.                              *)
(***************************************************************************)
EXTENDS Analysis, ViewMath

CONSTANTS
  Captures,               \* captures the task may analyze, as in Analysis
  SPECTRUM_NFFT_OPTIONS,  \* the sizes the selector offers besides automatic
  StoredChoices,          \* spectrum-nfft values a session may hold, listed there or not
  MAX_SAMPLE_RATE, MAX_WAVE_SAMPLES, MAX_SHIFT_SAMPLES_CAP, MAX_NFFT, MAX_SPLICES,
  EditValues,             \* what an edited field of a saved session may hold
  LOG_F_LO, MinView,      \* lower end of the log axis; the smallest view
  Factors, Steps          \* zoom factors and pan distances of a gesture

AutoSize == 0
NonFinite == 1000000

(***************************************************************************)
(* The caps decode() applies are those of the fastest supported rate.  A   *)
(* capture fits its buffers and the window and splices it was given, and   *)
(* a host's rate asks for segments no shorter than the smallest.           *)
(***************************************************************************)
InCaps(c) ==
  /\ c.n \in 0 .. MAX_WAVE_SAMPLES /\ c.w \in 0 .. MAX_SHIFT_SAMPLES_CAP
  /\ c.rate \in 1 .. MAX_SAMPLE_RATE /\ c.rate \div 6 >= MIN_NFFT
  /\ c.splices \subseteq 0 .. c.n /\ Cardinality(c.splices) <= MAX_SPLICES
  /\ c.level \in Levels
  /\ \E p \in PowersOfTwo : c.n + c.w < p

ASSUME SnapshotAssumption ==
  /\ {MAX_SAMPLE_RATE, MAX_WAVE_SAMPLES, MAX_SHIFT_SAMPLES_CAP, MAX_SPLICES} \subseteq Nat
  /\ MAX_SAMPLE_RATE < NonFinite /\ MAX_SHIFT_SAMPLES_CAP + 1 < NonFinite
  /\ MAX_NFFT \in PowersOfTwo /\ MAX_SAMPLE_RATE \div 6 <= MAX_NFFT
  /\ SPECTRUM_NFFT_OPTIONS \subseteq PowersOfTwo \cap MIN_NFFT .. MAX_NFFT
  /\ \A c \in Captures : InCaps(c)
  /\ StoredChoices \subseteq Nat /\ EditValues \subseteq Nat /\ LOG_F_LO \in Nat /\ MinView \in Nat
  /\ Factors \subseteq (Nat \ {0}) \X (Nat \ {0}) /\ Steps \subseteq Int

VARIABLES
  cell,      \* the SnapshotCell
  choice,    \* spectrum_nfft: the selected segment size, AutoSize or a stored one
  used,      \* the choice the task read for the snapshot in the cell, or NotUsed
  panel,     \* the panel this behaviour follows
  view,      \* its stored view
  clamped    \* FALSE once a clamp was called with its bounds out of order

vars == <<cell, choice, used, panel, view, clamped>>

NoSnapshot == [main |-> -1]
NotUsed == -1

-----------------------------------------------------------------------------
(***************************************************************************)
(* Publishing.  MutPublished is a mutant that keeps the requested half-    *)
(* window instead of the one searched.                                     *)
(***************************************************************************)
MutPublished(c, report, override) ==
  [main |-> c.n, reference |-> c.n, rate |-> c.rate, max_shift |-> c.w,
   corr |-> report.corr, peak |-> report.peak, splices |-> c.splices,
   spectrum |-> welch_for_capture(c.n, c.rate, report, c.splices, override),
   outcome |-> report.outcome, offset |-> report.offset]

Published(c, report, override) ==
  [main |-> c.n, reference |-> c.n, rate |-> c.rate, max_shift |-> report.max_shift,
   corr |-> report.corr, peak |-> report.peak, splices |-> c.splices,
   spectrum |-> welch_for_capture(c.n, c.rate, report, c.splices, override),
   outcome |-> report.outcome, offset |-> report.offset]

(***************************************************************************)
(* A new snapshot resets every view.                                       *)
(***************************************************************************)
Store(snapshot) ==
  /\ cell' = snapshot
  /\ view' = NoView
  /\ UNCHANGED <<panel, clamped>>

Analyze ==
  /\ \E c \in Captures : \E report \in analyze_spliced(c) :
       Store(Published(c, report, choice))
  /\ used' = choice
  /\ UNCHANGED choice

-----------------------------------------------------------------------------
(***************************************************************************)
(* Persistence.  A buffer is saved as the base64 of its bytes, four an f32 *)
(* and eight a complex, and is known by the number of those bytes.         *)
(***************************************************************************)
BLOB_VERSION == 1
Base64Length(bytes) == 4 * ((bytes + 2) \div 3)

WithCurves(sp, pmm, prr, pmr) ==
  [nfft |-> sp.nfft, prealign |-> sp.prealign, segments |-> sp.segments,
   pmm |-> pmm, prr |-> prr, pmr |-> pmr]

encode(s) ==
  [v |-> BLOB_VERSION, rate |-> s.rate, max_shift |-> s.max_shift,
   main |-> 4 * s.main, reference |-> 4 * s.reference, corr |-> 4 * s.corr,
   peak |-> s.peak, splices |-> s.splices, outcome |-> s.outcome, offset |-> s.offset,
   spectrum |-> IF s.spectrum = NoSpectrum THEN NoSpectrum
                ELSE WithCurves(s.spectrum, 4 * s.spectrum.pmm, 4 * s.spectrum.prr,
                                8 * s.spectrum.pmr)]

(***************************************************************************)
(* The encoded length is capped before anything is decoded.                *)
(***************************************************************************)
Decodes(bytes, width, max) ==
  /\ Base64Length(bytes) <= Base64Length(max * width) + 4
  /\ bytes % width = 0
  /\ bytes \div width <= max

SpectrumDecodes(sp) ==
  /\ sp.nfft \in MIN_NFFT .. MAX_NFFT /\ sp.nfft \in PowersOfTwo
  /\ Magnitude(sp.prealign) <= MAX_WAVE_SAMPLES
  /\ LET bins == Bins(sp.nfft) IN
       /\ Decodes(sp.pmm, 4, bins) /\ Decodes(sp.prr, 4, bins) /\ Decodes(sp.pmr, 8, bins)
       /\ sp.pmm \div 4 = bins /\ sp.prr \div 4 = bins /\ sp.pmr \div 8 = bins

BlobDecodes(b) ==
  /\ b.v = BLOB_VERSION
  /\ b.rate # NonFinite /\ b.rate > 0 /\ b.rate <= MAX_SAMPLE_RATE
  /\ b.max_shift <= MAX_SHIFT_SAMPLES_CAP
  /\ Decodes(b.main, 4, MAX_WAVE_SAMPLES) /\ Decodes(b.reference, 4, MAX_WAVE_SAMPLES)
  /\ b.main = b.reference
  /\ Decodes(b.corr, 4, 2 * MAX_SHIFT_SAMPLES_CAP + 1)
  /\ b.corr = 0 \/ b.corr \div 4 = 2 * b.max_shift + 1
  /\ Cardinality(b.splices) <= MAX_SPLICES
  /\ \A t \in b.splices : t <= b.main \div 4
  /\ b.spectrum = NoSpectrum \/ SpectrumDecodes(b.spectrum)
  /\ b.outcome = "Ok" => b.offset # NonFinite

Decoded(b) ==
  [main |-> b.main \div 4, reference |-> b.reference \div 4, rate |-> b.rate,
   max_shift |-> b.max_shift, corr |-> b.corr \div 4, peak |-> b.peak,
   splices |-> b.splices, outcome |-> b.outcome, offset |-> b.offset,
   spectrum |-> IF b.spectrum = NoSpectrum THEN NoSpectrum
                ELSE WithCurves(b.spectrum, b.spectrum.pmm \div 4, b.spectrum.prr \div 4,
                                b.spectrum.pmr \div 8)]

(***************************************************************************)
(* Whatever cannot be trusted restores no snapshot.                        *)
(***************************************************************************)
Restored(b) == IF BlobDecodes(b) THEN Decoded(b) ELSE NoSnapshot

(***************************************************************************)
(* A session as it comes back: as saved, or with one field edited by       *)
(* another version, a damaged project or a validator.                      *)
(***************************************************************************)
Edited(b) ==
  {[b EXCEPT ![field] = x] : field \in {"v", "rate", "max_shift", "main", "reference", "corr"},
                             x \in EditValues}
    \cup {[b EXCEPT !.offset = x] : x \in {NonFinite, -MAX_WAVE_SAMPLES}}
    \cup {[b EXCEPT !.splices = {x}] : x \in EditValues}
    \cup (IF b.spectrum = NoSpectrum THEN {}
          ELSE {[b EXCEPT !.spectrum[field] = x] :
                  field \in {"nfft", "prealign", "pmm", "pmr"}, x \in EditValues})

(***************************************************************************)
(* Bound: a session is edited before it is first restored.                 *)
(***************************************************************************)
Sessions(s) == {encode(s)} \cup (IF used # NotUsed THEN Edited(encode(s)) ELSE {})

(***************************************************************************)
(* A state load restores each field on its own, the selected size as it is *)
(* stored; a session saved before any capture restores none.               *)
(***************************************************************************)
Load ==
  /\ \/ Store(NoSnapshot)
     \/ /\ cell # NoSnapshot
        /\ \E b \in Sessions(cell) : Store(Restored(b))
  /\ used' = NotUsed
  /\ choice' \in StoredChoices

-----------------------------------------------------------------------------
(***************************************************************************)
(* The Spectrum panel's segment size.  The lag and the fit bound are those *)
(* the task used, computed from the snapshot's own analysis.  MutResolve   *)
(* is a mutant that honours a size that does not fit.                      *)
(***************************************************************************)
Lag(s) == prealign_lag(s)
Usable(s) == usable_len(s.main, Lag(s))

OnSpectrum == panel \in {"log", "linear"}

Listed == SPECTRUM_NFFT_OPTIONS \cup {AutoSize}

MutResolve(stored, rate, usable) ==
  IF stored \in SPECTRUM_NFFT_OPTIONS THEN stored ELSE pick_nfft(rate, usable)

resolve_nfft(stored, rate, usable) ==
  IF stored \in SPECTRUM_NFFT_OPTIONS /\ nfft_fits(stored, usable) THEN stored
  ELSE pick_nfft(rate, usable)

(***************************************************************************)
(* The selector, drawn in every frame of the panel: an unlisted value is   *)
(* written back as the automatic one, the user may pick that or a size     *)
(* that fits, and without a correlation curve it is disabled.              *)
(***************************************************************************)
nfft_selector ==
  LET effective == IF choice \in SPECTRUM_NFFT_OPTIONS THEN choice ELSE AutoSize
      offered == {n \in SPECTRUM_NFFT_OPTIONS : nfft_fits(n, Usable(cell))} \cup {AutoSize}
  IN /\ OnSpectrum
     /\ choice' \in {effective} \cup
          (IF cell # NoSnapshot /\ cell.corr > 0 THEN offered ELSE {})
     /\ used' = IF choice' = choice THEN used ELSE NotUsed
     /\ UNCHANGED <<cell, panel, view, clamped>>

(***************************************************************************)
(* The sizes estimated for the snapshot: the task's own and, where it      *)
(* differs, the one the panel resolves the selection to.                   *)
(***************************************************************************)
DrawnSizes == {cell.spectrum.nfft, resolve_nfft(choice, cell.rate, Usable(cell))} \ {NoSize}

-----------------------------------------------------------------------------
(***************************************************************************)
(* The views.  In units of samples, lags and hertz; gestures act on the    *)
(* resolved view, which is stored unless the panel is left at its fit.     *)
(***************************************************************************)
Gestures ==
  {[kind |-> "none"], [kind |-> "fit"]}
    \cup {[kind |-> "zoom", frac |-> a, factor |-> f] : a \in 0..2, f \in Factors}
    \cup {[kind |-> "pan", delta |-> d] : d \in Steps}

Show(v, stored) ==
  /\ view' = stored
  /\ clamped' = (clamped /\ v.ordered)
  /\ UNCHANGED <<cell, choice, used, panel>>

WaveFrame(g, e) ==
  LET len == cell.main
      full == Most(len, 1)
      least == Least(MinView, full)
      fit == IF view = NoView THEN View(0, full, TRUE)
             ELSE View(view.lo, Clamp(view.span, least, full), TRUE)
      v == WaveStart(Apply(g, fit, least, 0, full, e), len)
      kept == view # NoView /\ g.kind # "fit"
  IN /\ panel = "wave" /\ cell # NoSnapshot
     /\ Show(v, IF kept \/ v.span < len THEN Stored(v) ELSE NoView)

WavePreset(span) ==
  /\ panel = "wave" /\ cell # NoSnapshot /\ cell.main > 0
  /\ view' = set_span(view, cell.main, span)
  /\ UNCHANGED <<cell, choice, used, panel, clamped>>

CorrFrame(g, e) ==
  LET full == cell.max_shift
      least == Least(MinView, 2 * full)
      v == Apply(g, CorrView(view, least, full), least, -full, full, e)
  IN /\ panel = "correlation" /\ cell # NoSnapshot /\ cell.corr > 0
     /\ Show(v, IF g.kind = "fit" THEN NoView ELSE IF g.kind = "none" THEN view ELSE Stored(v))

(***************************************************************************)
(* The Peak button: a window around the detected offset, which may be that *)
(* of an earlier capture and lie outside this one's range.                 *)
(***************************************************************************)
CorrPeak(detected) ==
  LET full == cell.max_shift
      c == Clamp(detected, -full, full)
      half == Least(MinView, full)
  IN /\ panel = "correlation" /\ cell # NoSnapshot /\ cell.corr > 0
     /\ view' = [lo |-> Most(c - half, -full),
                 span |-> Least(c + half, full) - Most(c - half, -full)]
     /\ UNCHANGED <<cell, choice, used, panel, clamped>>

(***************************************************************************)
(* On the log axis the ends go through ln and exp, which may move the      *)
(* stored end past the axis.  The two axes share no view.                  *)
(***************************************************************************)
SpecFrame(g, e) ==
  LET log == panel = "log"
      base_hi == cell.rate \div 2
      base_lo == IF log THEN Least(LOG_F_LO, base_hi \div 2) ELSE 0
      v == Apply(g, SpecView(view, base_lo, base_hi), MinView, base_lo, base_hi, e)
      drift == IF log THEN e ELSE 0
  IN /\ OnSpectrum /\ cell # NoSnapshot /\ cell.spectrum # NoSpectrum
     /\ Show(v, IF g.kind = "fit" THEN NoView ELSE IF g.kind = "none" THEN view
                ELSE [lo |-> v.lo, span |-> v.span + drift])

ToggleAxis ==
  /\ OnSpectrum
  /\ panel' = IF panel = "log" THEN "linear" ELSE "log"
  /\ view' = NoView
  /\ UNCHANGED <<cell, choice, used, clamped>>

Frame ==
  \E g \in Gestures, e \in Rounding : WaveFrame(g, e) \/ CorrFrame(g, e) \/ SpecFrame(g, e)

-----------------------------------------------------------------------------
Init ==
  /\ cell = NoSnapshot
  /\ choice = AutoSize
  /\ used = NotUsed
  /\ panel \in {"wave", "correlation", "log"}
  /\ view = NoView
  /\ clamped = TRUE

Next ==
  \/ Analyze \/ Load
  \/ nfft_selector \/ ToggleAxis
  \/ Frame
  \/ \E x \in EditValues : WavePreset(x) \/ CorrPeak(x)

Spec == Init /\ [][Next]_vars

-----------------------------------------------------------------------------
(***************************************************************************)
(* What a host save writes of a published or restored snapshot, decode()   *)
(* accepts, and gives the same snapshot back: a reopened session shows the *)
(* graphs it was saved with.  The exception is a spectrum of a size the    *)
(* decoder refuses, no power of two or above MAX_NFFT, which the task      *)
(* never estimates for a listed choice but does when an unlisted stored    *)
(* size asks for it and fits: the save of such a snapshot restores none.   *)
(***************************************************************************)
Decodable(sp) == sp = NoSpectrum \/ sp.nfft \in PowersOfTwo \cap MIN_NFFT .. MAX_NFFT

SavedIsRestored ==
  cell # NoSnapshot =>
    /\ Restored(encode(cell)) = IF Decodable(cell.spectrum) THEN cell ELSE NoSnapshot
    /\ used \in Listed => Decodable(cell.spectrum)

(***************************************************************************)
(* Every segment estimate() averages for the snapshot, by the task or by   *)
(* the panel at another size, reads inside the capture and inside one      *)
(* contiguous chunk of it; the seam fallback still reads inside it.        *)
(***************************************************************************)
SegmentsAreSound ==
  cell # NoSnapshot =>
    \A nfft \in DrawnSizes : Sound(cell.main, Lag(cell), nfft, cell.splices)

(***************************************************************************)
(* While the selection is the one the task read, the panel resolves it to  *)
(* the size of the snapshot's own spectrum, unless it is a stored size the *)
(* selector does not list and the capture fits: the task honours that one  *)
(* (spectrum.rs:257-262), the panel shows the automatic size, although its *)
(* comment says that the two can never disagree about a stored value       *)
(* (spectrum_view.rs:115-121).                                             *)
(***************************************************************************)
PanelAgreesWithTask ==
  cell # NoSnapshot /\ used = choice /\ cell.spectrum # NoSpectrum
    => \/ resolve_nfft(choice, cell.rate, Usable(cell)) = cell.spectrum.nfft
       \/ choice \notin Listed /\ cell.spectrum.nfft = choice

(***************************************************************************)
(* No clamp of the view arithmetic is called with its bounds out of order, *)
(* whatever was stored, the rounding and the snapshot: f64::clamp would    *)
(* panic inside the host's window callback.                                *)
(***************************************************************************)
ClampsOrdered == clamped
=============================================================================
