------------------------------- MODULE ViewMath -------------------------------
(***************************************************************************)
(* The pan and zoom arithmetic of the graph panels (view_math.rs) and the  *)
(* clamps the panels put around it.  A view is [lo, span] on an axis of    *)
(* whole units; a unit is what one floating-point operation may be off by, *)
(* so a difference is rounded up or down by at most one.  f64::clamp       *)
(* panics when its bounds are out of order, so every operator says whether *)
(* its bounds were ordered.                                                *)
(***************************************************************************)
EXTENDS Welch

Rounding == {-1, 0, 1}

Clamp(x, lo, hi) == IF x < lo THEN lo ELSE IF x > hi THEN hi ELSE x

View(lo, span, ordered) == [lo |-> lo, span |-> span, ordered |-> ordered]

(***************************************************************************)
(* factor is <<num, den>>, the anchor lies frac halves across the view.    *)
(* MutZoomAbout is a mutant without the guard on the upper bound.          *)
(***************************************************************************)
MutZoomAbout(v, frac, factor, min_span, full_lo, full_hi, e) ==
  LET full == full_hi - full_lo
      span == Clamp((v.span * factor[2]) \div factor[1], Least(min_span, full), full)
      top == full_hi - span + e
  IN IF v.span <= 0 \/ full <= 0 THEN v
     ELSE View(Clamp(v.lo + (frac * (v.span - span)) \div 2, full_lo, top), span,
               v.ordered /\ full_lo <= top)

zoom_about(v, frac, factor, min_span, full_lo, full_hi, e) ==
  LET full == full_hi - full_lo
      span == Clamp((v.span * factor[2]) \div factor[1], Least(min_span, full), full)
      top == Most(full_hi - span + e, full_lo)
  IN IF v.span <= 0 \/ full <= 0 THEN v
     ELSE View(Clamp(v.lo + (frac * (v.span - span)) \div 2, full_lo, top), span,
               v.ordered /\ full_lo <= top)

pan(v, delta, full_lo, full_hi, e) ==
  LET top == Most(full_hi - v.span + e, full_lo)
  IN View(Clamp(v.lo + delta, full_lo, top), v.span, v.ordered /\ full_lo <= top)

(***************************************************************************)
(* A gesture is "none", a zoom, a pan by some units, or "fit".             *)
(***************************************************************************)
Apply(g, v, min_span, full_lo, full_hi, e) ==
  CASE g.kind = "zoom" -> zoom_about(v, g.frac, g.factor, min_span, full_lo, full_hi, e)
    [] g.kind = "pan" -> pan(v, g.delta, full_lo, full_hi, e)
    [] g.kind = "fit" -> View(full_lo, full_hi - full_lo, v.ordered)
    [] OTHER -> v

NoView == [lo |-> 0, span |-> -1]
Stored(v) == [lo |-> v.lo, span |-> v.span]

(***************************************************************************)
(* The correlation panel's stored view, against the curve's range.         *)
(***************************************************************************)
CorrView(stored, min_span, full) ==
  LET low == Least(min_span, 2 * full)
      span == Clamp(stored.span, low, 2 * full)
      top == Most(full - span, -full)
  IN IF stored = NoView THEN View(-full, 2 * full, TRUE)
     ELSE View(Clamp(stored.lo, -full, top), span, low <= 2 * full /\ -full <= top)

(***************************************************************************)
(* The spectrum panel's: the end is kept one unit above the start, both    *)
(* inside the axis, even when the stored view lies beyond it.              *)
(***************************************************************************)
SpecView(stored, base_lo, base_hi) ==
  LET top == Most(base_hi - 1, base_lo)
      lo == Clamp(stored.lo, base_lo, top)
      low == Least(lo + 1, base_hi)
      hi == Clamp(stored.lo + stored.span, low, base_hi)
  IN IF stored = NoView THEN View(base_lo, base_hi - base_lo, TRUE)
     ELSE View(lo, hi - lo, base_lo <= top /\ low <= base_hi)

(***************************************************************************)
(* The waveform panel clamps the span first and the start after the        *)
(* gesture.                                                                *)
(***************************************************************************)
WaveStart(v, len) ==
  View(Clamp(v.lo, 0, Most(len - v.span, 0)), v.span, v.ordered)

set_span(stored, len, span) ==
  LET s == Least(span, len)
      center == IF stored = NoView THEN len \div 2 ELSE stored.lo + stored.span \div 2
  IN [lo |-> Clamp(center - s \div 2, 0, Most(len - s, 0)), span |-> s]
=============================================================================
