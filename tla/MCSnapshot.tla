----------------------------- MODULE MCSnapshot -----------------------------
(***************************************************************************)
(* Captures too short to analyze, clamped by their length, cut by seams    *)
(* and silenced by the guards around them; a rate with segments of two     *)
(* samples and one of four.                                                *)
(***************************************************************************)
EXTENDS Snapshot

Capture(n, splices, w, rate, level) ==
  [n |-> n, splices |-> splices, w |-> w, rate |-> rate, level |-> level]

MCCaptures ==
  {Capture(3, {}, 1, 12, "loud"), Capture(4, {}, 3, 12, "loud"),
   Capture(6, {3}, 1, 12, "nonfinite"),
   Capture(8, {3}, 1, 18, "loud")}

MCFactors == {<<2, 1>>, <<1, 2>>}
MCSteps == {-3, 3}
=============================================================================
