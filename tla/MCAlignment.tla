----------------------------- MODULE MCAlignment -----------------------------
(***************************************************************************)
(* 1.5 and 2 samples per millisecond: latencies that need rounding, and    *)
(* fades of one and two samples.                                           *)
(***************************************************************************)
EXTENDS Alignment

MCFadeLen(rate) == rate - 2
MCCenterTap == [delay |-> 2, inverted |-> FALSE]
MCTrims == {-2, NonFinite}
MCTrim == {-2}
MCResults == {[offset |-> 2, inverted |-> TRUE]}
=============================================================================
