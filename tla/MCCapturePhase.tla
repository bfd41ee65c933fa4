---------------------------- MODULE MCCapturePhase ----------------------------
(***************************************************************************)
(* Two configurations whose buffers differ in length, as 44.1 and 192 kHz  *)
(* do: one recording quantum and two.                                      *)
(***************************************************************************)
EXTENDS CapturePhase

MCBufLen == [c \in Configs |-> IF c = "high" THEN 2 ELSE 1]
=============================================================================
