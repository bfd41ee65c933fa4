--------------------------- MODULE CaptureRecord ---------------------------
(***************************************************************************)
(* One gated capture as process() records it (src/lib.rs): the sample loop *)
(* with its splice list, the promotion and auto-finish at the end of each  *)
(* block, and the seam guards the analysis derives from the splices        *)
(* (src/analysis.rs, analyze_spliced).  CapturePhase interleaves the same  *)
(* block with the other threads and leaves open what is decided here.      *)
(*                                                                         *)
(* A buffer position holds, instead of a sample, the number of the         *)
(* contiguous stretch of input the sample came from (take).                *)
(***************************************************************************)
EXTENDS CaptureGate, Sequences, FiniteSets

CONSTANTS
  TargetLen,     \* length of the capture buffers
  MaxSplices,    \* capacity of the splice list
  FinishAfter,   \* CAPTURE_AUTO_FINISH_SECONDS in samples
  MaxShift       \* search window of the analysis

ASSUME CaptureRecordAssumption ==
  /\ TargetLen \in Nat \ {0} /\ MaxSplices \in Nat \ {0}
  /\ FinishAfter \in Nat \ {0} /\ MaxShift \in Nat

VARIABLES
  phase,         \* CaptureState::phase
  gate,          \* the CaptureGate
  prev_record,
  splices,       \* CaptureData::splices
  take,          \* the filled part of the buffers
  block, now,    \* inside process(); the phase its record loop started from
  stretch,       \* history: the present stretch of input
  silent,        \* history: for how many samples each input has been silent
  loudest        \* history: the loudest sample of each input since the arm

vars == <<phase, gate, prev_record, splices, take, block, now, stretch, silent, loudest>>

filled == Len(take)

Both0 == [main |-> 0, ref |-> 0]

Init ==
  /\ phase = "IDLE"
  /\ gate = NewGate /\ prev_record = FALSE
  /\ splices = <<>> /\ take = <<>>
  /\ block = FALSE /\ now = "IDLE"
  /\ stretch = 0 /\ silent = Both0 /\ loudest = Both0

\* A block with a rising edge, from Idle only.
Arm ==
  /\ ~block /\ phase = "IDLE"
  /\ splices' = <<>> /\ take' = <<>>
  /\ gate' = NewGate /\ prev_record' = FALSE
  /\ phase' = "ARMED"
  /\ stretch' = 0 /\ silent' = Both0 /\ loudest' = Both0
  /\ UNCHANGED <<block, now>>

BlockStart ==
  /\ ~block /\ phase \in {"ARMED", "CAPTURING"}
  /\ block' = TRUE /\ now' = phase
  /\ UNCHANGED <<phase, gate, prev_record, splices, take, stretch, silent, loudest>>

\* A seam is a recorded sample after a skipped one; leading silence is none.
IsSeam == ~prev_record /\ filled > 0 /\ Len(splices) < MaxSplices

\* Mutant: a full splice list only stops the pushes.
MutRecords(g) == g.open

\* With the splice list full every sample is recorded.
Records(g) == g.open \/ Len(splices) = MaxSplices

\* How long an open gate can outlast an input: the release from its loudest sample
\* down to the close threshold, then the hold.
Linger(level) == (IF level > CloseThresh THEN level - CloseThresh ELSE 0) + HoldSamples

Sounds(x) == x \in Amps \ {0}
Silence(n, l, x) == IF Sounds(x) THEN 0 ELSE IF n > Linger(l) THEN n ELSE n + 1
Loudest(l, x) == IF Sounds(x) /\ x > l THEN x ELSE l

Sample(main, reference) ==
  /\ block /\ filled < TargetLen
  /\ gate' = Step(gate, main, reference)
  /\ prev_record' = Records(gate')
  /\ \/ /\ Records(gate')
        /\ splices' = IF IsSeam THEN Append(splices, filled) ELSE splices
        /\ take' = Append(take, stretch)
        /\ UNCHANGED stretch
     \/ /\ ~Records(gate')
        /\ stretch' = IF filled = 0 THEN 0 ELSE take[filled] + 1
        /\ UNCHANGED <<splices, take>>
  /\ silent' = [main |-> Silence(silent.main, loudest.main, main),
                ref |-> Silence(silent.ref, loudest.ref, reference)]
  /\ loudest' = [main |-> Loudest(loudest.main, main), ref |-> Loudest(loudest.ref, reference)]
  /\ UNCHANGED <<phase, block, now>>

\* Mutant: only a full buffer finishes a capture.
MutMayFinish == filled >= TargetLen

MayFinish == filled >= TargetLen \/ gate.closed_streak >= FinishAfter

\* Promotion and auto-finish; the compare_exchanges let a cancel win.
BlockEnd ==
  /\ block
  /\ LET promoted == IF now = "ARMED" /\ filled > 0 /\ phase = "ARMED"
                     THEN "CAPTURING" ELSE phase
     IN  phase' = IF promoted = "CAPTURING" /\ MayFinish THEN "ANALYZING" ELSE promoted
  /\ block' = FALSE /\ now' = "IDLE"
  /\ UNCHANGED <<gate, prev_record, splices, take, stretch, silent, loudest>>

\* A stop request or a falling edge, consumed at the start of a block.
Stop ==
  /\ ~block /\ phase \in {"ARMED", "CAPTURING"}
  /\ phase' = IF phase = "ARMED" THEN "IDLE" ELSE "ANALYZING"
  /\ UNCHANGED <<gate, prev_record, splices, take, block, now, stretch, silent, loudest>>

\* CaptureHandle::cancel_capture, at any point of a block.
Cancel ==
  /\ phase \in {"ARMED", "CAPTURING"}
  /\ phase' = "IDLE"
  /\ UNCHANGED <<gate, prev_record, splices, take, block, now, stretch, silent, loudest>>

\* The task has read the buffers.
Analyzed ==
  /\ phase = "ANALYZING" /\ phase' = "IDLE"
  /\ UNCHANGED <<gate, prev_record, splices, take, block, now, stretch, silent, loudest>>

SampleStep == \E m, r \in Samples : Sample(m, r)

Next ==
  \/ Arm \/ BlockStart \/ SampleStep \/ BlockEnd \/ Stop \/ Cancel \/ Analyzed

Spec == Init /\ [][Next]_vars

(***************************************************************************)
(* A host that runs blocks: each one starts, processes samples and ends.   *)
(***************************************************************************)
FairSpec ==
  Spec /\ WF_vars(BlockStart) /\ SF_vars(SampleStep) /\ WF_vars(BlockEnd)

-----------------------------------------------------------------------------
Phases == {"IDLE", "ARMED", "CAPTURING", "ANALYZING"}

TypeOK ==
  /\ phase \in Phases /\ now \in {"IDLE", "ARMED", "CAPTURING"}
  /\ gate \in [env_main : Nat, env_ref : Nat, hold_left : 0 .. HoldSamples,
               open : BOOLEAN, closed_streak : 0 .. StreakMax]
  /\ prev_record \in BOOLEAN /\ block \in BOOLEAN
  /\ splices \in Seq(Nat) /\ Len(splices) <= MaxSplices
  /\ take \in Seq(Nat) /\ Len(take) <= TargetLen
  /\ stretch \in Nat /\ silent \in [main : Nat, ref : Nat] /\ loudest \in [main : Nat, ref : Nat]

\* Positions count from 0, as indices do in the code.
Positions == 0 .. filled - 1
TakeAt(p) == take[p + 1]

(***************************************************************************)
(* "No gap ever goes untracked": wherever two neighbouring samples of the  *)
(* buffers were not neighbours in the input there is a splice, and there   *)
(* are no splices elsewhere - also when the splice list has filled up.     *)
(***************************************************************************)
GapsTracked ==
  {splices[i] : i \in DOMAIN splices} =
    {p \in Positions \ {0} : TakeAt(p) # TakeAt(p - 1)}

\* Mutant: half the window on either side.
MutGuarded(p) ==
  \E i \in DOMAIN splices :
    splices[i] <= p + MaxShift \div 2 /\ p < splices[i] + MaxShift \div 2

\* analyze_spliced zeroes [s - W, s + W) around every splice.
Guarded(p) ==
  \E i \in DOMAIN splices : splices[i] <= p + MaxShift /\ p < splices[i] + MaxShift

(***************************************************************************)
(* Every product main[p] * reference[q] of a searched lag that survives    *)
(* the guards pairs samples of one contiguous stretch of input.            *)
(***************************************************************************)
GuardsCoverSeams ==
  \A p, q \in Positions :
    /\ p <= q + MaxShift /\ q <= p + MaxShift
    /\ ~Guarded(p) /\ ~Guarded(q)
    => TakeAt(p) = TakeAt(q)

(***************************************************************************)
(* Neither a signal on the other input nor a burst of non-finite samples   *)
(* holds the gate open: it is closed once one input has been silent for    *)
(* longer than the hold and the release take, counted from the loudest     *)
(* sample of that input since the arm.  There is no bound that fits every  *)
(* input: a louder sample makes the release longer.                        *)
(***************************************************************************)
ClosesInSilence ==
  \/ silent.main > Linger(loudest.main)
  \/ silent.ref > Linger(loudest.ref)
  => ~gate.open

(***************************************************************************)
(* A capture that has begun ends by itself: it fills, or its silence lasts *)
(* long enough - whatever the signal does.                                 *)
(***************************************************************************)
CaptureEnds == phase = "CAPTURING" ~> phase # "CAPTURING"
=============================================================================
