------------------------ MODULE CaptureRecordProofs ------------------------
(***************************************************************************)
(* Proofs about CaptureRecord: for buffers, splice lists and windows of    *)
(* any size, no gap goes untracked and the seam guards separate stretches. *)
(***************************************************************************)
EXTENDS CaptureRecord, TLAPS

\* What the recorder has seen, apart from the gate.
RecordType ==
  /\ prev_record \in BOOLEAN
  /\ splices \in Seq(Nat) /\ take \in Seq(Nat) /\ stretch \in Nat

\* The next sample continues the last recorded one exactly if that was recorded
\* by the previous step, and with a full splice list it always was.
StretchInv ==
  /\ filled > 0 /\ prev_record => stretch = take[filled]
  /\ filled > 0 /\ ~prev_record => stretch = take[filled] + 1
  /\ Len(splices) <= MaxSplices
  /\ ~prev_record => Len(splices) # MaxSplices

Seams == {splices[i] : i \in DOMAIN splices}

\* Between any two positions of different stretches there is a splice.
Separated ==
  \A p, q \in Positions :
    p < q /\ TakeAt(p) # TakeAt(q) => \E s \in Seams : p < s /\ s <= q

Tracked == Seams = {p \in Positions \ {0} : TakeAt(p) # TakeAt(p - 1)}

RInv == RecordType /\ StretchInv /\ Separated /\ Tracked

-----------------------------------------------------------------------------
LEMMA AppendFacts ==
  ASSUME NEW s \in Seq(Nat), NEW e \in Nat
  PROVE  /\ Append(s, e) \in Seq(Nat) /\ Len(Append(s, e)) = Len(s) + 1
         /\ Len(s) \in Nat /\ DOMAIN s = 1 .. Len(s)
         /\ DOMAIN Append(s, e) = 1 .. Len(s) + 1
         /\ \A i \in 1 .. Len(s) : Append(s, e)[i] = s[i] /\ s[i] \in Nat
         /\ Append(s, e)[Len(s) + 1] = e
  OBVIOUS

-----------------------------------------------------------------------------
(***************************************************************************)
(* One sample.  The gate's verdict is arbitrary: nothing about its levels  *)
(* or thresholds is used.                                                  *)
(***************************************************************************)
\* What appending to the buffers does to the seams.
LEMMA RecordedSeams ==
  ASSUME RInv, filled \in Nat, filled' = filled + 1,
         \A i \in 1 .. filled : take'[i] = take[i] /\ take[i] \in Nat,
         take'[filled + 1] = stretch,
         \/ Seams' = Seams \cup {filled} /\ filled > 0 /\ stretch = take[filled] + 1
         \/ Seams' = Seams /\ (filled = 0 \/ stretch = take[filled])
  PROVE  Separated' /\ Tracked'
  <1>1. Positions = 0 .. filled - 1 /\ Positions' = 0 .. filled
    BY DEF Positions
  <1>2. \A p \in Positions : take'[p + 1] = take[p + 1] /\ p \in Nat /\ p < filled
    BY <1>1
  <1>3. filled > 0 => /\ filled - 1 \in Positions /\ take[(filled - 1) + 1] = take[filled]
                      /\ take[filled] \in Nat
    BY <1>1
  <1>4. \A s \in Seams : s \in Nat
    BY <1>1 DEF RInv, Tracked
  <1>5. filled > 0 /\ stretch # take[filled] => filled \in Seams'
    OBVIOUS
  <1>6. Separated'
    <2> SUFFICES ASSUME NEW p \in 0 .. filled, NEW q \in 0 .. filled,
                        p < q, take'[p + 1] # take'[q + 1]
                 PROVE  \E s \in Seams' : p < s /\ s <= q
      BY <1>1 DEF Separated, TakeAt
    <2>1. p \in Positions /\ take'[p + 1] = take[p + 1] /\ p \in Nat /\ filled > 0
      BY <1>1, <1>2
    <2>2. CASE q # filled
      <3>1. q \in Positions /\ take'[q + 1] = take[q + 1]
        BY <1>1, <1>2, <2>2
      <3>2. \E s \in Seams : p < s /\ s <= q
        BY <2>1, <3>1 DEF RInv, Separated, TakeAt
      <3> QED BY <3>2
    <2>3. CASE q = filled /\ take[p + 1] = take[filled]
      <3>1. stretch # take[filled] /\ p < filled
        BY <2>1, <2>3
      <3> QED BY <1>5, <2>1, <2>3, <3>1
    <2>4. CASE q = filled /\ take[p + 1] # take[filled]
      <3>1. p < filled - 1
        BY <1>1, <2>1, <2>4
      <3>2. \E s \in Seams : p < s /\ s <= filled - 1
        BY <1>3, <2>1, <2>4, <3>1 DEF RInv, Separated, TakeAt
      <3> QED BY <1>4, <2>4, <3>2
    <2> QED BY <2>2, <2>3, <2>4
  <1>7. Tracked'
    <2> DEFINE Gaps  == {p \in Positions \ {0} : TakeAt(p) # TakeAt(p - 1)}
               Gaps1 == {p \in (0 .. filled) \ {0} : take'[p + 1] # take'[(p - 1) + 1]}
    <2>1. Tracked' <=> Seams' = Gaps1
      BY <1>1 DEF Tracked, TakeAt
    <2>2. Seams = Gaps
      BY DEF RInv, Tracked
    <2>3. \A p \in Positions \ {0} : p \in Gaps1 <=> p \in Gaps
      <3> TAKE p \in Positions \ {0}
      <3>1. p - 1 \in Positions /\ p \in (0 .. filled) \ {0}
        BY <1>1
      <3> QED BY <1>2, <3>1 DEF TakeAt
    <2>4. filled > 0 => (filled \in Gaps1 <=> stretch # take[filled])
      <3> SUFFICES ASSUME filled > 0 PROVE filled \in Gaps1 <=> stretch # take[filled]
        OBVIOUS
      <3>1. take'[(filled - 1) + 1] = take[filled] /\ filled \in (0 .. filled) \ {0}
        BY <1>2, <1>3
      <3> QED BY <3>1
    <2>5. \A p \in Gaps1 : p \in Positions \ {0} \/ (p = filled /\ filled > 0)
      BY <1>1
    <2>6. \A p \in Gaps : p \in Positions \ {0}
      OBVIOUS
    <2> HIDE DEF Gaps, Gaps1
    <2>7. CASE Seams' = Seams \cup {filled} /\ filled > 0 /\ stretch = take[filled] + 1
      <3>1. stretch # take[filled]
        BY <1>3, <2>7
      <3> QED BY <2>1, <2>2, <2>3, <2>4, <2>5, <2>6, <2>7, <3>1
    <2>8. CASE Seams' = Seams /\ (filled = 0 \/ stretch = take[filled])
      BY <2>1, <2>2, <2>3, <2>4, <2>5, <2>6, <2>8
    <2> QED BY <2>7, <2>8
  <1> QED BY <1>6, <1>7

\* A recorded sample, with a splice when it follows a skipped one.
LEMMA RecordedSample ==
  ASSUME RInv,
         prev_record' = TRUE, stretch' = stretch, take' = Append(take, stretch),
         splices' = IF IsSeam THEN Append(splices, filled) ELSE splices
  PROVE  RInv'
  <1>1. /\ take' \in Seq(Nat) /\ filled' = filled + 1 /\ filled \in Nat
        /\ \A i \in 1 .. filled : take'[i] = take[i] /\ take[i] \in Nat
        /\ take'[filled + 1] = stretch
    BY AppendFacts DEF RInv, RecordType, filled
  <1>2. /\ Len(splices) \in Nat /\ MaxSplices \in Nat \ {0}
        /\ splices \in Seq(Nat) /\ stretch \in Nat
    BY CaptureRecordAssumption DEF RInv, RecordType
  <1>3. CASE filled > 0 /\ ~prev_record
    <2>1. IsSeam
      BY <1>2, <1>3 DEF IsSeam, RInv, StretchInv
    <2>2. splices' = Append(splices, filled)
      BY <2>1
    <2>3. splices' \in Seq(Nat) /\ Len(splices') = Len(splices) + 1
      BY <1>1, <1>2, <2>2, AppendFacts
    <2>4. Seams' = Seams \cup {filled}
      <3>1. /\ DOMAIN splices' = 1 .. Len(splices) + 1 /\ DOMAIN splices = 1 .. Len(splices)
            /\ \A i \in 1 .. Len(splices) : splices'[i] = splices[i]
            /\ splices'[Len(splices) + 1] = filled
        BY <1>1, <1>2, <2>2, AppendFacts
      <3>2. \A i \in DOMAIN splices' : i \in DOMAIN splices \/ i = Len(splices) + 1
        BY <1>2, <3>1
      <3>3. Len(splices) + 1 \in DOMAIN splices' /\ \A i \in DOMAIN splices : i \in DOMAIN splices'
        BY <1>2, <3>1
      <3> QED BY ONLY <3>1, <3>2, <3>3 DEF Seams
    <2>5. stretch = take[filled] + 1
      BY <1>3 DEF RInv, StretchInv
    <2>6. Len(splices') <= MaxSplices
      BY <1>2, <2>1, <2>3 DEF IsSeam
    <2>7. Separated' /\ Tracked'
      BY <1>1, <1>3, <2>4, <2>5, RecordedSeams
    <2>8. RecordType'
      BY <1>1, <1>2, <2>3, Zenon DEF RecordType
    <2>9. take'[filled'] = stretch'
      BY <1>1
    <2>10. StretchInv'
      BY <2>6, <2>9, Zenon DEF StretchInv
    <2> QED BY <2>7, <2>8, <2>10 DEF RInv
  <1>4. CASE ~(filled > 0 /\ ~prev_record)
    <2>1. splices' = splices
      BY <1>4 DEF IsSeam
    <2>2. filled = 0 \/ stretch = take[filled]
      BY <1>1, <1>4 DEF RInv, StretchInv
    <2>3. Seams' = Seams
      BY <2>1 DEF Seams
    <2>4. Separated' /\ Tracked'
      BY <1>1, <2>2, <2>3, RecordedSeams
    <2>5. RecordType'
      BY <1>1, <1>2, <2>1, Zenon DEF RecordType
    <2>6. take'[filled'] = stretch' /\ Len(splices) <= MaxSplices
      BY <1>1 DEF RInv, StretchInv
    <2>7. StretchInv'
      BY <2>1, <2>6, Zenon DEF StretchInv
    <2> QED BY <2>4, <2>5, <2>7 DEF RInv
  <1> QED BY <1>3, <1>4

\* A skipped sample.
LEMMA SkippedSample ==
  ASSUME RInv, Len(splices) # MaxSplices,
         prev_record' = FALSE, splices' = splices, take' = take,
         stretch' = IF filled = 0 THEN 0 ELSE take[filled] + 1
  PROVE  RInv'
  <1>1. filled \in Nat /\ (filled # 0 => take[filled] \in Nat) /\ filled' = filled
    BY DEF RInv, RecordType, filled
  <1>2. stretch' \in Nat
    BY <1>1
  <1>3. RecordType'
    BY <1>2 DEF RInv, RecordType
  <1>4. StretchInv'
    <2>1. filled' > 0 => stretch' = take'[filled'] + 1
      BY <1>1
    <2> QED BY <2>1, Zenon DEF RInv, StretchInv
  <1>5. Positions' = Positions /\ Seams' = Seams
    BY <1>1 DEF Positions, Seams
  <1>6. \A p : TakeAt(p)' = TakeAt(p)
    BY DEF TakeAt
  <1>7. Separated'
    BY <1>5, <1>6 DEF RInv, Separated
  <1>8. Tracked'
    BY <1>5, <1>6 DEF RInv, Tracked
  <1> QED BY <1>3, <1>4, <1>7, <1>8 DEF RInv

LEMMA RecordInit == Init => RInv
  <1> SUFFICES ASSUME Init PROVE RInv
    OBVIOUS
  <1>1. filled = 0 /\ Positions = {} /\ DOMAIN splices = {} /\ Len(splices) = 0
    BY DEF Init, filled, Positions
  <1>2. RecordType
    <2>1. <<>> \in Seq(Nat) /\ 0 \in Nat
      OBVIOUS
    <2> QED BY <2>1, Zenon DEF Init, RecordType
  <1>3. 0 # MaxSplices /\ 0 <= MaxSplices /\ ~(0 > 0)
    BY CaptureRecordAssumption
  <1>4. StretchInv
    BY <1>1, <1>3, Zenon DEF StretchInv
  <1> QED BY <1>1, <1>2, <1>4 DEF RInv, Separated, Tracked, Seams

LEMMA RecordStep == RInv /\ [Next]_vars => RInv'
  <1> SUFFICES ASSUME RInv, [Next]_vars PROVE RInv'
    OBVIOUS
  <1>1. CASE Arm
    <2>1. /\ filled' = 0 /\ Positions' = {} /\ (DOMAIN splices)' = {}
          /\ Len(splices') = 0 /\ prev_record' = FALSE /\ stretch' = 0
          /\ splices' = <<>> /\ take' = <<>>
      BY <1>1 DEF Arm, filled, Positions
    <2>2. 0 # MaxSplices /\ 0 <= MaxSplices /\ ~(0 > 0) /\ <<>> \in Seq(Nat) /\ 0 \in Nat
      BY CaptureRecordAssumption
    <2>3. RecordType' /\ StretchInv'
      BY <2>1, <2>2, Zenon DEF RecordType, StretchInv
    <2> QED BY <2>1, <2>3 DEF RInv, Separated, Tracked, Seams
  <1>2. ASSUME NEW m \in Samples, NEW r \in Samples, Sample(m, r)
        PROVE  RInv'
    <2>1. CASE Records(gate')
      <3>1. Records(gate') = TRUE
        BY <2>1 DEF Records
      <3> QED BY <1>2, <2>1, RecordedSample DEF Sample
    <2>2. CASE ~Records(gate')
      BY <1>2, <2>2, SkippedSample DEF Sample, Records
    <2> QED BY <2>1, <2>2
  <1>3. CASE UNCHANGED <<prev_record, splices, take, stretch>>
    <2>1. RecordType' /\ StretchInv'
      BY <1>3, Zenon DEF RInv, RecordType, StretchInv, filled
    <2>2. Separated' /\ Tracked'
      BY <1>3 DEF RInv, Separated, Tracked, Seams, Positions, TakeAt, filled
    <2> QED BY <2>1, <2>2 DEF RInv
  <1>4. BlockStart \/ BlockEnd \/ Stop \/ Cancel \/ Analyzed \/ UNCHANGED vars
          => UNCHANGED <<prev_record, splices, take, stretch>>
    BY DEF BlockStart, BlockEnd, Stop, Cancel, Analyzed, vars
  <1> QED BY <1>1, <1>2, <1>3, <1>4 DEF Next, SampleStep

-----------------------------------------------------------------------------
(***************************************************************************)
(* Whatever the gate does and however small the splice list, every gap in  *)
(* the buffers has its splice.                                             *)
(***************************************************************************)
THEOREM NoGapUntracked == Spec => []GapsTracked
  <1>1. RInv => GapsTracked
    BY DEF RInv, Tracked, Seams, GapsTracked
  <1> QED BY <1>1, RecordInit, RecordStep, PTL DEF Spec

(***************************************************************************)
(* The guards [s - W, s + W) remove every product of the searched lags     *)
(* that pairs two stretches of input.                                      *)
(***************************************************************************)
THEOREM GuardsSuffice == Spec => []GuardsCoverSeams
  <1>1. RInv => GuardsCoverSeams
    <2> SUFFICES ASSUME RInv, NEW p \in Positions, NEW q \in Positions,
                        p <= q + MaxShift, q <= p + MaxShift,
                        ~Guarded(p), ~Guarded(q), TakeAt(p) # TakeAt(q)
                 PROVE  FALSE
      BY DEF GuardsCoverSeams
    <2>1. p \in Nat /\ q \in Nat /\ MaxShift \in Nat /\ \A s \in Seams : s \in Nat
      BY CaptureRecordAssumption DEF Positions, RInv, Tracked
    <2>2. \A s \in Seams : /\ ~(s <= p + MaxShift /\ p < s + MaxShift)
                           /\ ~(s <= q + MaxShift /\ q < s + MaxShift)
      BY DEF Guarded, Seams
    <2>3. CASE p < q
      <3>1. PICK s \in Seams : p < s /\ s <= q
        BY <2>3 DEF RInv, Separated
      <3> QED BY <2>1, <2>2, <3>1
    <2>4. CASE q < p
      <3>1. PICK s \in Seams : q < s /\ s <= p
        BY <2>4 DEF RInv, Separated
      <3> QED BY <2>1, <2>2, <3>1
    <2> QED BY <2>1, <2>3, <2>4
  <1> QED BY <1>1, RecordInit, RecordStep, PTL DEF Spec

-----------------------------------------------------------------------------
(***************************************************************************)
(* The gate.  An envelope has come down a level for every silent sample,   *)
(* and once that has brought it below the close threshold the open gate    *)
(* has used up a sample of its hold for every further one.                 *)
(***************************************************************************)
Gates == [env_main : Nat, env_ref : Nat, hold_left : 0 .. HoldSamples,
          open : BOOLEAN, closed_streak : 0 .. StreakMax]

\* The release from level l down to the close threshold.
Release(l) == IF l > CloseThresh THEN l - CloseThresh ELSE 0

Released(env, n, l) == env = 0 \/ env + n <= l

Holding(g, n, l) ==
  g.open => n <= Linger(l) /\ (n > Release(l) => g.hold_left + n <= Linger(l))

GateInv ==
  /\ gate \in Gates /\ silent \in [main : Nat, ref : Nat] /\ loudest \in [main : Nat, ref : Nat]
  /\ Released(gate.env_main, silent.main, loudest.main)
  /\ Released(gate.env_ref, silent.ref, loudest.ref)
  /\ Holding(gate, silent.main, loudest.main) /\ Holding(gate, silent.ref, loudest.ref)

LEMMA LevelFacts ==
  /\ OpenThresh \in Nat \ {0} /\ CloseThresh \in Nat \ {0} /\ CloseThresh <= OpenThresh
  /\ HoldSamples \in Nat /\ StreakMax \in Nat
  /\ \A l \in Nat : /\ Release(l) \in Nat /\ Linger(l) \in Nat
                     /\ Linger(l) = Release(l) + HoldSamples
                     /\ l <= Release(l) + CloseThresh
  /\ \A x \in Amps : x \in Nat /\ x # NonFinite
  BY CaptureGateAssumption DEF Linger, Release

LEMMA FollowReleases ==
  ASSUME NEW env \in Nat, NEW n \in Nat, NEW l \in Nat, NEW x \in Samples, Released(env, n, l)
  PROVE  /\ Follow(env, x) \in Nat
         /\ Silence(n, l, x) \in Nat /\ Loudest(l, x) \in Nat
         /\ Released(Follow(env, x), Silence(n, l, x), Loudest(l, x))
         /\ Silence(n, l, x) > Release(Loudest(l, x)) => Follow(env, x) < CloseThresh
         /\ \/ Silence(n, l, x) = 0
            \/ /\ Loudest(l, x) = l
               /\ Silence(n, l, x) = n + 1 \/ (Silence(n, l, x) = n /\ n > Linger(l))
  <1>1. CASE x \in Amps \ {0}
    <2>1. Silence(n, l, x) = 0 /\ x \in Nat /\ x # NonFinite
      BY <1>1, LevelFacts DEF Silence, Sounds
    <2>2. Loudest(l, x) \in Nat /\ l <= Loudest(l, x) /\ x <= Loudest(l, x)
      BY <1>1, <2>1 DEF Loudest, Sounds
    <2>3. Follow(env, x) \in Nat /\ (Follow(env, x) = x \/ Follow(env, x) <= env)
      BY <2>1 DEF Follow, Decay
    <2>4. Follow(env, x) = x \/ Follow(env, x) = 0 \/ Follow(env, x) <= l
      BY <2>3 DEF Released
    <2> QED BY <2>1, <2>2, <2>3, <2>4, LevelFacts DEF Released
  <1>2. CASE x \notin Amps \ {0}
    <2>1. Follow(env, x) = Decay(env)
      BY <1>2, LevelFacts DEF Samples, Follow, Decay
    <2>2. Silence(n, l, x) = (IF n > Linger(l) THEN n ELSE n + 1) /\ Loudest(l, x) = l
      BY <1>2 DEF Silence, Loudest, Sounds
    <2>3. Decay(env) \in Nat /\ (Decay(env) = 0 \/ Decay(env) = env - 1)
      BY DEF Decay
    <2>4. Linger(l) \in Nat /\ Release(l) \in Nat /\ Release(l) <= Linger(l)
           /\ l <= Release(l) + CloseThresh
      BY LevelFacts
    <2>5. Released(Decay(env), Silence(n, l, x), l)
      BY <2>2, <2>3, <2>4 DEF Released
    <2>6. Silence(n, l, x) > Release(l) => Decay(env) < CloseThresh
      BY <2>2, <2>3, <2>4, <2>5, LevelFacts DEF Released
    <2> QED BY <2>1, <2>2, <2>3, <2>4, <2>5, <2>6
  <1> QED BY <1>1, <1>2

\* What a sample does to the gate: without both inputs at the close threshold it
\* stays open only on its hold.
LEMMA StepHolds ==
  ASSUME NEW g \in Gates, NEW main \in Samples, NEW reference \in Samples,
         NEW m \in Nat, NEW r \in Nat,
         m = Follow(g.env_main, main), r = Follow(g.env_ref, reference)
  PROVE  LET s == Step(g, main, reference)
         IN  /\ s \in Gates /\ s.env_main = m /\ s.env_ref = r
             /\ s.open /\ ~Both(m, r, CloseThresh) =>
                  g.open /\ g.hold_left > 0 /\ s.hold_left = g.hold_left - 1
  <1> DEFINE a == [g EXCEPT !.env_main = m, !.env_ref = r]
             b == Held(a, m, r)
             c == Opened(b, m, r)
  <1>1. /\ a \in Gates /\ a.env_main = m /\ a.env_ref = r /\ a.open = g.open
        /\ a.hold_left = g.hold_left
    BY DEF Gates
  <1>2. /\ b \in Gates /\ b.env_main = m /\ b.env_ref = r
        /\ b.open /\ ~Both(m, r, CloseThresh) =>
             g.open /\ g.hold_left > 0 /\ b.hold_left = g.hold_left - 1
    <2> HIDE DEF a
    <2>1. CASE ~a.open
      BY <1>1, <2>1 DEF Held
    <2>2. CASE a.open /\ Both(m, r, CloseThresh)
      BY <1>1, <2>2, LevelFacts DEF Held, Gates
    <2>3. CASE a.open /\ ~Both(m, r, CloseThresh) /\ a.hold_left > 0
      <3>1. b = [a EXCEPT !.hold_left = @ - 1]
        BY <2>3 DEF Held
      <3>2. a.hold_left - 1 \in 0 .. HoldSamples
        BY <1>1, <2>3, LevelFacts DEF Gates
      <3> HIDE DEF b
      <3> QED BY <1>1, <2>3, <3>1, <3>2 DEF Gates
    <2>4. CASE a.open /\ ~Both(m, r, CloseThresh) /\ ~(a.hold_left > 0)
      <3>1. b = [a EXCEPT !.open = FALSE]
        BY <2>4 DEF Held
      <3> HIDE DEF b
      <3> QED BY <1>1, <3>1 DEF Gates
    <2> QED BY <2>1, <2>2, <2>3, <2>4
  <1> HIDE DEF b
  <1>3. /\ c \in Gates /\ c.env_main = m /\ c.env_ref = r
        /\ c.open /\ ~Both(m, r, CloseThresh) =>
             g.open /\ g.hold_left > 0 /\ c.hold_left = g.hold_left - 1
    <2>1. CASE ~b.open /\ Both(m, r, OpenThresh)
      <3>1. Both(m, r, CloseThresh)
        BY <2>1, LevelFacts DEF Both
      <3>2. c = [b EXCEPT !.open = TRUE, !.hold_left = HoldSamples]
        BY <2>1 DEF Opened
      <3>3. b \in Gates /\ HoldSamples \in 0 .. HoldSamples
        BY <1>2, LevelFacts
      <3> HIDE DEF c
      <3>4. c \in Gates /\ c.env_main = b.env_main /\ c.env_ref = b.env_ref
        BY <3>2, <3>3 DEF Gates
      <3> QED BY <1>2, <3>1, <3>4
    <2>2. CASE ~(~b.open /\ Both(m, r, OpenThresh))
      BY <1>2, <2>2 DEF Opened
    <2> QED BY <2>1, <2>2
  <1> HIDE DEF c
  <1>4. Step(g, main, reference) = Counted(c)
    BY DEF Step, c, b
  <1>5. Counted(c) \in Gates /\ Counted(c).env_main = m /\ Counted(c).env_ref = r
         /\ Counted(c).open = c.open /\ Counted(c).hold_left = c.hold_left
    <2>1. (IF c.open THEN 0 ELSE IF c.closed_streak = StreakMax THEN c.closed_streak
           ELSE c.closed_streak + 1) \in 0 .. StreakMax
      BY <1>3, LevelFacts DEF Gates
    <2> QED BY <1>3, <2>1 DEF Counted, Gates
  <1> QED BY <1>3, <1>4, <1>5

LEMMA HoldKept ==
  ASSUME NEW g \in Gates, NEW s \in Gates, NEW n \in Nat, NEW k \in Nat,
         NEW l \in Nat, NEW j \in Nat, Holding(g, n, l),
         k = 0 \/ (j = l /\ (k = n + 1 \/ (k = n /\ n > Linger(l)))),
         s.open /\ k > Release(j) =>
           g.open /\ g.hold_left > 0 /\ s.hold_left = g.hold_left - 1
  PROVE  Holding(s, k, j)
  <1>1. g.hold_left \in Nat /\ g.hold_left <= HoldSamples
    BY LevelFacts DEF Gates
  <1>2. Release(j) \in Nat /\ Linger(j) = Release(j) + HoldSamples /\ HoldSamples \in Nat
    BY LevelFacts
  <1>3. s.open /\ ~(k > Release(j)) => k <= Linger(j)
    BY <1>2
  <1>4. ASSUME s.open, k > Release(j)
        PROVE  s.hold_left + k <= Linger(j) /\ k <= Linger(j)
    BY <1>1, <1>2, <1>4 DEF Holding
  <1> QED BY <1>3, <1>4 DEF Holding

LEMMA GateStep == GateInv /\ [Next]_vars => GateInv'
  <1> SUFFICES ASSUME GateInv, [Next]_vars PROVE GateInv'
    OBVIOUS
  <1>1. ASSUME NEW x \in Samples, NEW y \in Samples, Sample(x, y)
        PROVE  GateInv'
    <2> DEFINE m == Follow(gate.env_main, x)
               r == Follow(gate.env_ref, y)
               k == Silence(silent.main, loudest.main, x)
               l == Silence(silent.ref, loudest.ref, y)
               i == Loudest(loudest.main, x)
               j == Loudest(loudest.ref, y)
               s == Step(gate, x, y)
    <2>1. gate \in Gates /\ silent.main \in Nat /\ silent.ref \in Nat
           /\ loudest.main \in Nat /\ loudest.ref \in Nat
           /\ gate.env_main \in Nat /\ gate.env_ref \in Nat
      BY DEF GateInv, Gates
    <2>2. /\ m \in Nat /\ k \in Nat /\ i \in Nat /\ Released(m, k, i)
          /\ k > Release(i) => m < CloseThresh
          /\ \/ k = 0
             \/ /\ i = loudest.main
                /\ k = silent.main + 1 \/ (k = silent.main /\ silent.main > Linger(loudest.main))
      BY <2>1, FollowReleases DEF GateInv
    <2>3. /\ r \in Nat /\ l \in Nat /\ j \in Nat /\ Released(r, l, j)
          /\ l > Release(j) => r < CloseThresh
          /\ \/ l = 0
             \/ /\ j = loudest.ref
                /\ l = silent.ref + 1 \/ (l = silent.ref /\ silent.ref > Linger(loudest.ref))
      BY <2>1, FollowReleases DEF GateInv
    <2>4. /\ s \in Gates /\ s.env_main = m /\ s.env_ref = r
          /\ s.open /\ ~Both(m, r, CloseThresh) =>
               gate.open /\ gate.hold_left > 0 /\ s.hold_left = gate.hold_left - 1
      BY <2>1, <2>2, <2>3, StepHolds
    <2>5. gate' = s /\ silent' = [main |-> k, ref |-> l] /\ loudest' = [main |-> i, ref |-> j]
      BY <1>1 DEF Sample
    <2> HIDE DEF m, r, k, l, i, j, s
    <2>6. k > Release(i) \/ l > Release(j) => ~Both(m, r, CloseThresh)
      BY <2>2, <2>3, LevelFacts DEF Both
    <2>7. Holding(s, k, i)
      BY <2>1, <2>2, <2>4, <2>6, HoldKept DEF GateInv
    <2>8. Holding(s, l, j)
      BY <2>1, <2>3, <2>4, <2>6, HoldKept DEF GateInv
    <2>9. /\ silent'.main = k /\ silent'.ref = l /\ silent' \in [main : Nat, ref : Nat]
          /\ loudest'.main = i /\ loudest'.ref = j /\ loudest' \in [main : Nat, ref : Nat]
      BY <2>2, <2>3, <2>5
    <2> QED BY <2>2, <2>3, <2>4, <2>5, <2>7, <2>8, <2>9 DEF GateInv
  <1>2. CASE Arm
    <2>1. gate' = NewGate /\ silent' = Both0 /\ loudest' = Both0
      BY <1>2 DEF Arm
    <2> QED BY <2>1, LevelFacts DEF GateInv, NewGate, Gates, Released, Holding, Both0
  <1>3. CASE BlockStart \/ BlockEnd \/ Stop \/ Cancel \/ Analyzed \/ UNCHANGED vars
    <2>1. gate' = gate /\ silent' = silent /\ loudest' = loudest
      BY <1>3 DEF BlockStart, BlockEnd, Stop, Cancel, Analyzed, vars
    <2> QED BY <2>1 DEF GateInv
  <1> QED BY <1>1, <1>2, <1>3 DEF Next, SampleStep

(***************************************************************************)
(* gate.rs: for every threshold, hold, and loudness of the input, the gate *)
(* is closed once either input has been silent, or not finite, for longer  *)
(* than the release from its loudest sample and the hold take, whatever    *)
(* the other input does.                                                   *)
(***************************************************************************)
THEOREM SilenceCloses == Spec => []ClosesInSilence
  <1>1. Init => GateInv
    <2> SUFFICES ASSUME Init PROVE GateInv
      OBVIOUS
    <2>1. gate = NewGate /\ silent = Both0 /\ loudest = Both0
      BY DEF Init
    <2> QED BY <2>1, LevelFacts DEF GateInv, NewGate, Gates, Released, Holding, Both0
  <1>2. GateInv => ClosesInSilence
    <2> SUFFICES ASSUME GateInv,
                        silent.main > Linger(loudest.main) \/ silent.ref > Linger(loudest.ref)
                 PROVE  ~gate.open
      BY DEF ClosesInSilence
    <2>1. /\ silent.main \in Nat /\ silent.ref \in Nat
          /\ Linger(loudest.main) \in Nat /\ Linger(loudest.ref) \in Nat
      BY LevelFacts DEF GateInv
    <2> QED BY <2>1 DEF GateInv, Holding
  <1> QED BY <1>1, <1>2, GateStep, PTL DEF Spec
=============================================================================
