----------------------------- MODULE EditorProofs -----------------------------
(***************************************************************************)
(* Proofs about Editor, for any heap, any number of snapshots, any trim    *)
(* range and any queue.                                                    *)
(***************************************************************************)
EXTENDS Editor, TLAPS

-----------------------------------------------------------------------------
(***************************************************************************)
(* What a cache may hold: nothing, or what the named snapshot draws.  A    *)
(* snapshot is here its address a, its id and the net shift of the frame   *)
(* that filled the cache.                                                  *)
(***************************************************************************)
Waves(a, id) ==
  {NoCache} \cup {[snap |-> a, net |-> m, reference |-> id, main |-> <<id, m>>, gain |-> id] :
                    m \in Trims}

Corrs(a, id) == {NoCache, [snap |-> a, curve |-> id, max_abs |-> id]}

Entries(id)         == {[size |-> n, id |-> id] : n \in Sizes}
Reestimated(a, id)  == {NoCache} \cup {[snap |-> a, entries |-> E] : E \in SUBSET Entries(id)}

Spectra(a, id) ==
  {NoCache} \cup {[snap |-> a, size |-> n, net |-> m, captured |-> <<id, n>>,
                   corrected |-> <<id, n, m>>] : n \in Sizes, m \in Trims}

(***************************************************************************)
(* The editor's state, its caches drawn from one snapshot or from none.    *)
(***************************************************************************)
StateOf(a, id) ==
  [snapshot : {a}, wave : Waves(a, id), corr_cache : Corrs(a, id),
   reestimates : Reestimated(a, id), spectrum_cache : Spectra(a, id),
   lower_tab : {"Correlation", "Spectrum"}, pending_trim : Trims \cup {NoTrim},
   panicked : BOOLEAN]

Blank ==
  [snapshot : {NoSnapshot}, wave : {NoCache}, corr_cache : {NoCache}, reestimates : {NoCache},
   spectrum_cache : {NoCache}, lower_tab : {"Correlation", "Spectrum"},
   pending_trim : Trims \cup {NoTrim}, panicked : BOOLEAN]

Cells == {h \in [id : Nat, corr : BOOLEAN, size : Sizes \cup {NoSize}] : h.size # NoSize => h.corr}

HeapOK ==
  /\ heap \in [Addresses -> Cells] /\ published \in Nat
  /\ cell \in Addresses \cup {NoSnapshot}

TrimsOK ==
  /\ trim \in Trims /\ queue \in Seq(Trims) /\ wanted \in Trims
  /\ alone \in BOOLEAN /\ taken \in BOOLEAN

Good(s) == \/ s \in Blank
           \/ s.snapshot \in Addresses /\ s \in StateOf(s.snapshot, heap[s.snapshot].id)

CacheInv == HeapOK /\ TrimsOK /\ Good(state) /\ stale = {}

-----------------------------------------------------------------------------
LEMMA NoTrimOutside == NoTrim \notin Trims /\ NoTrim \in Int /\ Trims \subseteq Int /\ 0 \in Trims
BY EditorAssumption DEF NoTrim, Trims

LEMMA DefaultBlank == DefaultState \in Blank /\ after_panic \in Blank
BY DEF DefaultState, after_panic, Blank

(***************************************************************************)
(* Picking up the cell's snapshot, and letting go of an applied edit.      *)
(***************************************************************************)
LEMMA PickUpGood ==
  ASSUME HeapOK, NEW s, Good(s)
  PROVE  /\ Good(PickUp(s)) /\ PickUp(s).snapshot = cell
         /\ PickUp(s).pending_trim = s.pending_trim /\ PickUp(s).panicked = s.panicked
<1>1. CASE s.snapshot = cell  BY <1>1 DEF PickUp
<1>2. CASE s.snapshot # cell
  <2>1. s.lower_tab \in {"Correlation", "Spectrum"} /\ s.pending_trim \in Trims \cup {NoTrim}
        /\ s.panicked \in BOOLEAN
    BY DEF Good, Blank, StateOf
  <2>2. CASE cell = NoSnapshot  BY <1>2, <2>1, <2>2 DEF PickUp, Good, Blank
  <2>3. CASE cell \in Addresses
    BY <1>2, <2>1, <2>3 DEF PickUp, Good, StateOf, Waves, Corrs, Reestimated, Spectra
  <2>. QED  BY <2>2, <2>3 DEF HeapOK
<1>. QED  BY <1>1, <1>2

LEMMA CaughtGood ==
  ASSUME NEW s, Good(s)
  PROVE  /\ Good(Caught(s)) /\ Caught(s).snapshot = s.snapshot /\ Caught(s).panicked = s.panicked
         /\ Caught(s).pending_trim = IF s.pending_trim = trim THEN NoTrim ELSE s.pending_trim
BY DEF Caught, Good, Blank, StateOf

LEMMA TabGood ==
  ASSUME NEW s, Good(s), NEW tab \in {"Correlation", "Spectrum"}
  PROVE  /\ Good([s EXCEPT !.lower_tab = tab])
         /\ [s EXCEPT !.lower_tab = tab].pending_trim = s.pending_trim
         /\ [s EXCEPT !.lower_tab = tab].panicked = s.panicked
BY DEF Good, Blank, StateOf

LEMMA PendingGood ==
  ASSUME NEW s, Good(s), NEW t \in Trims
  PROVE  /\ Good([s EXCEPT !.pending_trim = t])
         /\ [s EXCEPT !.pending_trim = t].pending_trim = t
         /\ [s EXCEPT !.pending_trim = t].panicked = s.panicked
BY DEF Good, Blank, StateOf

-----------------------------------------------------------------------------
(***************************************************************************)
(* The panels.  What each cache holds after a frame that drew from it.     *)
(***************************************************************************)
WaveNow(a, id, net) == [snap |-> a, net |-> net, reference |-> id, main |-> <<id, net>>, gain |-> id]
CorrNow(a, id)      == [snap |-> a, curve |-> id, max_abs |-> id]
SpectrumNow(a, id, n, net) ==
  [snap |-> a, size |-> n, net |-> net, captured |-> <<id, n>>, corrected |-> <<id, n, net>>]

LEMMA ShowWaveNow ==
  ASSUME NEW a \in Addresses, NEW cache \in Waves(a, heap[a].id), NEW net \in Trims,
         NEW moved \in BOOLEAN
  PROVE  ShowWave(cache, a, net, moved) = WaveNow(a, heap[a].id, net)
<1>1. CASE cache = NoCache
  BY <1>1, EditorAssumption DEF ShowWave, Keyed, NoCache, WaveNow
<1>2. CASE cache # NoCache
  <2>1. PICK m \in Trims : cache = WaveNow(a, heap[a].id, m)  BY <1>2 DEF Waves, WaveNow
  <2>. QED  BY <2>1 DEF ShowWave, Keyed, WaveNow
<1>. QED  BY <1>1, <1>2

LEMMA ShowCorrNow ==
  ASSUME NEW a \in Addresses, NEW cache \in Corrs(a, heap[a].id), NEW moved \in BOOLEAN
  PROVE  ShowCorr(cache, a, moved) = CorrNow(a, heap[a].id)
BY EditorAssumption DEF ShowCorr, Keyed, NoCache, Corrs, CorrNow

LEMMA EstimatedGood ==
  ASSUME NEW a \in Addresses, NEW cache \in Reestimated(a, heap[a].id), NEW n \in Sizes,
         heap[a].corr
  PROVE  LET re == Estimated(Reestimates(cache, a), a, n) IN
         /\ Reestimates(cache, a) \in Reestimated(a, heap[a].id)
         /\ re \in Reestimated(a, heap[a].id)
         /\ n # heap[a].size => \E e \in re.entries : e.size = n
         /\ \A e \in re.entries : e.id = heap[a].id
<1> DEFINE id == heap[a].id
           re == Reestimates(cache, a)
<1>1. PICK E \in SUBSET Entries(id) : re = [snap |-> a, entries |-> E]
  BY EditorAssumption DEF Reestimates, Keyed, NoCache, Reestimated
<1>2. CASE n = heap[a].size \/ \E e \in E : e.size = n
  BY <1>1, <1>2 DEF Estimated, Reestimated, Entries
<1>3. CASE ~(n = heap[a].size \/ \E e \in E : e.size = n)
  <2>1. Estimated(re, a, n) = [snap |-> a, entries |-> E \cup {[size |-> n, id |-> id]}]
    BY <1>1, <1>3 DEF Estimated
  <2>2. E \cup {[size |-> n, id |-> id]} \in SUBSET Entries(id)  BY DEF Entries
  <2> DEFINE F == E \cup {[size |-> n, id |-> id]}
  <2>3. [snap |-> a, entries |-> F].entries = F /\ [snap |-> a, entries |-> F] \in Reestimated(a, id)
    BY <2>2 DEF Reestimated
  <2>6. [size |-> n, id |-> id] \in F /\ [size |-> n, id |-> id].size = n  OBVIOUS
  <2>7. \A e \in F : e.id = id  BY <2>2 DEF Entries
  <2>4. (\E e \in F : e.size = n) /\ (\A e \in F : e.id = id)  BY <2>6, <2>7
  <2>5. re \in Reestimated(a, id)  BY <1>1 DEF Reestimated
  <2>. QED  BY <2>1, <2>3, <2>4, <2>5
<1>. QED  BY <1>2, <1>3

LEMMA ShowSpectrumNow ==
  ASSUME NEW a \in Addresses, NEW cache \in Spectra(a, heap[a].id), NEW re, NEW n \in Sizes,
         n # heap[a].size => \E e \in re.entries : e.size = n,
         \A e \in re.entries : e.id = heap[a].id, NEW net \in Trims, NEW moved \in BOOLEAN
  PROVE  ShowSpectrum(cache, re, a, n, net, moved) = SpectrumNow(a, heap[a].id, n, net)
<1> DEFINE id == heap[a].id
           source == IF n = heap[a].size THEN id ELSE (CHOOSE e \in re.entries : e.size = n).id
<1>1. source = id
  <2>1. CASE n = heap[a].size  BY <2>1
  <2>2. CASE n # heap[a].size
    <3>1. (CHOOSE e \in re.entries : e.size = n) \in re.entries  BY <2>2
    <3>. QED  BY <2>2, <3>1
  <2>. QED  BY <2>1, <2>2
<1>2. CASE cache = NoCache
  BY <1>1, <1>2, EditorAssumption DEF ShowSpectrum, Keyed, NoCache, SpectrumNow
<1>3. CASE cache # NoCache
  <2>1. PICK k \in Sizes, m \in Trims : cache = SpectrumNow(a, id, k, m)
    BY <1>3 DEF Spectra, SpectrumNow
  <2>. QED  BY <1>1, <2>1 DEF ShowSpectrum, Keyed, SpectrumNow
<1>. QED  BY <1>2, <1>3

LEMMA PanelsGood ==
  ASSUME HeapOK, NEW s, Good(s), s.snapshot = cell, NEW n \in Sizes, NEW net \in Trims,
         NEW moved \in BOOLEAN
  PROVE  LET p == Panels(s, n, net, moved) IN
         /\ Good(p) /\ StaleCurves(p, net) = {}
         /\ p.pending_trim = s.pending_trim /\ p.panicked = s.panicked
<1> DEFINE p == Panels(s, n, net, moved)
<1>1. CASE cell = NoSnapshot
  <2>1. s \in Blank  BY <1>1, EditorAssumption DEF Good
  <2>2. p = IF s.lower_tab = "Spectrum" THEN [s EXCEPT !.reestimates = NoCache] ELSE s
    BY <1>1 DEF Panels
  <2>3. p \in Blank /\ p.pending_trim = s.pending_trim /\ p.panicked = s.panicked
    BY <2>1, <2>2 DEF Blank
  <2>. QED  BY <2>3 DEF Good, StaleCurves, Blank
<1>2. CASE cell \in Addresses
  <2> DEFINE a  == cell
             id == heap[cell].id
             w  == [s EXCEPT !.wave = WaveNow(a, id, net)]
  <2>1. s \in StateOf(a, id) /\ a # NoSnapshot /\ id \in Nat /\ heap[a] \in Cells
    BY <1>2, EditorAssumption DEF Good, Blank, HeapOK, Cells
  <2>2. /\ s.wave \in Waves(a, id) /\ s.corr_cache \in Corrs(a, id)
        /\ s.reestimates \in Reestimated(a, id) /\ s.spectrum_cache \in Spectra(a, id)
    BY <2>1 DEF StateOf
  <2>3. [s EXCEPT !.wave = ShowWave(@, a, net, moved)] = w
    BY <1>2, <2>2, ShowWaveNow
  <2>4. w \in StateOf(a, id) /\ w.wave = WaveNow(a, id, net)
        /\ w.pending_trim = s.pending_trim /\ w.panicked = s.panicked
        /\ w.snapshot = a /\ w.lower_tab = s.lower_tab /\ w.corr_cache = s.corr_cache
        /\ w.reestimates = s.reestimates /\ w.spectrum_cache = s.spectrum_cache
    <3>1. WaveNow(a, id, net) \in Waves(a, id)  BY DEF Waves, WaveNow
    <3>. QED  BY <2>1, <3>1 DEF StateOf
  <2>. HIDE DEF w, id
  <2>5. CASE s.lower_tab = "Correlation"
    <3>1. p = IF heap[a].corr THEN [w EXCEPT !.corr_cache = CorrNow(a, id)] ELSE w
      BY <1>2, <2>1, <2>2, <2>3, <2>4, <2>5, ShowCorrNow DEF Panels, id
    <3>2. CorrNow(a, id) \in Corrs(a, id)  BY DEF Corrs, CorrNow
    <3>3. /\ p \in StateOf(a, id) /\ p.snapshot = a /\ p.lower_tab = "Correlation"
          /\ p.pending_trim = s.pending_trim /\ p.panicked = s.panicked
          /\ p.wave = WaveNow(a, id, net)
          /\ heap[a].corr => p.corr_cache = CorrNow(a, id)
      BY <2>4, <2>5, <3>1, <3>2 DEF StateOf
    <3>4. StaleCurves(p, net) = {}
      BY <2>1, <3>3 DEF StaleCurves, WaveNow, CorrNow, id
    <3>. QED  BY <1>2, <3>3, <3>4 DEF Good, id
  <2>6. CASE s.lower_tab = "Spectrum" /\ heap[a].size = NoSize
    <3> DEFINE re == Reestimates(s.reestimates, a)
    <3>1. p = [w EXCEPT !.reestimates = re]
      BY <2>1, <2>3, <2>6 DEF Panels, id
    <3>2. re \in Reestimated(a, id)
      BY <1>2, <2>2 DEF Reestimates, Reestimated, id
    <3>3. /\ p \in StateOf(a, id) /\ p.snapshot = a /\ p.lower_tab = "Spectrum"
          /\ p.pending_trim = s.pending_trim /\ p.panicked = s.panicked
          /\ p.wave = WaveNow(a, id, net)
      BY <2>4, <2>6, <3>1, <3>2 DEF StateOf
    <3>4. StaleCurves(p, net) = {}
      BY <2>1, <2>6, <3>3 DEF StaleCurves, WaveNow, id
    <3>. QED  BY <1>2, <3>3, <3>4 DEF Good, id
  <2>7. CASE s.lower_tab = "Spectrum" /\ heap[a].size # NoSize
    <3> DEFINE est == Estimated(Reestimates(s.reestimates, a), a, n)
               v   == [w EXCEPT !.reestimates = est]
    <3>1. heap[a].corr  BY <2>1, <2>7 DEF Cells
    <3>2. /\ est \in Reestimated(a, id)
          /\ n # heap[a].size => \E e \in est.entries : e.size = n
          /\ \A e \in est.entries : e.id = heap[a].id
      BY <1>2, <2>2, <3>1, EstimatedGood DEF id
    <3>. HIDE DEF est
    <3>3. ShowSpectrum(s.spectrum_cache, est, a, n, net, moved) = SpectrumNow(a, id, n, net)
      BY <1>2, <2>2, <3>2, ShowSpectrumNow DEF id
    <3>4. p = [w EXCEPT !.reestimates = est, !.spectrum_cache = SpectrumNow(a, id, n, net)]
      BY <2>1, <2>3, <2>4, <2>7, <3>3 DEF Panels, est, id
    <3>5. SpectrumNow(a, id, n, net) \in Spectra(a, id)  BY DEF Spectra, SpectrumNow
    <3>6. /\ p \in StateOf(a, id) /\ p.snapshot = a /\ p.lower_tab = "Spectrum"
          /\ p.pending_trim = s.pending_trim /\ p.panicked = s.panicked
          /\ p.wave = WaveNow(a, id, net)
          /\ p.spectrum_cache = SpectrumNow(a, id, n, net)
      BY <2>4, <2>7, <3>2, <3>4, <3>5 DEF StateOf
    <3>7. StaleCurves(p, net) = {}
      BY <2>1, <2>7, <3>6 DEF StaleCurves, WaveNow, SpectrumNow, id
    <3>. QED  BY <1>2, <3>6, <3>7 DEF Good, id
  <2>. QED  BY <2>1, <2>5, <2>6, <2>7 DEF StateOf
<1>. QED  BY <1>1, <1>2 DEF HeapOK

-----------------------------------------------------------------------------
(***************************************************************************)
(* The steps.                                                              *)
(***************************************************************************)
LEMMA SnapType == ASSUME NEW t \in Int PROVE snap_trim(t) \in Trims
BY EditorAssumption DEF snap_trim, Trims

(***************************************************************************)
(* What is pending is what the nudges so far ask for, and unless an edit   *)
(* was taken for applied too early it is let go of only with nothing       *)
(* queued behind it.                                                       *)
(***************************************************************************)
NudgeInv ==
  /\ alone /\ ~taken => Base(state) = wanted /\ (state.pending_trim = NoTrim => queue = <<>>)
  /\ state.panicked => ~alone

IInv == CacheInv /\ NudgeInv

LEMMA FrameKeeps ==
  ASSUME IInv, NEW n \in Sizes, NEW align_on \in BOOLEAN, NEW moved \in BOOLEAN,
         Frame(n, align_on, moved)
  PROVE  IInv'
<1> DEFINE net == IF align_on THEN trim ELSE 0
           u == Caught(PickUp(state))
           s == Panels(u, n, net, moved)
<1>1. /\ HeapOK /\ TrimsOK /\ Good(state) /\ net \in Trims
      /\ ~state.panicked /\ stale' = StaleCurves(s, net) /\ UNCHANGED snapshots
  BY NoTrimOutside DEF IInv, CacheInv, TrimsOK, Frame
<1>2. Good(u) /\ u.snapshot = cell /\ u.panicked = state.panicked
      /\ u.pending_trim = IF state.pending_trim = trim THEN NoTrim ELSE state.pending_trim
  BY <1>1, PickUpGood, CaughtGood
<1>. HIDE DEF u, net
<1>3. /\ Good(s) /\ StaleCurves(s, net) = {} /\ s.panicked = state.panicked
      /\ s.pending_trim = IF state.pending_trim = trim THEN NoTrim ELSE state.pending_trim
  BY <1>1, <1>2, PanelsGood
<1>4. \/ Untouched(s) \/ SwitchTab(s)
      \/ align_on /\ \E step \in {-1, 1} : handle_trim_nudge(s, step)
      \/ \E t \in Trims : Slide(s, t)
  BY DEF Frame, u, net
<1>. HIDE DEF s
<1>5. s.pending_trim \in Trims \cup {NoTrim} /\ s.lower_tab \in {"Correlation", "Spectrum"}
  BY <1>3 DEF Good, Blank, StateOf
<1>6. Base(s) \in Trims /\ WantedNow(s) \in Trims
      /\ AloneNow(s) \in BOOLEAN /\ TakenNow(s) \in BOOLEAN
  BY <1>1, <1>5 DEF Base, WantedNow, AloneNow, TakenNow, Settled, TrimsOK
<1>7. AloneNow(s) /\ ~TakenNow(s) =>
        Base(s) = WantedNow(s) /\ (s.pending_trim = NoTrim => queue = <<>>)
  BY <1>3, NoTrimOutside, <1>1
  DEF IInv, NudgeInv, AloneNow, TakenNow, WantedNow, Settled, TakenTooEarly, Base, TrimsOK
<1>8. CASE Untouched(s)
  BY <1>1, <1>3, <1>6, <1>7, <1>8
  DEF Untouched, IInv, CacheInv, NudgeInv, HeapOK, TrimsOK, Good, snapshots, Base
<1>9. CASE SwitchTab(s)
  <2>1. PICK tab \in {"Correlation", "Spectrum"} : Untouched([s EXCEPT !.lower_tab = tab])
    BY <1>9, <1>5 DEF SwitchTab
  <2> DEFINE q == [s EXCEPT !.lower_tab = tab]
  <2>2. Good(q) /\ q.pending_trim = s.pending_trim /\ q.panicked = s.panicked
    BY <1>3, TabGood
  <2>3. Untouched(q)  BY <2>1
  <2>. HIDE DEF q
  <2>4. /\ Base(q) = Base(s) /\ WantedNow(q) = WantedNow(s)
        /\ AloneNow(q) = AloneNow(s) /\ TakenNow(q) = TakenNow(s)
    BY <2>2 DEF Base, WantedNow, AloneNow, TakenNow, Settled, TakenTooEarly
  <2>. QED
    BY <1>1, <1>3, <1>6, <1>7, <2>2, <2>3, <2>4
    DEF Untouched, IInv, CacheInv, NudgeInv, HeapOK, TrimsOK, Good, snapshots, Base
<1>10. ASSUME NEW step \in {-1, 1}, handle_trim_nudge(s, step) PROVE IInv'
  <2> DEFINE new == snap_trim(Base(s) + step)
             q == [s EXCEPT !.pending_trim = new]
  <2>1. new \in Trims /\ snap_trim(WantedNow(s) + step) \in Trims
    <3>1. \A b \in Trims : b + step \in Int  BY NoTrimOutside
    <3>. QED  BY <1>6, <3>1, SnapType
  <2>2. Good(q) /\ q.pending_trim = new /\ q.panicked = s.panicked
    BY <1>3, <2>1, PendingGood
  <2>3. /\ state' = q /\ trim' = trim /\ alone' = AloneNow(s) /\ taken' = TakenNow(s)
        /\ wanted' = snap_trim(WantedNow(s) + step)
        /\ queue' = queue \/ queue' = Append(queue, new)
        /\ AloneNow(s) /\ ~TakenNow(s) => wanted' = new
    BY <1>7, <1>10 DEF handle_trim_nudge, set_parameter
  <2>. HIDE DEF new, q
  <2>4. TrimsOK'  BY <1>1, <1>6, <2>1, <2>3 DEF TrimsOK
  <2>5. new # NoTrim  BY <2>1, NoTrimOutside
  <2>6. NudgeInv'  BY <1>1, <1>3, <2>2, <2>3, <2>5 DEF NudgeInv, Base
  <2>. QED  BY <1>1, <1>3, <2>2, <2>3, <2>4, <2>6 DEF IInv, CacheInv, HeapOK, Good, snapshots
<1>11. ASSUME NEW t \in Trims, Slide(s, t) PROVE IInv'
  <2>1. queue' \in Seq(Trims)  BY <1>1, <1>11 DEF Slide, set_parameter, TrimsOK
  <2>2. state' = s /\ wanted' = t /\ alone' = FALSE /\ taken' = TakenNow(s) /\ trim' = trim
    BY <1>11 DEF Slide
  <2>3. TrimsOK'  BY <1>1, <1>6, <2>1, <2>2 DEF TrimsOK
  <2>. QED
    BY <1>1, <1>3, <2>2, <2>3 DEF IInv, CacheInv, NudgeInv, HeapOK, Good, snapshots
<1>. QED  BY <1>4, <1>8, <1>9, <1>10, <1>11

LEMMA Step == ASSUME IInv, [Next]_vars PROVE IInv'
<1>1. ASSUME Publish PROVE IInv'
  <2>1. PICK a \in Addresses \ {cell, state.snapshot}, k \in Kinds :
          /\ heap' = [heap EXCEPT ![a] = [id |-> published + 1, corr |-> k.corr, size |-> k.size]]
          /\ cell' = a
    BY <1>1 DEF Publish
  <2>2. [id |-> published + 1, corr |-> k.corr, size |-> k.size] \in Cells
    <3>1. ASSUME NEW c \in BOOLEAN, NEW z \in Sizes \cup {NoSize}, z # NoSize => c,
                 k = [corr |-> c, size |-> z]
          PROVE  [id |-> published + 1, corr |-> k.corr, size |-> k.size] \in Cells
      <4>1. k.corr = c /\ k.size = z  BY <3>1
      <4>2. published + 1 \in Nat  BY DEF IInv, CacheInv, HeapOK
      <4>. QED  BY <3>1, <4>1, <4>2 DEF Cells
    <3>2. CASE k = [corr |-> FALSE, size |-> NoSize]  BY <3>1, <3>2
    <3>3. CASE k = [corr |-> TRUE, size |-> NoSize]  BY <3>1, <3>3
    <3>4. ASSUME NEW n \in Sizes, k = [corr |-> TRUE, size |-> n]
          PROVE  [id |-> published + 1, corr |-> k.corr, size |-> k.size] \in Cells
      BY <3>1, <3>4
    <3>. QED  BY <2>1, <3>2, <3>3, <3>4 DEF Kinds
  <2>3. HeapOK'  BY <1>1, <2>1, <2>2 DEF Publish, HeapOK, IInv, CacheInv
  <2>4. state.snapshot \in Addresses => heap'[state.snapshot] = heap[state.snapshot]
    BY <2>1 DEF HeapOK, IInv, CacheInv
  <2>. QED  BY <1>1, <2>3, <2>4 DEF Publish, trims, IInv, CacheInv, Good, TrimsOK, NudgeInv, Base
<1>2. ASSUME Clear PROVE IInv'
  BY <1>2 DEF Clear, trims, IInv, CacheInv, HeapOK, Good, TrimsOK, NudgeInv, Base
<1>3. ASSUME NEW n \in Sizes, NEW align_on \in BOOLEAN, NEW moved \in BOOLEAN,
             Frame(n, align_on, moved)
      PROVE  IInv'
  BY <1>3, FrameKeeps
<1>4. ASSUME PanicScreen PROVE IInv'
  BY <1>4, DefaultBlank
  DEF PanicScreen, snapshots, trims, IInv, CacheInv, HeapOK, Good, TrimsOK, NudgeInv
<1>5. ASSUME FramePanics PROVE IInv'
  <2>1. queue' \in Seq(Trims)
    BY <1>5 DEF FramePanics, set_parameter, IInv, CacheInv, TrimsOK
  <2>. QED
    BY <1>5, <2>1, DefaultBlank
    DEF FramePanics, snapshots, IInv, CacheInv, HeapOK, Good, TrimsOK, NudgeInv
<1>6. ASSUME handle_out_events PROVE IInv'
  BY <1>6 DEF handle_out_events, snapshots, IInv, CacheInv, HeapOK, Good, TrimsOK, NudgeInv, Base
<1>7. ASSUME NEW t \in Trims, HostSets(t) PROVE IInv'
  BY <1>7 DEF HostSets, snapshots, IInv, CacheInv, HeapOK, Good, TrimsOK, NudgeInv, Base, Settled
<1>8. CASE UNCHANGED vars
  BY <1>8 DEF vars, snapshots, trims, IInv, CacheInv, HeapOK, Good, TrimsOK, NudgeInv, Base
<1>. QED  BY <1>1, <1>2, <1>3, <1>4, <1>5, <1>6, <1>7, <1>8 DEF Next

LEMMA InitHolds == ASSUME Init PROVE IInv
<1>1. HeapOK  BY DEF Init, HeapOK, Cells
<1>2. TrimsOK
  <2>1. queue \in Seq(Trims)  BY DEF Init
  <2>. QED  BY <2>1, NoTrimOutside DEF Init, TrimsOK
<1>3. Good(state) /\ state.pending_trim = NoTrim /\ ~state.panicked
  BY DefaultBlank DEF Init, Good, DefaultState
<1>. QED  BY <1>1, <1>2, <1>3 DEF Init, IInv, CacheInv, NudgeInv, Base

LEMMA Always == Spec => []IInv
BY InitHolds, Step, PTL DEF Spec

(***************************************************************************)
(* A frame draws the snapshot in the cell and the shift applied now, even  *)
(* at an address that has held another snapshot before.                    *)
(***************************************************************************)
THEOREM FramesCurrent == Spec => []FramesShowCurrent
<1>1. IInv => FramesShowCurrent  BY DEF IInv, CacheInv, FramesShowCurrent
<1>. QED  BY Always, <1>1, PTL

(***************************************************************************)
(* Nudges alone, none taken for applied too early, add up for the next one *)
(* to start from, with any number of them still queued or lost.            *)
(***************************************************************************)
THEOREM NudgesAddUp == Spec => []NudgesBuild
<1>1. IInv => NudgesBuild  BY DEF IInv, NudgeInv, NudgesBuild
<1>. QED  BY Always, <1>1, PTL
=============================================================================
