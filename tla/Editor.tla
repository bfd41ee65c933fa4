------------------------------- MODULE Editor -------------------------------
(***************************************************************************)
(* The editor's frames.  A frame runs on the GUI thread under an unwind    *)
(* boundary: it picks up the published snapshot, lets go of a trim edit    *)
(* the host has applied, draws the panels from caches keyed by the         *)
(* snapshot's address, and queues the parameter edits the user makes.      *)
(* The audio thread drains the queue, the analysis task and state loads    *)
(* replace the snapshot, and the host writes the trim on its own account.  *)
(*                                                                         *)
(* A snapshot is what the heap holds at an address; the address is free    *)
(* again as soon as neither the cell nor the editor holds it.  A curve is  *)
(* known by what it was computed from.  View, width and the ghost toggle   *)
(* are in every envelope's key, so a frame says only whether they moved;   *)
(* net stands for the applied shift together with the flip.  A closed      *)
(* window draws no frames and keeps its state.                             *)
(*                                                                         *)
(* The graphs and the trim meet only in the shift a frame draws.  To keep  *)
(* the state space small a behaviour has one subject: either snapshots     *)
(* come and go, or the user edits the trim; the host writes the trim in    *)
(* both.                                                                   *)
(***************************************************************************)
EXTENDS Integers, Sequences, SequencesExt

CONSTANTS
  Addresses,      \* where an AnalysisSnapshot may be allocated
  Sizes,          \* segment sizes a selection may resolve to
  TRIM_RANGE,     \* the trim range, in steps of 0.01 ms
  MaxSnapshots,   \* bound: snapshots published in a behaviour
  MaxQueue        \* bound: queued parameter edits

NoSnapshot == "NoSnapshot"

ASSUME EditorAssumption ==
  /\ TRIM_RANGE \in Nat /\ MaxSnapshots \in Nat /\ MaxQueue \in Nat
  /\ Sizes \subseteq Nat \ {0} /\ NoSnapshot \notin Addresses

NoCache == [snap |-> NoSnapshot]
NoTrim == TRIM_RANGE + 1
NoSize == 0

VARIABLES
  heap,       \* what was last allocated at each address: [id, corr, size]
  published,  \* how many snapshots there have been
  cell,       \* the address in the SnapshotCell, or NoSnapshot
  state,      \* EditorState
  stale,      \* curves the last frame drew that were not the current ones
  trim,       \* the trim parameter
  queue,      \* SetValue events the audio thread has not drained
  wanted,     \* the trim last asked for, by whoever asked
  subject,    \* bound: what the editor's user does in this behaviour
  alone,      \* history: since the trim was settled nobody but the nudges wrote it
  taken       \* history: since then an edit still queued was taken for applied

snapshots == <<heap, published, cell>>
trims == <<trim, queue, wanted, alone, taken, subject>>
vars == <<snapshots, state, stale, trims>>

Trims == -TRIM_RANGE .. TRIM_RANGE
Kinds == {[corr |-> FALSE, size |-> NoSize], [corr |-> TRUE, size |-> NoSize]}
           \cup {[corr |-> TRUE, size |-> n] : n \in Sizes}

-----------------------------------------------------------------------------
DefaultState ==
  [snapshot |-> NoSnapshot, wave |-> NoCache, corr_cache |-> NoCache,
   reestimates |-> NoCache, spectrum_cache |-> NoCache,
   lower_tab |-> "Correlation", pending_trim |-> NoTrim, panicked |-> FALSE]

after_panic == [DefaultState EXCEPT !.panicked = TRUE]

(***************************************************************************)
(* The task and the state load allocate a snapshot before they store it,   *)
(* which drops the cell's hold on the old one.                             *)
(***************************************************************************)
Publish ==
  /\ subject = "graphs" /\ published < MaxSnapshots
  /\ \E a \in Addresses \ {cell, state.snapshot}, k \in Kinds :
       /\ heap' = [heap EXCEPT ![a] = [id |-> published + 1, corr |-> k.corr, size |-> k.size]]
       /\ cell' = a
  /\ published' = published + 1
  /\ UNCHANGED <<state, stale, trims>>

Clear ==
  /\ cell # NoSnapshot
  /\ cell' = NoSnapshot
  /\ UNCHANGED <<heap, published, state, stale, trims>>

-----------------------------------------------------------------------------
(***************************************************************************)
(* Snapshots are compared by address.  MutPickUp is a mutant that leaves   *)
(* the re-estimated spectra to the Spectrum panel's own check.             *)
(***************************************************************************)
MutPickUp(s) ==
  IF s.snapshot = cell THEN s
  ELSE [s EXCEPT !.snapshot = cell, !.wave = NoCache, !.corr_cache = NoCache,
                 !.spectrum_cache = NoCache]

PickUp(s) ==
  IF s.snapshot = cell THEN s
  ELSE [snapshot |-> cell, wave |-> NoCache, corr_cache |-> NoCache, reestimates |-> NoCache,
        spectrum_cache |-> NoCache, lower_tab |-> s.lower_tab,
        pending_trim |-> s.pending_trim, panicked |-> s.panicked]

(***************************************************************************)
(* An edit the host has applied is no longer pending.                      *)
(***************************************************************************)
Caught(s) == IF s.pending_trim = trim THEN [s EXCEPT !.pending_trim = NoTrim] ELSE s

Keyed(cache, a) == cache.snap = a

(***************************************************************************)
(* The gain and the largest |value| depend on the snapshot alone and are   *)
(* kept when the view moves.                                               *)
(***************************************************************************)
ShowWave(cache, a, net, moved) ==
  LET id == heap[a].id
      static == Keyed(cache, a) /\ ~moved
  IN [snap |-> a, net |-> net,
      reference |-> IF static THEN cache.reference ELSE id,
      main |-> IF static /\ cache.net = net THEN cache.main ELSE <<id, net>>,
      gain |-> IF Keyed(cache, a) THEN cache.gain ELSE id]

ShowCorr(cache, a, moved) ==
  LET id == heap[a].id
  IN [snap |-> a,
      curve |-> IF Keyed(cache, a) /\ ~moved THEN cache.curve ELSE id,
      max_abs |-> IF Keyed(cache, a) THEN cache.max_abs ELSE id]

(***************************************************************************)
(* The selector's state: made anew for an address it does not know, none   *)
(* without a correlation curve; a size is estimated once.                  *)
(***************************************************************************)
Reestimates(cache, a) ==
  IF Keyed(cache, a) THEN cache
  ELSE IF heap[a].corr THEN [snap |-> a, entries |-> {}] ELSE NoCache

Estimated(re, a, n) ==
  IF n = heap[a].size \/ \E e \in re.entries : e.size = n THEN re
  ELSE [re EXCEPT !.entries = @ \cup {[size |-> n, id |-> heap[a].id]}]

ShowSpectrum(cache, re, a, n, net, moved) ==
  LET source == IF n = heap[a].size THEN heap[a].id
                ELSE (CHOOSE e \in re.entries : e.size = n).id
      static == Keyed(cache, a) /\ cache.size = n /\ ~moved
  IN [snap |-> a, size |-> n, net |-> net,
      captured |-> IF static THEN cache.captured ELSE <<source, n>>,
      corrected |-> IF static /\ cache.net = net THEN cache.corrected ELSE <<source, n, net>>]

(***************************************************************************)
(* The two panels of a frame.  Without a snapshot, or what the lower panel *)
(* would draw from it, a message is drawn instead and the cache left.      *)
(***************************************************************************)
Panels(s, n, net, moved) ==
  LET a == s.snapshot
      re == Reestimates(s.reestimates, a)
      w == [s EXCEPT !.wave = ShowWave(@, a, net, moved)]
  IN CASE a = NoSnapshot ->
            IF s.lower_tab = "Spectrum" THEN [s EXCEPT !.reestimates = NoCache] ELSE s
       [] a # NoSnapshot /\ s.lower_tab = "Correlation" ->
            IF heap[a].corr THEN [w EXCEPT !.corr_cache = ShowCorr(@, a, moved)] ELSE w
       [] OTHER ->
            IF heap[a].size = NoSize THEN [w EXCEPT !.reestimates = re]
            ELSE LET est == Estimated(re, a, n)
                 IN [w EXCEPT !.reestimates = est,
                              !.spectrum_cache = ShowSpectrum(@, est, a, n, net, moved)]

(***************************************************************************)
(* What these panels drew that is not of the snapshot in the cell.         *)
(***************************************************************************)
StaleCurves(s, net) ==
  IF s.snapshot = NoSnapshot THEN {}
  ELSE LET id == heap[cell].id
           wave == {<<"reference", s.wave.reference>>, <<"main", s.wave.main>>,
                    <<"gain", s.wave.gain>>} \ {<<"reference", id>>, <<"main", <<id, net>>>>,
                    <<"gain", id>>}
           corr == {<<"curve", s.corr_cache.curve>>, <<"max_abs", s.corr_cache.max_abs>>}
                     \ {<<"curve", id>>, <<"max_abs", id>>}
           n == s.spectrum_cache.size
           spectrum == {<<"captured", s.spectrum_cache.captured>>,
                        <<"corrected", s.spectrum_cache.corrected>>}
                         \ {<<"captured", <<id, n>>>>, <<"corrected", <<id, n, net>>>>}
       IN wave \cup (IF s.lower_tab = "Correlation"
                     THEN IF heap[cell].corr THEN corr ELSE {}
                     ELSE IF heap[cell].size # NoSize THEN spectrum ELSE {})

-----------------------------------------------------------------------------
(***************************************************************************)
(* Parameter edits.  set_parameter only queues the value; a full queue     *)
(* loses it.  A nudge starts from the edit still pending.  MutBase is a    *)
(* mutant that always starts from the parameter.                           *)
(***************************************************************************)
MutBase(s) == trim
Base(s) == IF s.pending_trim = NoTrim THEN trim ELSE s.pending_trim

snap_trim(t) == IF t > TRIM_RANGE THEN TRIM_RANGE ELSE IF t < -TRIM_RANGE THEN -TRIM_RANGE ELSE t

set_parameter(t) ==
  /\ subject = "trim"
  /\ UNCHANGED subject
  /\ queue' = IF Len(queue) < MaxQueue THEN Append(queue, t) ELSE queue

(***************************************************************************)
(* Settled: nothing is pending or queued, and the parameter is what is     *)
(* wanted.  A nudge back to the value the parameter still has looks        *)
(* applied while it is queued behind others: the frame that takes it for   *)
(* applied lets the next nudge start from a parameter on its way.          *)
(***************************************************************************)
Settled(s) == s.pending_trim = NoTrim /\ queue = <<>>
TakenTooEarly(s) == s.pending_trim # state.pending_trim /\ queue # <<>>
WantedNow(s) == IF Settled(s) THEN trim ELSE wanted
AloneNow(s) == Settled(s) \/ alone
TakenNow(s) == ~Settled(s) /\ (taken \/ TakenTooEarly(s))

Untouched(s) ==
  /\ state' = s
  /\ wanted' = WantedNow(s) /\ alone' = AloneNow(s) /\ taken' = TakenNow(s)
  /\ UNCHANGED <<trim, queue, subject>>

SwitchTab(s) == Untouched([s EXCEPT !.lower_tab = IF @ = "Spectrum" THEN "Correlation" ELSE "Spectrum"])

handle_trim_nudge(s, step) ==
  LET new == snap_trim(Base(s) + step)
  IN /\ set_parameter(new)
     /\ state' = [s EXCEPT !.pending_trim = new]
     /\ wanted' = snap_trim(WantedNow(s) + step)
     /\ alone' = AloneNow(s) /\ taken' = TakenNow(s)
     /\ UNCHANGED trim

(***************************************************************************)
(* The slider queues a value of its own and knows nothing of a nudge.      *)
(***************************************************************************)
Slide(s, t) ==
  /\ set_parameter(t)
  /\ state' = s
  /\ wanted' = t /\ alone' = FALSE /\ taken' = TakenNow(s)
  /\ UNCHANGED trim

(***************************************************************************)
(* A frame that completes, one that shows the error screen, and one that   *)
(* panics anywhere: it leaves nothing of the state behind, but what it     *)
(* queued before stays queued.                                             *)
(***************************************************************************)
Frame(n, align_on, moved) ==
  LET net == IF align_on THEN trim ELSE 0
      s == Panels(Caught(PickUp(state)), n, net, moved)
  IN /\ ~state.panicked
     /\ stale' = StaleCurves(s, net)
     /\ \/ Untouched(s)
        \/ SwitchTab(s)
        \/ align_on /\ \E step \in {-1, 1} : handle_trim_nudge(s, step)
        \/ \E t \in Trims : Slide(s, t)
     /\ UNCHANGED snapshots

PanicScreen ==
  /\ state.panicked
  /\ state' = DefaultState
  /\ UNCHANGED <<snapshots, stale, trims>>

FramePanics ==
  /\ state' = after_panic
  /\ stale' = {}
  /\ \/ UNCHANGED <<queue, subject>>
     \/ ~state.panicked /\ \E t \in Trims : set_parameter(t)
  /\ alone' = FALSE
  /\ UNCHANGED <<snapshots, trim, wanted, taken>>

-----------------------------------------------------------------------------
(***************************************************************************)
(* The wrapper: queued edits are applied at the end of a block or by a     *)
(* flush; automation and state loads write the parameter at any time.      *)
(***************************************************************************)
handle_out_events ==
  /\ queue # <<>>
  /\ trim' = Head(queue)
  /\ queue' = Tail(queue)
  /\ UNCHANGED <<snapshots, state, stale, wanted, alone, taken, subject>>

HostSets(t) ==
  /\ trim' = t
  /\ wanted' = t
  /\ alone' = (alone /\ Settled(state))
  /\ UNCHANGED <<snapshots, state, stale, queue, taken, subject>>

-----------------------------------------------------------------------------
Init ==
  /\ heap = [a \in Addresses |-> [id |-> 0, corr |-> FALSE, size |-> NoSize]]
  /\ published = 0
  /\ cell = NoSnapshot
  /\ state = DefaultState
  /\ stale = {}
  /\ trim = 0 /\ queue = <<>> /\ wanted = 0 /\ alone = TRUE /\ taken = FALSE
  /\ subject \in {"graphs", "trim"}

Next ==
  \/ Publish \/ Clear
  \/ \E n \in Sizes, align_on, moved \in BOOLEAN : Frame(n, align_on, moved)
  \/ PanicScreen \/ FramePanics
  \/ handle_out_events
  \/ \E t \in Trims : HostSets(t)

Spec == Init /\ [][Next]_vars

-----------------------------------------------------------------------------
(***************************************************************************)
(* Whatever was freed and allocated in its place since, a completed frame  *)
(* draws every curve, gain and scale from the snapshot in the cell and     *)
(* with the shift applied now.                                             *)
(***************************************************************************)
FramesShowCurrent == stale = {}

(***************************************************************************)
(* As long as only nudges write the trim, and none of them was taken for   *)
(* applied while it was still queued, the next nudge starts from what the  *)
(* ones before asked for, however far the audio thread is behind and       *)
(* whether or not the queue had room for them.  The second condition is    *)
(* the code's own gap: it compares values (mod.rs:521-525), so that two    *)
(* nudges there and back again are taken for applied before either is, and *)
(* a third one starts from wherever the parameter then is.                 *)
(***************************************************************************)
NudgesBuild == alone /\ ~taken => Base(state) = wanted

=============================================================================
