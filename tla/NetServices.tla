---------------------------- MODULE NetServices ----------------------------
(***************************************************************************)
(* The opt-in network services of one process: the worker thread every     *)
(* instance shares (net.rs), the update check (update.rs) and the session  *)
(* report that carries an upgrade (analytics.rs), over the preferences.    *)
(* The threads are the worker, a worker being joined, and the thread an    *)
(* instance's editor, initialize() or background task runs on.             *)
(***************************************************************************)
EXTENDS Preferences, Sequences, FiniteSets

CONSTANTS
  Instances,
  Here,            \* the one process
  QUEUE_CAPACITY,
  MaxAnswers,      \* bound: what the user clicks in all
  MaxLives,        \* bound: times the host is started
  NoJob

ASSUME ServicesAssumption ==
  /\ Here \in Processes /\ QUEUE_CAPACITY \in Nat \ {0} /\ Instances # {}
  /\ MaxAnswers \in Nat /\ MaxLives \in Nat

VARIABLES
  version,         \* CARGO_PKG_VERSION of the bundle this process loaded
  loaded,          \* instances that exist
  attached,        \* those that hold the shared worker
  thread,          \* the current worker's thread and the one being joined
  queue,           \* and their channels
  closing,         \* how far Worker::drop has got
  status, in_flight,
  checker,         \* per instance: how far its call of check() has got
  session_sent, upgrade_claimed,
  sending,         \* per instance: the event send() is about to queue
  delivered,       \* history: upgrades whose report was posted
  answers, lives   \* what is left of the bounds

netVars == <<version, loaded, attached, thread, queue, closing, status, in_flight,
             checker, session_sent, upgrade_claimed, sending, delivered, answers, lives>>
vars == <<prefVars, netVars>>

Workers == {"live", "old"}
Config0 == cache[Here]

Event == [kind : {"event"}, from : Versions, commit : BOOLEAN]
Check == [kind : {"check"}, latest : Versions]
Job   == Event \cup Check

check_job == [kind |-> "check", latest |-> 0]

(***************************************************************************)
(* A thread that is not there, waits in recv(), or is at a step of a job.  *)
(***************************************************************************)
Absent == [at |-> "absent", job |-> NoJob]
Idle   == [at |-> "recv", job |-> NoJob]
Threads == {Absent, Idle} \cup
  [at : {"run", "commit", "save", "verdict", "guard", "flag"}, job : Job]

Statuses == [is : {"Unknown", "Checking", "UpToDate", "Failed"}, v : {0}]
              \cup [is : {"Available"}, v : Versions \ {0}]
Plain(s) == [is |-> s, v |-> 0]

is_newer(current, candidate) == candidate > current

\* The status a fresh process starts from, and the one a check ends with.
seeded(c, current) == IF is_newer(current, c.latest_seen)
                      THEN [is |-> "Available", v |-> c.latest_seen] ELSE Plain("Unknown")
verdict(current, latest) ==
  CASE is_newer(current, latest) -> [is |-> "Available", v |-> latest]
    [] latest # 0 /\ ~is_newer(current, latest) -> Plain("UpToDate")
    [] OTHER -> Plain("Failed")

NetTypeOK ==
  /\ version \in Versions \ {0}
  /\ attached \subseteq loaded /\ loaded \subseteq Instances
  /\ thread \in [Workers -> Threads]
  /\ queue \in [Workers -> Seq(Job)] /\ \A w \in Workers : Len(queue[w]) <= QUEUE_CAPACITY
  /\ closing \in {"no", "dead", "flagged", "joining"}
  /\ status \in Statuses /\ in_flight \in BOOLEAN
  /\ checker \in [Instances -> {"no", "claimed", "announced", "guard", "flag"}]
  /\ session_sent \subseteq Instances /\ upgrade_claimed \in BOOLEAN
  /\ sending \in [Instances -> Event \cup {NoJob}]
  /\ delivered \subseteq Versions
  /\ answers \in 0 .. MaxAnswers /\ lives \in 0 .. MaxLives
TypeOK == PrefTypeOK /\ NetTypeOK

\* What the process holds before it loads the first instance.
Fresh(current, c) ==
  /\ loaded' = {} /\ attached' = {} /\ closing' = "no"
  /\ thread' = [w \in Workers |-> Absent] /\ queue' = [w \in Workers |-> <<>>]
  /\ status' = seeded(c, current) /\ in_flight' = FALSE
  /\ checker' = [i \in Instances |-> "no"] /\ sending' = [i \in Instances |-> NoJob]
  /\ session_sent' = {} /\ upgrade_claimed' = FALSE

\* The file an earlier version left: both answers yes, and that version recorded.
LastRun ==
  apply_running_version(set_update_consent(set_analytics_consent(Default, TRUE), TRUE), 1)

Init ==
  /\ PrefOpen /\ file \in {NoFile, LastRun} /\ said = load_from(file).analytics
  /\ version \in Versions \ {0} /\ delivered = {} /\ answers = MaxAnswers /\ lives = MaxLives
  /\ loaded = {} /\ attached = {} /\ closing = "no"
  /\ thread = [w \in Workers |-> Absent] /\ queue = [w \in Workers |-> <<>>]
  /\ status = Plain("Unknown") /\ in_flight = FALSE
  /\ checker = [i \in Instances |-> "no"] /\ sending = [i \in Instances |-> NoJob]
  /\ session_sent = {} /\ upgrade_claimed = FALSE

Up == Here \in running

-----------------------------------------------------------------------------
(***************************************************************************)
(* The process and its instances.                                          *)
(***************************************************************************)
\* The installer may have replaced the bundle while no process ran.
LaunchHere ==
  /\ Launch(Here) /\ lives > 0 /\ lives' = lives - 1
  /\ version' \in version .. MaxVersion
  /\ Fresh(version', load_from(file))
  /\ UNCHANGED <<delivered, answers>>

\* The host quits or dies, at any point.
Die == Stop(Here) /\ Fresh(version, Default) /\ UNCHANGED <<version, delivered, answers, lives>>

Load(i) ==
  /\ Up /\ i \notin loaded /\ checker[i] = "no" /\ sending[i] = NoJob
  /\ loaded' = loaded \cup {i} /\ session_sent' = session_sent \ {i}
  /\ UNCHANGED <<prefVars, version, attached, thread, queue, closing, status, in_flight,
                 checker, upgrade_claimed, sending, delivered, answers, lives>>

\* Mutant: the worker is abandoned instead of joined.
MutUnload(i) ==
  /\ i \in loaded /\ checker[i] = "no" /\ sending[i] = NoJob /\ closing = "no"
  /\ loaded' = loaded \ {i} /\ attached' = attached \ {i}
  /\ IF attached = {i}
     THEN /\ thread' = [live |-> Absent, old |-> thread["live"]]
          /\ queue' = [live |-> <<>>, old |-> queue["live"]]
     ELSE UNCHANGED <<thread, queue>>
  /\ UNCHANGED <<prefVars, version, closing, status, in_flight, checker, session_sent,
                 upgrade_claimed, sending, delivered, answers, lives>>

(***************************************************************************)
(* The last handle kills the registry's Weak, so an instance loaded while  *)
(* this one joins spawns a second worker.  Bound: one join at a time.      *)
(***************************************************************************)
Unload(i) ==
  /\ i \in loaded /\ checker[i] = "no" /\ sending[i] = NoJob /\ closing = "no"
  /\ loaded' = loaded \ {i} /\ attached' = attached \ {i}
  /\ IF attached = {i} /\ thread["live"] # Absent
     THEN /\ closing' = "dead"
          /\ thread' = [live |-> Absent, old |-> thread["live"]]
          /\ queue' = [live |-> <<>>, old |-> queue["live"]]
     ELSE UNCHANGED <<closing, thread, queue>>
  /\ UNCHANGED <<prefVars, version, status, in_flight, checker, session_sent,
                 upgrade_claimed, sending, delivered, answers, lives>>

\* Worker::drop: the flag, the sender, the join.
SetShutdown == closing = "dead" /\ closing' = "flagged" /\ UNCHANGED <<thread, queue>>
DropSender  == closing = "flagged" /\ closing' = "joining" /\ UNCHANGED <<thread, queue>>
Join ==
  /\ closing = "joining" /\ thread["old"] = Absent
  /\ closing' = "no" /\ UNCHANGED <<thread, queue>>

TearDown ==
  /\ SetShutdown \/ DropSender \/ Join
  /\ UNCHANGED <<prefVars, version, loaded, attached, status, in_flight, checker,
                 session_sent, upgrade_claimed, sending, delivered, answers, lives>>

-----------------------------------------------------------------------------
(***************************************************************************)
(* spawn_job: attach to the shared worker, spawning it if there is none    *)
(* (the system may refuse the thread), and try_send.                       *)
(***************************************************************************)
try_send(i, job, accepted) ==
  /\ attached' = attached \cup {i}
  /\ \E started \in IF attached = {} THEN {Idle, Absent} ELSE {thread["live"]} :
       /\ thread' = [thread EXCEPT !["live"] = started]
       /\ accepted = (started # Absent /\ Len(queue["live"]) < QUEUE_CAPACITY)
  /\ queue' = IF accepted THEN [queue EXCEPT !["live"] = Append(@, job)] ELSE queue

\* check(): the gate, and the compare-exchange on IN_FLIGHT.
BeginCheck(i, trigger) ==
  /\ i \in loaded /\ checker[i] = "no" /\ ~in_flight
  /\ trigger = "Auto" =>
       /\ Unlocked(Here) /\ Config0.updates = "granted"
       /\ \E elapsed \in Elapsed : should_check(Config0, elapsed)
  /\ in_flight' = TRUE /\ checker' = [checker EXCEPT ![i] = "claimed"]
  /\ UNCHANGED <<prefVars, version, loaded, attached, thread, queue, closing, status,
                 session_sent, upgrade_claimed, sending, delivered, answers, lives>>

\* The editor's window opens; Check now, whatever the stored answer is.
build(i)     == BeginCheck(i, "Auto")
check_now(i) == BeginCheck(i, "Manual")

Announce(i) ==
  /\ checker[i] = "claimed"
  /\ status' = Plain("Checking") /\ checker' = [checker EXCEPT ![i] = "announced"]
  /\ UNCHANGED <<prefVars, version, loaded, attached, thread, queue, closing, in_flight,
                 session_sent, upgrade_claimed, sending, delivered, answers, lives>>

\* A refused job is dropped here, and its guard with it.
Enqueue(i) ==
  /\ checker[i] = "announced"
  /\ \E accepted \in BOOLEAN :
       /\ try_send(i, check_job, accepted)
       /\ checker' = [checker EXCEPT ![i] = IF accepted THEN "no" ELSE "guard"]
  /\ UNCHANGED <<prefVars, version, loaded, closing, status, in_flight, session_sent,
                 upgrade_claimed, sending, delivered, answers, lives>>

\* Mutants: the claim first; a failed check keeps the claim.
MutGuardDrop(at) ==
  \/ at = "guard" /\ in_flight' = FALSE /\ UNCHANGED status
  \/ at = "flag" /\ status' = (IF status.is = "Checking" THEN Plain("Failed") ELSE status)
     /\ UNCHANGED in_flight
MutGuardKeeps(at) ==
  \/ at = "guard" /\ status' = (IF status.is = "Checking" THEN Plain("Failed") ELSE status)
     /\ UNCHANGED in_flight
  \/ at = "flag" /\ in_flight' = (status.is # "Failed") /\ UNCHANGED status
\* CheckGuard::drop, on either thread: the status first, the claim last.
GuardDrop(at) ==
  \/ at = "guard" /\ status' = (IF status.is = "Checking" THEN Plain("Failed") ELSE status)
     /\ UNCHANGED in_flight
  \/ at = "flag" /\ in_flight' = FALSE /\ UNCHANGED status

RefusedCheck(i) ==
  /\ GuardDrop(checker[i])
  /\ checker' = [checker EXCEPT ![i] = IF @ = "guard" THEN "flag" ELSE "no"]
  /\ UNCHANGED <<prefVars, version, loaded, attached, thread, queue, closing, session_sent,
                 upgrade_claimed, sending, delivered, answers, lives>>

-----------------------------------------------------------------------------
(***************************************************************************)
(* flush_session: once per instance, and the process's first one claims    *)
(* the upgrade.                                                            *)
(***************************************************************************)
\* The claim decides both what the report carries and whether it commits the version.
\* Mutant: every session report commits it.
from_version == IF upgrade_claimed THEN 0 ELSE pending_upgrade_from(Config0, version)
MutCommitVersion == TRUE
commit_version == ~upgrade_claimed

flush_session(i) ==
  /\ i \in loaded \ session_sent /\ sending[i] = NoJob
  /\ Unlocked(Here) /\ enabled(Config0)
  /\ session_sent' = session_sent \cup {i} /\ upgrade_claimed' = TRUE
  /\ sending' = [sending EXCEPT ![i] =
       [kind |-> "event", commit |-> commit_version, from |-> from_version]]
  /\ UNCHANGED <<prefVars, version, loaded, attached, thread, queue, closing, status,
                 in_flight, checker, delivered, answers, lives>>

Holds(w, kind) == thread[w] \notin {Absent, Idle} /\ thread[w].job.kind = kind
Queued(kind)   == \E w \in Workers : \E k \in DOMAIN queue[w] : queue[w][k].kind = kind

\* Any later event of the instance.  Bound: one event out at a time.
track(i) ==
  /\ i \in loaded \cap session_sent /\ sending[i] = NoJob
  /\ ~Queued("event") /\ \A w \in Workers : ~Holds(w, "event")
  /\ Unlocked(Here) /\ enabled(Config0)
  /\ sending' = [sending EXCEPT ![i] = [kind |-> "event", commit |-> FALSE, from |-> 0]]
  /\ UNCHANGED <<prefVars, version, loaded, attached, thread, queue, closing, status,
                 in_flight, checker, session_sent, upgrade_claimed, delivered, answers, lives>>

\* send(): consent may be gone by now, and the identifier with it.
send(i) ==
  /\ sending[i] # NoJob /\ Unlocked(Here)
  /\ sending' = [sending EXCEPT ![i] = NoJob]
  /\ IF Config0.device_id
     THEN \E accepted \in BOOLEAN : try_send(i, sending[i], accepted)
     ELSE UNCHANGED <<attached, thread, queue>>
  /\ UNCHANGED <<prefVars, version, loaded, closing, status, in_flight, checker,
                 session_sent, upgrade_claimed, delivered, answers, lives>>

-----------------------------------------------------------------------------
(***************************************************************************)
(* The worker's loop, and the two jobs.                                    *)
(***************************************************************************)
Goto(w, at, job) == thread' = [thread EXCEPT ![w] = [at |-> at, job |-> job]]
Done(w) == thread' = [thread EXCEPT ![w] = Idle]
At(w, at) == thread[w].at = at
QuietNet == UNCHANGED <<version, loaded, attached, closing, checker, session_sent,
                        upgrade_claimed, sending, answers, lives>>

\* Under the shutdown flag a job is dropped, not run.
Recv(w) ==
  /\ thread[w] = Idle /\ queue[w] # <<>>
  /\ queue' = [queue EXCEPT ![w] = Tail(@)]
  /\ LET job == Head(queue[w]) IN
       IF w = "old" /\ closing # "dead"
       THEN IF job.kind = "check" THEN Goto(w, "guard", job) ELSE UNCHANGED thread
       ELSE Goto(w, "run", job)
  /\ QuietNet /\ UNCHANGED <<prefVars, status, in_flight, delivered>>

\* Mutant: the sender is dropped after the join.
MutDisconnected(w) ==
  /\ w = "old" /\ closing = "no" /\ thread[w] = Idle /\ queue[w] = <<>>
  /\ thread' = [thread EXCEPT ![w] = Absent]
  /\ QuietNet /\ UNCHANGED <<prefVars, queue, status, in_flight, delivered>>

\* recv() fails only once the sender is gone and the channel is empty.
Disconnected(w) ==
  /\ w = "old" /\ closing = "joining" /\ thread[w] = Idle /\ queue[w] = <<>>
  /\ thread' = [thread EXCEPT ![w] = Absent]
  /\ QuietNet /\ UNCHANGED <<prefVars, queue, status, in_flight, delivered>>

\* The request fails, or the feed names the newest release; then the config lock.
Record(w, latest) ==
  /\ At(w, "run") /\ thread[w].job.kind = "check"
  /\ RecordCheck(Here, latest)
  /\ Goto(w, "save", [check_job EXCEPT !.latest = latest])
  /\ QuietNet /\ UNCHANGED <<queue, status, in_flight, delivered>>

SetVerdict(w) ==
  /\ At(w, "verdict")
  /\ status' = verdict(version, thread[w].job.latest)
  /\ Goto(w, "guard", thread[w].job)
  /\ QuietNet /\ UNCHANGED <<prefVars, queue, in_flight, delivered>>

DropGuard(w) ==
  /\ GuardDrop(thread[w].at)
  /\ IF At(w, "guard") THEN Goto(w, "flag", thread[w].job) ELSE Done(w)
  /\ QuietNet /\ UNCHANGED <<prefVars, queue, delivered>>

\* The request may have arrived although the post reports a failure.
Post(w) ==
  /\ At(w, "run") /\ thread[w].job.kind = "event"
  /\ LET job == thread[w].job IN
       \/ /\ delivered' = delivered \cup ({job.from} \ {0})
          /\ IF job.commit THEN Goto(w, "commit", job) ELSE Done(w)
       \/ Done(w) /\ UNCHANGED delivered
  /\ QuietNet /\ UNCHANGED <<prefVars, queue, status, in_flight>>

\* commit_running_version, with no look at the consent.
Commit(w) ==
  /\ At(w, "commit")
  /\ CommitVersion(Here, version)
  /\ IF Config0.last_version = version THEN Done(w) ELSE Goto(w, "save", thread[w].job)
  /\ QuietNet /\ UNCHANGED <<queue, status, in_flight, delivered>>

Save(w) ==
  /\ At(w, "save") /\ SaveStep(Here)
  /\ CASE saving[Here] # "full" -> UNCHANGED thread
       [] saving[Here] = "full" /\ thread[w].job.kind = "check" -> Goto(w, "verdict", thread[w].job)
       [] OTHER -> Done(w)
  /\ QuietNet /\ UNCHANGED <<queue, status, in_flight, delivered>>

WorkerStep(w) ==
  \/ Recv(w) \/ Disconnected(w) \/ SetVerdict(w) \/ DropGuard(w)
  \/ Post(w) \/ Commit(w) \/ Save(w)
  \/ \E latest \in {0, MaxVersion} : Record(w, latest)

-----------------------------------------------------------------------------
(***************************************************************************)
(* What the user clicks, on the UI thread, which also saves it: the modal  *)
(* asks what has not been answered, the settings popover toggles either    *)
(* answer and offers to skip the release it announces.                     *)
(***************************************************************************)
analytics_question ==
  Config0.analytics = "unasked" /\ \E granted \in BOOLEAN : Answer(Here, granted)

updates_question ==
  Config0.updates = "unasked" /\ \E granted \in BOOLEAN : AnswerUpdates(Here, granted)

consent_modal == needs_prompt(Config0) /\ (analytics_question \/ updates_question)

privacy_section ==
  \/ Answer(Here, ~enabled(Config0))
  \/ AnswerUpdates(Here, Config0.updates # "granted")

notifies == status.is = "Available" /\ status.v > Config0.skipped

update_section ==
  notifies /\ Mutate(Here, set_update_skipped(Config0, status.v)) /\ UNCHANGED said

UISave == (\A w \in Workers : ~At(w, "save")) /\ SaveStep(Here) /\ UNCHANGED netVars

User ==
  /\ loaded # {} /\ answers > 0 /\ answers' = answers - 1
  /\ consent_modal \/ privacy_section \/ update_section
  /\ UNCHANGED <<version, loaded, attached, thread, queue, closing, status, in_flight,
                 checker, session_sent, upgrade_claimed, sending, delivered, lives>>

CheckStep(i) == Announce(i) \/ Enqueue(i) \/ RefusedCheck(i)

Next ==
  \/ LaunchHere \/ Die \/ User \/ UISave \/ TearDown
  \/ \E i \in Instances :
       \/ Load(i) \/ Unload(i) \/ CheckStep(i) \/ send(i) \/ flush_session(i) \/ track(i)
       \/ build(i) \/ check_now(i)
  \/ \E w \in Workers : WorkerStep(w)

(***************************************************************************)
(* Threads run, requests end (net.rs bounds every stage), and a thread     *)
(* that keeps asking for the config lock gets it.                          *)
(***************************************************************************)
Fairness ==
  /\ WF_vars(UISave) /\ WF_vars(TearDown)
  /\ \A i \in Instances : WF_vars(CheckStep(i))
  /\ WF_vars(WorkerStep("live")) /\ SF_vars(WorkerStep("old"))

Spec == Init /\ [][Next]_vars
FairSpec == Spec /\ Fairness
-----------------------------------------------------------------------------
Undecided ==
  \/ \E i \in Instances : checker[i] = "announced"
  \/ Queued("check")
  \/ \E w \in Workers : Holds(w, "check") /\ thread[w].at \in {"run", "save", "verdict"}

\* A check that has yet to answer holds the claim and shows as Checking, whatever
\* the guard of an earlier check does on another thread (update.rs CheckGuard).
UndecidedShowsChecking == Undecided => in_flight /\ status.is = "Checking"

\* net.rs rule 1: with no instance left and no unload in progress, no worker
\* thread is left either.
NoThreadOutlivesInstances ==
  loaded = {} /\ closing = "no" => \A w \in Workers : thread[w] = Absent

\* config.rs commit_running_version: the version that ran before is forgotten
\* only after a request that carried it was posted.
UpgradeNotConsumed ==
  [][LET before == Config0.last_version IN
       Up /\ Up' /\ before # 0 /\ cache'[Here].last_version # before => before \in delivered]_vars

\* A check that took the claim gives it back.
CheckEnds == in_flight ~> ~in_flight

\* The join in Worker::drop returns: the host's unload is not held up for ever.
UnloadEnds == closing # "no" ~> closing = "no"

=============================================================================
