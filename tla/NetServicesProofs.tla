-------------------------- MODULE NetServicesProofs --------------------------
(***************************************************************************)
(* Proofs about Preferences, NetServices and the request its worker makes, *)
(* Http: for every number of processes, instances and versions, every      *)
(* queue capacity, any number of answers and restarts, and for requests    *)
(* with any timeouts, addresses and responses.                             *)
(***************************************************************************)
EXTENDS NetServices, Http, SequenceTheorems, WellFoundedInduction, TLAPS

-----------------------------------------------------------------------------
(***************************************************************************)
(* The preferences.  Every copy of them, in a process or on disk, was once *)
(* the cache of some process, so it is enough that no mutation makes an    *)
(* identifier without a granted answer.                                    *)
(***************************************************************************)
Honest(c) == c.device_id => enabled(c)

PrefIInv == PrefTypeOK /\ NoIdWithoutConsent

LEMMA CopyIsConfig ==
  ASSUME PrefIInv
  PROVE  /\ \A p \in Processes : cache[p] \in Config /\ Honest(cache[p])
         /\ \A f \in {file, tmp} : f \in Config => Honest(f)
         /\ NoFile \notin Config /\ Half \notin Config /\ NoFile # Half
BY FilesAssumption, PreferencesAssumption
   DEF PrefIInv, PrefTypeOK, NoIdWithoutConsent, Honest, Readable

LEMMA DefaultHonest == Default \in Config /\ Honest(Default)
BY PreferencesAssumption DEF Default, Config, Answers, Versions, Honest, enabled

LEMMA LoadedHonest ==
  ASSUME PrefIInv
  PROVE  load_from(file) \in Config /\ Honest(load_from(file))
BY CopyIsConfig, DefaultHonest DEF load_from, PrefIInv, PrefTypeOK

(***************************************************************************)
(* What the mutations make of an honest copy.                              *)
(***************************************************************************)
LEMMA MutationsHonest ==
  ASSUME NEW c \in Config, Honest(c), NEW granted \in BOOLEAN, NEW v \in Versions
  PROVE  /\ set_analytics_consent(c, granted) \in Config
         /\ Honest(set_analytics_consent(c, granted))
         /\ set_analytics_consent(c, granted).last_version = c.last_version
         /\ set_update_consent(c, granted) \in Config
         /\ Honest(set_update_consent(c, granted))
         /\ set_update_consent(c, granted).last_version = c.last_version
         /\ record_update_check(c, v) \in Config
         /\ Honest(record_update_check(c, v))
         /\ record_update_check(c, v).last_version = c.last_version
         /\ set_update_skipped(c, v) \in Config
         /\ Honest(set_update_skipped(c, v))
         /\ set_update_skipped(c, v).last_version = c.last_version
         /\ apply_running_version(c, v) \in Config
         /\ Honest(apply_running_version(c, v))
         /\ apply_running_version(c, v).last_version = v
<1>1. /\ set_analytics_consent(c, granted) \in Config
      /\ Honest(set_analytics_consent(c, granted))
      /\ set_analytics_consent(c, granted).last_version = c.last_version
  BY DEF set_analytics_consent, Config, Answers, Honest, enabled
<1>2. /\ set_update_consent(c, granted) \in Config
      /\ Honest(set_update_consent(c, granted))
      /\ set_update_consent(c, granted).last_version = c.last_version
  BY DEF set_update_consent, Config, Answers, Honest, enabled
<1>3. /\ record_update_check(c, v) \in Config
      /\ Honest(record_update_check(c, v))
      /\ record_update_check(c, v).last_version = c.last_version
  BY DEF record_update_check, Config, Honest, enabled
<1>4. /\ set_update_skipped(c, v) \in Config
      /\ Honest(set_update_skipped(c, v))
      /\ set_update_skipped(c, v).last_version = c.last_version
  BY DEF set_update_skipped, Config, Honest, enabled
<1>5. /\ apply_running_version(c, v) \in Config
      /\ Honest(apply_running_version(c, v))
      /\ apply_running_version(c, v).last_version = v
  BY DEF apply_running_version, Config, Honest, enabled
<1> QED BY <1>1, <1>2, <1>3, <1>4, <1>5

LEMMA MutateStep ==
  ASSUME PrefIInv, NEW p \in Processes, NEW c \in Config, Honest(c), Mutate(p, c), said' \in Answers
  PROVE  PrefIInv'
<1>1. PrefTypeOK'
  BY DEF PrefIInv, PrefTypeOK, Mutate, Saving
<1>2. NoIdWithoutConsent'
  BY CopyIsConfig DEF PrefIInv, PrefTypeOK, NoIdWithoutConsent, Mutate, Readable, Honest, enabled
<1> QED BY <1>1, <1>2 DEF PrefIInv

LEMMA AnswerStep ==
  ASSUME PrefIInv, NEW p \in Processes, NEW granted \in BOOLEAN, Answer(p, granted)
  PROVE  PrefIInv'
BY CopyIsConfig, MutationsHonest, MutateStep, PreferencesAssumption
   DEF Answer, Answers, Versions

LEMMA AnswerUpdatesStep ==
  ASSUME PrefIInv, NEW p \in Processes, NEW granted \in BOOLEAN, AnswerUpdates(p, granted)
  PROVE  PrefIInv'
<1> DEFINE c == set_update_consent(cache[p], granted)
<1>1. c \in Config /\ Honest(c)
  <2>1. 0 \in Versions
    BY PreferencesAssumption DEF Versions
  <2> QED BY <2>1, CopyIsConfig, MutationsHonest
<1>2. Mutate(p, c) /\ said' \in Answers
  BY DEF AnswerUpdates, PrefIInv, PrefTypeOK
<1> HIDE DEF c
<1> QED BY <1>1, <1>2, MutateStep

LEMMA RecordCheckStep ==
  ASSUME PrefIInv, NEW p \in Processes, NEW v \in Versions, RecordCheck(p, v)
  PROVE  PrefIInv'
<1> DEFINE c == record_update_check(cache[p], v)
<1>1. c \in Config /\ Honest(c)
  BY CopyIsConfig, MutationsHonest
<1>2. Mutate(p, c) /\ said' \in Answers
  BY DEF RecordCheck, PrefIInv, PrefTypeOK
<1> HIDE DEF c
<1> QED BY <1>1, <1>2, MutateStep

LEMMA SkipStep ==
  ASSUME PrefIInv, NEW p \in Processes, NEW v \in Versions,
         Mutate(p, set_update_skipped(cache[p], v)), UNCHANGED said
  PROVE  PrefIInv'
BY CopyIsConfig, MutationsHonest, MutateStep DEF PrefIInv, PrefTypeOK

LEMMA CommitVersionStep ==
  ASSUME PrefIInv, NEW p \in Processes, NEW v \in Versions, CommitVersion(p, v)
  PROVE  PrefIInv'
<1>1. CASE cache[p].last_version = v
  BY <1>1 DEF CommitVersion, PrefIInv, PrefTypeOK, NoIdWithoutConsent, prefVars
<1>2. CASE cache[p].last_version # v
  <2> DEFINE c == apply_running_version(cache[p], v)
  <2>1. c \in Config /\ Honest(c)
    BY CopyIsConfig, MutationsHonest
  <2>2. Mutate(p, c) /\ said' \in Answers
    BY <1>2 DEF CommitVersion, PrefIInv, PrefTypeOK
  <2> HIDE DEF c
  <2> QED BY <2>1, <2>2, MutateStep
<1> QED BY <1>1, <1>2

LEMMA LaunchStep ==
  ASSUME PrefIInv, NEW p \in Processes, Launch(p)
  PROVE  PrefIInv'
<1>1. PrefTypeOK'
  BY LoadedHonest DEF PrefIInv, PrefTypeOK, Launch
<1>2. NoIdWithoutConsent'
  BY LoadedHonest DEF PrefIInv, PrefTypeOK, NoIdWithoutConsent, Launch, Honest, Readable, enabled
<1> QED BY <1>1, <1>2 DEF PrefIInv

LEMMA StopStep ==
  ASSUME PrefIInv, NEW p \in Processes, Stop(p)
  PROVE  PrefIInv'
<1>1. PrefTypeOK'
  BY DefaultHonest DEF PrefIInv, PrefTypeOK, Stop, Saving, Answers
<1>2. NoIdWithoutConsent'
  BY DefaultHonest DEF PrefIInv, PrefTypeOK, NoIdWithoutConsent, Stop, Honest, Readable, enabled
<1> QED BY <1>1, <1>2 DEF PrefIInv

LEMMA SaveKeeps ==
  ASSUME PrefIInv, NEW p \in Processes, SaveStep(p)
  PROVE  PrefIInv'
<1>1. CASE WriteTmp(p)
  <2>1. PrefTypeOK'
    BY <1>1, CopyIsConfig DEF PrefIInv, PrefTypeOK, WriteTmp, Outcomes, Saving
  <2>2. NoIdWithoutConsent'
    BY <1>1, CopyIsConfig
       DEF PrefIInv, PrefTypeOK, NoIdWithoutConsent, WriteTmp, Outcomes, Readable, Honest, enabled
  <2> QED BY <2>1, <2>2 DEF PrefIInv
<1>2. CASE Rename(p)
  <2>1. PrefTypeOK'
    <3>1. saving' \in [Processes -> Saving]
      BY <1>2 DEF PrefIInv, PrefTypeOK, Rename, Saving
    <3> QED BY <1>2, <3>1 DEF PrefIInv, PrefTypeOK, Rename
  <2>2. NoIdWithoutConsent'
    BY <1>2, CopyIsConfig
       DEF PrefIInv, PrefTypeOK, NoIdWithoutConsent, Rename, Readable, Honest, enabled
  <2> QED BY <2>1, <2>2 DEF PrefIInv
<1> QED BY <1>1, <1>2 DEF SaveStep

LEMMA PrefUnchanged == ASSUME PrefIInv, UNCHANGED prefVars PROVE PrefIInv'
BY DEF PrefIInv, PrefTypeOK, NoIdWithoutConsent, prefVars, Readable, enabled

LEMMA PrefOpens ==
  ASSUME PrefOpen, file \in Config \cup {NoFile}, file \in Config => Honest(file), said \in Answers
  PROVE  PrefIInv
<1>1. PrefTypeOK
  BY DefaultHonest DEF PrefOpen, PrefTypeOK, Saving
<1>2. NoIdWithoutConsent
  BY DefaultHonest, FilesAssumption DEF PrefOpen, NoIdWithoutConsent, Readable, Honest, enabled
<1> QED BY <1>1, <1>2 DEF PrefIInv

LEMMA PrefInductive == PrefIInv /\ [PrefNext]_prefVars => PrefIInv'
<1> SUFFICES ASSUME PrefIInv, [PrefNext]_prefVars PROVE PrefIInv'
  OBVIOUS
<1>1. CASE UNCHANGED prefVars
  BY <1>1, PrefUnchanged
<1>2. ASSUME NEW p \in Processes, Launch(p) \/ SaveStep(p) \/ Stop(p)
      PROVE  PrefIInv'
  BY <1>2, LaunchStep, SaveKeeps, StopStep
<1>3. ASSUME NEW p \in Processes, Skip(p)
      PROVE  PrefIInv'
  <2>1. cache[p].latest_seen \in Versions
    BY CopyIsConfig DEF Config
  <2> QED BY <1>3, <2>1, SkipStep DEF Skip
<1>4. ASSUME NEW p \in Processes, NEW granted \in BOOLEAN,
             Answer(p, granted) \/ AnswerUpdates(p, granted)
      PROVE  PrefIInv'
  BY <1>4, AnswerStep, AnswerUpdatesStep
<1>5. ASSUME NEW p \in Processes, NEW v \in 0 .. MaxVersion, RecordCheck(p, v)
      PROVE  PrefIInv'
  BY <1>5, RecordCheckStep DEF Versions
<1>6. ASSUME NEW p \in Processes, NEW v \in 1 .. MaxVersion, CommitVersion(p, v)
      PROVE  PrefIInv'
  <2>1. v \in Versions
    BY PreferencesAssumption DEF Versions
  <2> QED BY <1>6, <2>1, CommitVersionStep
<1> QED BY <1>1, <1>2, <1>3, <1>4, <1>5, <1>6 DEF PrefNext

(***************************************************************************)
(* config.rs: whatever the processes overwrite of each other's files, no   *)
(* copy of the preferences holds an identifier without a granted answer.   *)
(***************************************************************************)
THEOREM IdsNeedConsent == PrefSpec => []NoIdWithoutConsent
<1>1. PrefInit => PrefIInv
  BY PrefOpens, FilesAssumption DEF PrefInit, Answers
<1>2. PrefIInv => NoIdWithoutConsent
  BY DEF PrefIInv
<1> QED BY <1>1, <1>2, PrefInductive, PTL DEF PrefSpec

-----------------------------------------------------------------------------
(***************************************************************************)
(* The last answer, where one process is up: no other save crosses its     *)
(* own, so the temporary file holds what it wrote there, its copy carries  *)
(* the answer from the click on and the file does once the save is over.   *)
(***************************************************************************)
AnswerInv(p) ==
  /\ \A q \in Processes : q # p => q \notin running /\ saving[q] = "no"
  /\ saving[p] # "orphan" /\ (saving[p] # "no" => p \in running)
  /\ saving[p] = "open" => tmp = Half
  /\ saving[p] = "full" => tmp = cache[p]
  /\ said # "unasked" => /\ p \in running => cache[p].analytics = said
                         /\ saving[p] = "no" => file \in Config /\ file.analytics = said

LEMMA AnswerKept ==
  ASSUME NEW p \in Processes, AnswerInv(p) PROVE LastAnswerHolds
BY DEF AnswerInv, LastAnswerHolds, Readable

LEMMA MutateCarries ==
  ASSUME PrefIInv, NEW p \in Processes, AnswerInv(p), NEW c \in Config, Mutate(p, c),
         \/ c.analytics = cache[p].analytics /\ UNCHANGED said
         \/ said' = c.analytics
  PROVE  AnswerInv(p)'
BY DEF AnswerInv, Mutate, Unlocked, PrefIInv, PrefTypeOK

LEMMA LaunchCarries ==
  ASSUME PrefIInv, NEW p \in Processes, AnswerInv(p), Launch(p)
  PROVE  AnswerInv(p)'
BY FilesAssumption DEF AnswerInv, Launch, load_from, PrefIInv, PrefTypeOK

LEMMA StopCarries ==
  ASSUME PrefIInv, NEW p \in Processes, AnswerInv(p), Stop(p)
  PROVE  AnswerInv(p)'
BY DEF AnswerInv, Stop, PrefIInv, PrefTypeOK

LEMMA SaveCarries ==
  ASSUME PrefIInv, NEW p \in Processes, AnswerInv(p), SaveStep(p)
  PROVE  AnswerInv(p)'
<1>1. CASE WriteTmp(p)
  BY <1>1 DEF AnswerInv, WriteTmp, Outcomes, PrefIInv, PrefTypeOK
<1>2. CASE Rename(p)
  <2>1. /\ saving[p] = "full" /\ tmp = cache[p] /\ cache[p] \in Config /\ p \in running
    BY <1>2 DEF Rename, AnswerInv, PrefIInv, PrefTypeOK
  <2>2. file' = cache[p] /\ UNCHANGED <<running, cache, said>>
    BY <1>2, <2>1, FilesAssumption DEF Rename
  <2>3. saving'[p] = "no" /\ \A q \in Processes : q # p => saving'[q] = "no"
    BY <1>2 DEF Rename, AnswerInv
  <2> QED BY <2>1, <2>2, <2>3 DEF AnswerInv
<1> QED BY <1>1, <1>2 DEF SaveStep

LEMMA CommitCarries ==
  ASSUME PrefIInv, NEW p \in Processes, AnswerInv(p), NEW v \in Versions, CommitVersion(p, v)
  PROVE  AnswerInv(p)'
<1>1. CASE cache[p].last_version = v
  BY <1>1 DEF CommitVersion, prefVars, AnswerInv
<1>2. CASE cache[p].last_version # v
  <2> DEFINE c == apply_running_version(cache[p], v)
  <2>1. c \in Config /\ c.analytics = cache[p].analytics
    BY CopyIsConfig, MutationsHonest DEF apply_running_version, Config
  <2>2. Mutate(p, c) /\ UNCHANGED said
    BY <1>2 DEF CommitVersion
  <2> HIDE DEF c
  <2> QED BY <2>1, <2>2, MutateCarries
<1> QED BY <1>1, <1>2

LEMMA AnswerCarries ==
  ASSUME PrefIInv, NEW p \in Processes, AnswerInv(p), NEW granted \in BOOLEAN,
         Answer(p, granted) \/ AnswerUpdates(p, granted)
  PROVE  AnswerInv(p)'
<1>a. 0 \in Versions /\ cache[p] \in Config /\ Honest(cache[p])
  BY CopyIsConfig, PreferencesAssumption DEF Versions
<1>1. CASE Answer(p, granted)
  <2> DEFINE c == set_analytics_consent(cache[p], granted)
  <2>1. c \in Config /\ c.analytics = IF granted THEN "granted" ELSE "declined"
    <3>1. c \in Config
      BY <1>a, MutationsHonest
    <3>2. c.analytics = IF granted THEN "granted" ELSE "declined"
      BY <1>a DEF set_analytics_consent, Config
    <3> QED BY <3>1, <3>2
  <2>2. Mutate(p, c) /\ said' = IF granted THEN "granted" ELSE "declined"
    BY <1>1 DEF Answer
  <2> HIDE DEF c
  <2> QED BY <2>1, <2>2, MutateCarries
<1>2. CASE AnswerUpdates(p, granted)
  <2> DEFINE c == set_update_consent(cache[p], granted)
  <2>1. c \in Config /\ c.analytics = cache[p].analytics
    <3>1. c \in Config
      BY <1>a, MutationsHonest
    <3>2. c.analytics = cache[p].analytics
      BY <1>a DEF set_update_consent, Config
    <3> QED BY <3>1, <3>2
  <2>2. Mutate(p, c) /\ UNCHANGED said
    BY <1>2 DEF AnswerUpdates
  <2> HIDE DEF c
  <2> QED BY <2>1, <2>2, MutateCarries
<1> QED BY <1>1, <1>2

LEMMA OthersCarry ==
  ASSUME PrefIInv, NEW p \in Processes, AnswerInv(p), NEW v \in Versions,
         \/ RecordCheck(p, v)
         \/ Mutate(p, set_update_skipped(cache[p], v)) /\ UNCHANGED said
  PROVE  AnswerInv(p)'
<1>1. CASE RecordCheck(p, v)
  <2> DEFINE c == record_update_check(cache[p], v)
  <2>1. c \in Config /\ c.analytics = cache[p].analytics
    <3>1. cache[p] \in Config /\ Honest(cache[p])
      BY CopyIsConfig
    <3>2. record_update_check(cache[p], v) \in Config
      BY <3>1, MutationsHonest
    <3>3. record_update_check(cache[p], v).analytics = cache[p].analytics
      BY <3>1 DEF record_update_check, Config
    <3> QED BY <3>2, <3>3
  <2>2. Mutate(p, c) /\ UNCHANGED said
    BY <1>1 DEF RecordCheck
  <2> HIDE DEF c
  <2> QED BY <2>1, <2>2, MutateCarries
<1>2. CASE Mutate(p, set_update_skipped(cache[p], v)) /\ UNCHANGED said
  <2> DEFINE c == set_update_skipped(cache[p], v)
  <2>1. c \in Config /\ c.analytics = cache[p].analytics
    BY CopyIsConfig, MutationsHonest DEF set_update_skipped, Config
  <2> HIDE DEF c
  <2> QED BY <1>2, <2>1, MutateCarries DEF c
<1> QED BY <1>1, <1>2

LEMMA AnswerUnchanged ==
  ASSUME NEW p \in Processes, AnswerInv(p), UNCHANGED prefVars PROVE AnswerInv(p)'
BY DEF AnswerInv, prefVars

(***************************************************************************)
(* config.rs, module comment: the last answer stands.  It does while one   *)
(* host at a time is up, whenever that host dies; with two it does not,    *)
(* which the run with two hosts shows.                                     *)
(***************************************************************************)
THEOREM OneHostKeepsAnswer ==
  ASSUME NEW p, Processes = {p} PROVE PrefSpec => []LastAnswerHolds
<1> DEFINE Inv == PrefIInv /\ AnswerInv(p)
<1>1. PrefInit => Inv
  <2>1. PrefInit => PrefIInv
    BY PrefOpens, FilesAssumption DEF PrefInit, Answers
  <2>2. PrefInit => AnswerInv(p)
    BY DEF PrefInit, PrefOpen, AnswerInv
  <2> QED BY <2>1, <2>2
<1>2. Inv /\ [PrefNext]_prefVars => Inv'
  <2> SUFFICES ASSUME PrefIInv, AnswerInv(p), [PrefNext]_prefVars PROVE Inv'
    OBVIOUS
  <2>a. p \in Processes
    OBVIOUS
  <2>1. PrefIInv'
    BY PrefInductive
  <2>2. CASE UNCHANGED prefVars
    BY <2>1, <2>2, <2>a, AnswerUnchanged
  <2>3. CASE Launch(p) \/ SaveStep(p) \/ Stop(p)
    BY <2>1, <2>3, <2>a, LaunchCarries, SaveCarries, StopCarries
  <2>4. CASE Skip(p)
    <3>1. cache[p].latest_seen \in Versions
      BY <2>a, CopyIsConfig DEF Config
    <3> QED BY <2>1, <2>4, <2>a, <3>1, OthersCarry DEF Skip
  <2>5. ASSUME NEW granted \in BOOLEAN, Answer(p, granted) \/ AnswerUpdates(p, granted)
        PROVE  AnswerInv(p)'
    BY <2>5, <2>a, AnswerCarries
  <2>6. ASSUME NEW v \in 0 .. MaxVersion, RecordCheck(p, v) PROVE AnswerInv(p)'
    BY <2>6, <2>a, OthersCarry DEF Versions
  <2>7. ASSUME NEW v \in 1 .. MaxVersion, CommitVersion(p, v) PROVE AnswerInv(p)'
    <3>1. v \in Versions
      BY PreferencesAssumption DEF Versions
    <3> QED BY <2>7, <2>a, <3>1, CommitCarries
  <2> QED BY <2>1, <2>2, <2>3, <2>4, <2>5, <2>6, <2>7 DEF PrefNext
<1>3. Inv => LastAnswerHolds
  BY AnswerKept
<1> QED BY <1>1, <1>2, <1>3, PTL DEF PrefSpec

-----------------------------------------------------------------------------
(***************************************************************************)
(* The services: what their variables can hold.                            *)
(***************************************************************************)
\* The thread's step tells which job it is at.
JobAt == \A w \in Workers :
  /\ At(w, "verdict") \/ At(w, "guard") \/ At(w, "flag") => Holds(w, "check")
  /\ At(w, "commit") => Holds(w, "event")

\* Only an instance that exists is inside one of its calls.
Present == \A i \in Instances : checker[i] # "no" \/ sending[i] # NoJob => i \in loaded

NetIInv == PrefIInv /\ NetTypeOK /\ JobAt /\ Present

LEMMA AtJob ==
  ASSUME NEW t \in Threads, t # Absent, t # Idle
  PROVE  /\ t.at \in {"run", "commit", "save", "verdict", "guard", "flag"} /\ t.job \in Job
         /\ t = [at |-> t.at, job |-> t.job]
BY DEF Threads

LEMMA AtSomewhere ==
  ASSUME NEW t \in Threads, t.at \in {"run", "commit", "save", "verdict", "guard", "flag"}
  PROVE  t # Absent /\ t # Idle
BY DEF Absent, Idle

LEMMA JobForms ==
  ASSUME NEW job \in Job
  PROVE  \/ job.kind = "check" /\ job \in Check /\ job.latest \in Versions
         \/ job.kind = "event" /\ job \in Event /\ job.from \in Versions /\ job.commit \in BOOLEAN
BY DEF Job, Check, Event

LEMMA GotoType ==
  ASSUME NetTypeOK, NEW w \in Workers, NEW job \in Job,
         NEW at \in {"run", "commit", "save", "verdict", "guard", "flag"}, Goto(w, at, job)
  PROVE  thread' \in [Workers -> Threads]
<1>1. [at |-> at, job |-> job] \in Threads
  BY DEF Threads
<1> QED BY <1>1 DEF Goto, NetTypeOK

LEMMA DoneType ==
  ASSUME NetTypeOK, NEW w \in Workers, Done(w)
  PROVE  thread' \in [Workers -> Threads]
<1>1. Idle \in Threads
  BY DEF Threads
<1> QED BY <1>1 DEF Done, NetTypeOK

LEMMA StatusTypes ==
  ASSUME NEW c \in Config, NEW current \in Versions, NEW latest \in Versions
  PROVE  /\ seeded(c, current) \in Statuses
         /\ verdict(current, latest) \in Statuses
         /\ Plain("Checking") \in Statuses /\ Plain("Failed") \in Statuses
         /\ Plain("Unknown") \in Statuses /\ Plain("UpToDate") \in Statuses
<1>1. /\ Plain("Checking") \in Statuses /\ Plain("Failed") \in Statuses
      /\ Plain("Unknown") \in Statuses /\ Plain("UpToDate") \in Statuses
  BY DEF Plain, Statuses
<1>2. \A v \in Versions : v > current => [is |-> "Available", v |-> v] \in Statuses
  BY PreferencesAssumption DEF Statuses, Versions
<1>3. c.latest_seen \in Versions
  BY DEF Config
<1> QED BY <1>1, <1>2, <1>3 DEF seeded, verdict, is_newer

LEMMA FreshType ==
  ASSUME NEW current \in Versions, NEW c \in Config, Fresh(current, c)
  PROVE  /\ attached' \subseteq loaded' /\ loaded' \subseteq Instances
         /\ thread' \in [Workers -> Threads]
         /\ queue' \in [Workers -> Seq(Job)]
         /\ \A w \in Workers : Len(queue'[w]) <= QUEUE_CAPACITY
         /\ closing' \in {"no", "dead", "flagged", "joining"}
         /\ status' \in Statuses /\ in_flight' \in BOOLEAN
         /\ checker' \in [Instances -> {"no", "claimed", "announced", "guard", "flag"}]
         /\ session_sent' \subseteq Instances /\ upgrade_claimed' \in BOOLEAN
         /\ sending' \in [Instances -> Event \cup {NoJob}]
<1>1. status' \in Statuses
  BY StatusTypes DEF Fresh
<1>2. Absent \in Threads
  BY DEF Threads
<1>3. /\ queue' \in [Workers -> Seq(Job)]
      /\ \A w \in Workers : Len(queue'[w]) <= QUEUE_CAPACITY
  BY ServicesAssumption DEF Fresh
<1> QED BY <1>1, <1>2, <1>3 DEF Fresh

LEMMA TrySendType ==
  ASSUME NetTypeOK, NEW i \in loaded, NEW job \in Job, NEW accepted \in BOOLEAN,
         try_send(i, job, accepted)
  PROVE  /\ attached' \subseteq loaded
         /\ thread' \in [Workers -> Threads]
         /\ queue' \in [Workers -> Seq(Job)]
         /\ \A w \in Workers : Len(queue'[w]) <= QUEUE_CAPACITY
<1>1. PICK started \in IF attached = {} THEN {Idle, Absent} ELSE {thread["live"]} :
        /\ thread' = [thread EXCEPT !["live"] = started]
        /\ accepted = (started # Absent /\ Len(queue["live"]) < QUEUE_CAPACITY)
  BY DEF try_send
<1>2. started \in Threads
  BY DEF NetTypeOK, Workers, Threads
<1>3. thread' \in [Workers -> Threads]
  BY <1>1, <1>2 DEF NetTypeOK
<1>4. attached' \subseteq loaded
  BY DEF try_send, NetTypeOK
<1>5. CASE accepted
  <2>1. queue["live"] \in Seq(Job) /\ Len(queue["live"]) \in Nat
    BY DEF NetTypeOK, Workers
  <2>2. Append(queue["live"], job) \in Seq(Job) /\ Len(Append(queue["live"], job)) = Len(queue["live"]) + 1
    BY <2>1
  <2>3. Len(queue["live"]) < QUEUE_CAPACITY /\ QUEUE_CAPACITY \in Nat
    BY <1>1, <1>5, ServicesAssumption
  <2>4. Len(queue["live"]) + 1 <= QUEUE_CAPACITY
    BY <2>1, <2>3
  <2> QED BY <1>3, <1>4, <1>5, <2>2, <2>4 DEF try_send, NetTypeOK
<1>6. CASE ~accepted
  BY <1>3, <1>4, <1>6 DEF try_send, NetTypeOK
<1> QED BY <1>5, <1>6

(***************************************************************************)
(* The guards of the worker's steps name the thread's job.                 *)
(***************************************************************************)
LEMMA AtStep ==
  ASSUME NetTypeOK, NEW w \in Workers,
         thread[w].at \in {"run", "commit", "save", "verdict", "guard", "flag"}
  PROVE  thread[w] # Absent /\ thread[w] # Idle /\ thread[w].job \in Job
BY AtJob, AtSomewhere DEF NetTypeOK

LEMMA WorkerType ==
  ASSUME NetIInv, NEW w \in Workers, WorkerStep(w)
  PROVE  NetTypeOK'
<1> USE DEF NetIInv
<1>a. Here \in Processes /\ cache[Here] \in Config
  BY ServicesAssumption DEF PrefIInv, PrefTypeOK
<1>b. version \in Versions /\ 0 \in Versions /\ MaxVersion \in Versions
  BY PreferencesAssumption DEF NetTypeOK, Versions
<1>1. CASE Recv(w)
  <2>1. Head(queue[w]) \in Job /\ Tail(queue[w]) \in Seq(Job) /\ Len(Tail(queue[w])) <= QUEUE_CAPACITY
    BY <1>1, ServicesAssumption DEF Recv, NetTypeOK
  <2>2. thread' \in [Workers -> Threads]
    BY <1>1, <2>1, GotoType DEF Recv, NetTypeOK
  <2>3. /\ queue' \in [Workers -> Seq(Job)]
        /\ \A x \in Workers : Len(queue'[x]) <= QUEUE_CAPACITY
    BY <1>1, <2>1 DEF Recv, NetTypeOK
  <2> QED BY <1>1, <2>2, <2>3 DEF Recv, NetTypeOK, QuietNet
<1>2. CASE Disconnected(w)
  <2>1. Absent \in Threads
    BY DEF Threads
  <2> QED BY <1>2, <2>1 DEF Disconnected, NetTypeOK, QuietNet
<1>3. CASE SetVerdict(w)
  <2>1. thread[w].job \in Job
    BY <1>3, AtStep DEF SetVerdict, At
  <2>2. thread' \in [Workers -> Threads]
    BY <1>3, <2>1, GotoType DEF SetVerdict
  <2>3. status' \in Statuses
    <3>1. thread[w].job.latest \in Versions
      BY <1>3, <2>1, JobForms DEF SetVerdict, JobAt, Holds, Event
    <3> QED BY <1>3, <1>a, <1>b, <3>1, StatusTypes DEF SetVerdict
  <2> QED BY <1>3, <2>2, <2>3 DEF SetVerdict, NetTypeOK, QuietNet
<1>4. CASE DropGuard(w)
  <2>1. thread[w].job \in Job
    BY <1>4, AtStep DEF DropGuard, GuardDrop
  <2>2. thread' \in [Workers -> Threads]
    BY <1>4, <2>1, GotoType, DoneType DEF DropGuard
  <2>3. status' \in Statuses /\ in_flight' \in BOOLEAN
    BY <1>4, <1>a, <1>b, StatusTypes DEF DropGuard, GuardDrop, NetTypeOK
  <2> QED BY <1>4, <2>2, <2>3 DEF DropGuard, NetTypeOK, QuietNet
<1>5. CASE Post(w)
  <2>1. thread[w].job \in Job /\ thread[w].job.kind = "event"
    BY <1>5, AtStep DEF Post, At
  <2>2. thread' \in [Workers -> Threads]
    BY <1>5, <2>1, GotoType, DoneType DEF Post
  <2>3. delivered' \subseteq Versions
    <3>1. thread[w].job.from \in Versions
      BY <2>1, JobForms
    <3> QED BY <1>5, <3>1 DEF Post, NetTypeOK
  <2> QED BY <1>5, <2>2, <2>3 DEF Post, NetTypeOK, QuietNet
<1>6. CASE Commit(w)
  <2>1. thread[w].job \in Job
    BY <1>6, AtStep DEF Commit, At
  <2>2. thread' \in [Workers -> Threads]
    BY <1>6, <2>1, GotoType, DoneType DEF Commit
  <2> QED BY <1>6, <2>2 DEF Commit, NetTypeOK, QuietNet
<1>7. CASE Save(w)
  <2>1. thread[w].job \in Job
    BY <1>7, AtStep DEF Save, At
  <2>2. thread' \in [Workers -> Threads]
    BY <1>7, <2>1, GotoType, DoneType DEF Save, NetTypeOK
  <2> QED BY <1>7, <2>2 DEF Save, NetTypeOK, QuietNet
<1>8. ASSUME NEW latest \in {0, MaxVersion}, Record(w, latest)
      PROVE  NetTypeOK'
  <2>1. [check_job EXCEPT !.latest = latest] \in Job
    BY <1>b DEF check_job, Job, Check
  <2>2. thread' \in [Workers -> Threads]
    BY <1>8, <2>1, GotoType DEF Record
  <2> QED BY <1>8, <2>2 DEF Record, NetTypeOK, QuietNet
<1> QED BY <1>1, <1>2, <1>3, <1>4, <1>5, <1>6, <1>7, <1>8 DEF WorkerStep

LEMMA UnloadType ==
  ASSUME NetTypeOK, NEW i \in Instances, Unload(i)
  PROVE  NetTypeOK'
<1>1. thread' \in [Workers -> Threads]
  BY DEF Unload, NetTypeOK, Workers, Threads
<1>2. /\ queue' \in [Workers -> Seq(Job)]
      /\ \A x \in Workers : Len(queue'[x]) <= QUEUE_CAPACITY
  <2>a. queue["live"] \in Seq(Job) /\ Len(queue["live"]) <= QUEUE_CAPACITY
    BY DEF NetTypeOK, Workers
  <2>b. <<>> \in Seq(Job) /\ Len(<<>>) = 0
    OBVIOUS
  <2>c. \A q, r \in Seq(Job) : [live |-> q, old |-> r] \in [Workers -> Seq(Job)]
    BY DEF Workers
  <2>1. [live |-> <<>>, old |-> queue["live"]] \in [Workers -> Seq(Job)]
    BY <2>a, <2>b, <2>c
  <2> QED BY <2>a, <2>b, <2>1, ServicesAssumption DEF Unload, NetTypeOK, Workers
<1> QED BY <1>1, <1>2 DEF Unload, NetTypeOK

LEMMA InstanceType ==
  ASSUME NetIInv, NEW i \in Instances,
         \/ Load(i) \/ Unload(i) \/ CheckStep(i) \/ send(i) \/ flush_session(i) \/ track(i)
         \/ build(i) \/ check_now(i)
  PROVE  NetTypeOK'
<1> USE DEF NetIInv
<1>a. Here \in Processes /\ cache[Here] \in Config
  BY ServicesAssumption DEF PrefIInv, PrefTypeOK
<1>b. version \in Versions /\ 0 \in Versions
  BY PreferencesAssumption DEF NetTypeOK, Versions
<1>1. CASE Load(i)
  BY <1>1 DEF Load, NetTypeOK
<1>2. CASE Unload(i)
  BY <1>2, UnloadType
<1>3. CASE Announce(i)
  BY <1>3, <1>a, <1>b, StatusTypes DEF Announce, NetTypeOK
<1>4. CASE Enqueue(i)
  <2>1. check_job \in Job
    BY <1>b DEF check_job, Job, Check
  <2>2. i \in loaded
    BY <1>4 DEF Enqueue, Present
  <2>3. PICK accepted \in BOOLEAN :
          /\ try_send(i, check_job, accepted)
          /\ checker' = [checker EXCEPT ![i] = IF accepted THEN "no" ELSE "guard"]
    BY <1>4 DEF Enqueue
  <2>4. /\ attached' \subseteq loaded
        /\ thread' \in [Workers -> Threads]
        /\ queue' \in [Workers -> Seq(Job)]
        /\ \A w \in Workers : Len(queue'[w]) <= QUEUE_CAPACITY
    BY <2>1, <2>2, <2>3, TrySendType
  <2> QED BY <1>4, <2>3, <2>4 DEF Enqueue, NetTypeOK
<1>5. CASE RefusedCheck(i)
  BY <1>5, StatusTypes, <1>a, <1>b DEF RefusedCheck, GuardDrop, NetTypeOK
<1>6. CASE send(i)
  <2>1. i \in loaded /\ sending[i] \in Job
    BY <1>6 DEF send, Present, NetTypeOK, Job
  <2>2. CASE Config0.device_id
    <3>1. PICK accepted \in BOOLEAN : try_send(i, sending[i], accepted)
      BY <1>6, <2>2 DEF send
    <3>2. /\ attached' \subseteq loaded
          /\ thread' \in [Workers -> Threads]
          /\ queue' \in [Workers -> Seq(Job)]
          /\ \A w \in Workers : Len(queue'[w]) <= QUEUE_CAPACITY
      BY <2>1, <3>1, TrySendType
    <3> QED BY <1>6, <3>2 DEF send, NetTypeOK
  <2>3. CASE ~Config0.device_id
    BY <1>6, <2>3 DEF send, NetTypeOK
  <2> QED BY <2>2, <2>3
<1>7. CASE flush_session(i)
  <2>a. cache[Here].last_version \in Versions
    BY <1>a DEF Config
  <2>b. from_version \in Versions
    BY <2>a, <1>b DEF from_version, pending_upgrade_from, Config0
  <2>1. from_version \in Versions /\ commit_version \in BOOLEAN
    BY <2>b DEF commit_version, NetTypeOK
  <2>2. [kind |-> "event", commit |-> commit_version, from |-> from_version] \in Event
    BY <2>1 DEF Event
  <2> QED BY <1>7, <2>2 DEF flush_session, NetTypeOK
<1>8. CASE track(i)
  <2>1. [kind |-> "event", commit |-> FALSE, from |-> 0] \in Event
    BY <1>b DEF Event
  <2> QED BY <1>8, <2>1 DEF track, NetTypeOK
<1>9. CASE build(i) \/ check_now(i)
  BY <1>9 DEF build, check_now, BeginCheck, NetTypeOK
<1> QED BY <1>1, <1>2, <1>3, <1>4, <1>5, <1>6, <1>7, <1>8, <1>9 DEF CheckStep

LEMMA HostType ==
  ASSUME NetIInv, LaunchHere \/ Die \/ User \/ UISave \/ TearDown
  PROVE  NetTypeOK'
<1> USE DEF NetIInv
<1>b. Here \in Processes /\ version \in Versions
  BY ServicesAssumption DEF NetTypeOK
<1>1. CASE LaunchHere
  <2>1. version' \in Versions \ {0}
    BY <1>1, PreferencesAssumption DEF LaunchHere, NetTypeOK, Versions
  <2>2. lives' \in 0 .. MaxLives
    BY <1>1, ServicesAssumption DEF LaunchHere, NetTypeOK
  <2> QED BY <1>1, <2>1, <2>2, LoadedHonest, FreshType DEF LaunchHere, NetTypeOK
<1>2. CASE Die
  BY <1>2, <1>b, DefaultHonest, FreshType DEF Die, NetTypeOK
<1>3. CASE User
  <2>1. answers' \in 0 .. MaxAnswers
    BY <1>3, ServicesAssumption DEF User, NetTypeOK
  <2> QED BY <1>3, <2>1 DEF User, NetTypeOK
<1>4. CASE UISave
  BY <1>4 DEF UISave, NetTypeOK, netVars
<1>5. CASE TearDown
  BY <1>5 DEF TearDown, SetShutdown, DropSender, Join, NetTypeOK
<1> QED BY <1>1, <1>2, <1>3, <1>4, <1>5

LEMMA NetPrefStep == ASSUME NetIInv, Next PROVE PrefIInv'
<1> USE DEF NetIInv
<1>a. Here \in Processes
  BY ServicesAssumption
<1>1. CASE LaunchHere \/ Die
  BY <1>1, <1>a, LaunchStep, StopStep DEF LaunchHere, Die
<1>2. CASE User
  <2>1. CASE consent_modal
    BY <2>1, <1>a, AnswerStep, AnswerUpdatesStep
       DEF consent_modal, analytics_question, updates_question
  <2>2. CASE privacy_section
    <3>1. (~enabled(Config0)) \in BOOLEAN /\ (Config0.updates # "granted") \in BOOLEAN
      OBVIOUS
    <3> QED BY <2>2, <3>1, <1>a, AnswerStep, AnswerUpdatesStep DEF privacy_section
  <2>3. CASE update_section
    <3>1. status.v \in Versions
      BY <2>3 DEF update_section, notifies, NetTypeOK, Statuses
    <3> QED BY <2>3, <3>1, <1>a, SkipStep DEF update_section, Config0
  <2> QED BY <1>2, <2>1, <2>2, <2>3 DEF User
<1>3. CASE UISave
  BY <1>3, <1>a, SaveKeeps DEF UISave
<1>4. CASE TearDown
  BY <1>4, PrefUnchanged DEF TearDown
<1>5. ASSUME NEW i \in Instances,
             \/ Load(i) \/ Unload(i) \/ CheckStep(i) \/ send(i) \/ flush_session(i) \/ track(i)
             \/ build(i) \/ check_now(i)
      PROVE  UNCHANGED prefVars
  BY <1>5 DEF Load, Unload, CheckStep, Announce, Enqueue, RefusedCheck, send, flush_session, track,
              build, check_now, BeginCheck
<1>6. ASSUME NEW w \in Workers, WorkerStep(w)
      PROVE  PrefIInv'
  <2>1. CASE Recv(w) \/ Disconnected(w) \/ SetVerdict(w) \/ DropGuard(w) \/ Post(w)
    BY <2>1, PrefUnchanged DEF Recv, Disconnected, SetVerdict, DropGuard, Post
  <2>2. CASE Commit(w)
    BY <2>2, <1>a, CommitVersionStep DEF Commit, NetTypeOK
  <2>3. CASE Save(w)
    BY <2>3, <1>a, SaveKeeps DEF Save
  <2>4. ASSUME NEW latest \in {0, MaxVersion}, Record(w, latest)
        PROVE  PrefIInv'
    <3>1. latest \in Versions
      BY PreferencesAssumption DEF Versions
    <3> QED BY <2>4, <3>1, <1>a, RecordCheckStep DEF Record
  <2> QED BY <1>6, <2>1, <2>2, <2>3, <2>4 DEF WorkerStep
<1> QED BY <1>1, <1>2, <1>3, <1>4, <1>5, <1>6, PrefUnchanged DEF Next

LEMMA NetTypeStep == ASSUME NetIInv, Next PROVE NetTypeOK'
BY HostType, InstanceType, WorkerType DEF Next

-----------------------------------------------------------------------------
(***************************************************************************)
(* The threads.  The current worker's runs while an instance is attached   *)
(* to it, and a worker that is being joined runs until the join returns.   *)
(***************************************************************************)
Life ==
  /\ thread["live"] # Absent => attached # {}
  /\ thread["old"] # Absent => closing # "no"

\* A worker's step moves its own thread, which is there.
LEMMA OneThread ==
  ASSUME NetIInv, NEW w \in Workers, WorkerStep(w)
  PROVE  /\ thread[w] # Absent
         /\ \A x \in Workers : x # w => thread'[x] = thread[x]
         /\ QuietNet
<1>1. Idle # Absent
  BY DEF Idle, Absent
<1>2. CASE Recv(w) \/ Disconnected(w)
  BY <1>1, <1>2 DEF Recv, Disconnected, Goto, NetIInv, NetTypeOK
<1>3. CASE SetVerdict(w) \/ DropGuard(w) \/ Post(w) \/ Commit(w) \/ Save(w)
  <2>1. thread[w].at \in {"run", "commit", "save", "verdict", "guard", "flag"}
    BY <1>3 DEF SetVerdict, DropGuard, GuardDrop, Post, Commit, Save, At
  <2> QED BY <1>3, <2>1, AtStep
          DEF SetVerdict, DropGuard, Post, Commit, Save, Goto, Done, NetIInv, NetTypeOK
<1>4. ASSUME NEW latest \in {0, MaxVersion}, Record(w, latest)
      PROVE  thread[w] # Absent /\ (\A x \in Workers : x # w => thread'[x] = thread[x]) /\ QuietNet
  BY <1>4, AtStep DEF Record, At, Goto, NetIInv, NetTypeOK
<1> QED BY <1>2, <1>3, <1>4 DEF WorkerStep

\* Most other actions leave the threads alone, or make one idle or absent, or
\* move the current worker's to the one being joined.
LEMMA ThreadsMoved ==
  ASSUME NetIInv, \A x \in Workers : thread'[x] \in {Idle, Absent, thread[x], thread["live"]}
  PROVE  JobAt'
BY DEF NetIInv, JobAt, At, Holds, NetTypeOK, Workers, Idle, Absent

LEMMA WorkerJobAt ==
  ASSUME NetIInv, NEW w \in Workers, WorkerStep(w)
  PROVE  JobAt'
<1> USE DEF NetIInv
<1>a. ASSUME NEW at, NEW job \in Job, Goto(w, at, job),
             at \in {"verdict", "guard", "flag"} => job.kind = "check",
             at = "commit" => job.kind = "event"
      PROVE  JobAt'
  <2>1. thread'[w] = [at |-> at, job |-> job] /\ \A x \in Workers : x # w => thread'[x] = thread[x]
    BY <1>a DEF Goto, NetTypeOK
  <2>2. at \in {"verdict", "guard", "flag", "commit"} => thread'[w] \notin {Absent, Idle}
    BY <2>1 DEF Absent, Idle
  <2> QED BY <1>a, <2>1, <2>2 DEF JobAt, At, Holds
<1>b. ASSUME thread' = [thread EXCEPT ![w] = Idle] \/ thread' = [thread EXCEPT ![w] = Absent]
      PROVE  JobAt'
  BY <1>b, ThreadsMoved DEF NetTypeOK
<1>c. thread' = thread => JobAt'
  BY DEF JobAt, At, Holds
<1>1. CASE Recv(w)
  <2>1. Head(queue[w]) \in Job
    BY <1>1 DEF Recv, NetTypeOK
  <2>2. CASE w = "old" /\ closing # "dead" /\ Head(queue[w]).kind # "check"
    BY <1>1, <2>2, <1>c DEF Recv
  <2>3. CASE w = "old" /\ closing # "dead" /\ Head(queue[w]).kind = "check"
    <3>1. Goto(w, "guard", Head(queue[w]))
      BY <1>1, <2>3 DEF Recv
    <3> QED BY <3>1, <2>1, <2>3, <1>a
  <2>4. CASE ~(w = "old" /\ closing # "dead")
    <3>1. Goto(w, "run", Head(queue[w]))
      BY <1>1, <2>4 DEF Recv
    <3> QED BY <3>1, <2>1, <1>a
  <2> QED BY <2>2, <2>3, <2>4
<1>2. CASE Disconnected(w)
  BY <1>2, <1>b DEF Disconnected
<1>3. CASE SetVerdict(w)
  <2>1. thread[w].job \in Job /\ thread[w].job.kind = "check" /\ Goto(w, "guard", thread[w].job)
    BY <1>3, AtStep DEF SetVerdict, At, JobAt, Holds
  <2> QED BY <2>1, <1>a
<1>4. CASE DropGuard(w)
  <2>1. thread[w].job \in Job /\ thread[w].job.kind = "check"
    BY <1>4, AtStep DEF DropGuard, GuardDrop, At, JobAt, Holds
  <2> QED BY <1>4, <2>1, <1>a, <1>b DEF DropGuard, Done
<1>5. CASE Post(w)
  <2>1. thread[w].job \in Job /\ thread[w].job.kind = "event"
    BY <1>5, AtStep DEF Post, At
  <2> QED BY <1>5, <2>1, <1>a, <1>b DEF Post, Done
<1>6. CASE Commit(w)
  <2>1. thread[w].job \in Job
    BY <1>6, AtStep DEF Commit, At
  <2> QED BY <1>6, <2>1, <1>a, <1>b DEF Commit, Done
<1>7. CASE Save(w)
  <2>1. thread[w].job \in Job
    BY <1>7, AtStep DEF Save, At
  <2> QED BY <1>7, <2>1, <1>a, <1>b, <1>c DEF Save, Done
<1>8. ASSUME NEW latest \in {0, MaxVersion}, Record(w, latest)
      PROVE  JobAt'
  <2>1. [check_job EXCEPT !.latest = latest] \in Job
    BY PreferencesAssumption DEF check_job, Job, Check, Versions
  <2> QED BY <1>8, <2>1, <1>a DEF Record
<1> QED BY <1>1, <1>2, <1>3, <1>4, <1>5, <1>6, <1>7, <1>8 DEF WorkerStep

LEMMA TrySendThread ==
  ASSUME NetIInv, NEW i \in Instances, NEW job, NEW accepted, try_send(i, job, accepted)
  PROVE  /\ \A x \in Workers : thread'[x] \in {Idle, Absent, thread[x], thread["live"]}
         /\ thread'["old"] = thread["old"] /\ attached' = attached \cup {i}
BY DEF try_send, NetIInv, NetTypeOK, Workers

LEMMA LifeStep == ASSUME NetIInv, Life, Next PROVE JobAt' /\ Present' /\ Life'
<1> USE DEF NetIInv
<1>t. "live" \in Workers /\ "old" \in Workers
  BY DEF Workers
<1>a. thread' = thread => JobAt'
  BY DEF JobAt, At, Holds
<1>1. CASE LaunchHere \/ Die
  <2>1. /\ \A x \in Workers : thread'[x] = Absent
        /\ \A i \in Instances : checker'[i] = "no" /\ sending'[i] = NoJob
    BY <1>1 DEF LaunchHere, Die, Fresh
  <2>2. JobAt'
    BY <2>1, ThreadsMoved
  <2> QED BY <2>1, <2>2, <1>t DEF Present, Life
<1>2. CASE User \/ UISave \/ TearDown
  <2>1. thread' = thread /\ attached' = attached /\ loaded' = loaded
        /\ checker' = checker /\ sending' = sending
    BY <1>2 DEF User, UISave, TearDown, SetShutdown, DropSender, Join, netVars
  <2>2. closing' = "no" => closing = "no" \/ thread["old"] = Absent
    BY <1>2 DEF User, UISave, TearDown, SetShutdown, DropSender, Join, netVars
  <2> QED BY <2>1, <2>2, <1>a DEF Present, Life
<1>3. ASSUME NEW i \in Instances, Load(i)
      PROVE  JobAt' /\ Present' /\ Life'
  BY <1>3, <1>a DEF Load, Present, Life
<1>4. ASSUME NEW i \in Instances, Unload(i)
      PROVE  JobAt' /\ Present' /\ Life'
  <2>1. \A x \in Workers : thread'[x] \in {Idle, Absent, thread[x], thread["live"]}
    BY <1>4 DEF Unload, Workers
  <2>2. Life'
    BY <1>4 DEF Unload, Life
  <2> QED BY <1>4, <2>1, <2>2, ThreadsMoved DEF Unload, Present
<1>5. ASSUME NEW i \in Instances,
             \/ Announce(i) \/ RefusedCheck(i) \/ flush_session(i) \/ track(i)
             \/ build(i) \/ check_now(i)
      PROVE  JobAt' /\ Present' /\ Life'
  <2>1. thread' = thread /\ attached' = attached /\ closing' = closing /\ loaded' = loaded
    BY <1>5 DEF Announce, RefusedCheck, flush_session, track, build, check_now, BeginCheck
  <2>2. Present'
    BY <1>5 DEF Announce, RefusedCheck, GuardDrop, flush_session, track, build, check_now, BeginCheck,
                Present, NetTypeOK
  <2> QED BY <2>1, <2>2, <1>a DEF Life
<1>6. ASSUME NEW i \in Instances, Enqueue(i) \/ send(i)
      PROVE  JobAt' /\ Present' /\ Life'
  <2>1. loaded' = loaded /\ closing' = closing
    BY <1>6 DEF Enqueue, send
  <2>2. Present'
    BY <1>6 DEF Enqueue, send, Present, NetTypeOK
  <2>3. \/ attached' = attached /\ thread' = thread
        \/ \E job, accepted : try_send(i, job, accepted)
    BY <1>6 DEF Enqueue, send
  <2> QED BY <2>1, <2>2, <2>3, <1>a, TrySendThread, ThreadsMoved DEF Life
<1>7. ASSUME NEW w \in Workers, WorkerStep(w)
      PROVE  JobAt' /\ Present' /\ Life'
  <2>1. Present'
    BY <1>7, OneThread DEF QuietNet, Present
  <2>2. Life'
    BY <1>7, <1>t, OneThread DEF QuietNet, Life
  <2> QED BY <1>7, <2>1, <2>2, WorkerJobAt
<1> QED BY <1>1, <1>2, <1>3, <1>4, <1>5, <1>6, <1>7 DEF Next, CheckStep

LEMMA NetStuttering == ASSUME NetIInv, UNCHANGED vars PROVE NetIInv'
<1>1. PrefIInv'
  BY PrefUnchanged DEF vars, NetIInv
<1> QED BY <1>1 DEF vars, netVars, NetIInv, NetTypeOK, JobAt, At, Holds, Present

LEMMA NetOpens == Init => NetIInv /\ Life
<1> SUFFICES ASSUME Init PROVE NetIInv /\ Life
  OBVIOUS
<1>1. LastRun \in Config /\ Honest(LastRun)
  <2>1. 0 \in Versions /\ 1 \in Versions
    BY PreferencesAssumption DEF Versions
  <2> QED BY <2>1, DefaultHonest, MutationsHonest DEF LastRun
<1>2. file \in {NoFile, LastRun} /\ said \in Answers
  BY <1>1, DefaultHonest DEF Init, load_from, Config
<1>3. PrefIInv
  BY <1>1, <1>2, FilesAssumption, PrefOpens DEF Init
<1>4. Absent \in Threads /\ Plain("Unknown") \in Statuses
  BY DEF Threads, Plain, Statuses
<1>5. \A x \in Workers : thread[x] = Absent
  BY DEF Init
<1>6. /\ queue \in [Workers -> Seq(Job)] /\ \A w \in Workers : Len(queue[w]) <= QUEUE_CAPACITY
  BY ServicesAssumption DEF Init
<1>7. NetTypeOK
  <2>1. thread \in [Workers -> Threads] /\ status \in Statuses
    BY <1>4 DEF Init
  <2>2. answers \in 0 .. MaxAnswers /\ lives \in 0 .. MaxLives
    BY ServicesAssumption DEF Init
  <2>3. /\ checker \in [Instances -> {"no", "claimed", "announced", "guard", "flag"}]
        /\ sending \in [Instances -> Event \cup {NoJob}]
        /\ session_sent \subseteq Instances /\ delivered \subseteq Versions
        /\ attached \subseteq loaded /\ loaded \subseteq Instances
    BY DEF Init
  <2> QED BY <1>6, <2>1, <2>2, <2>3 DEF Init, NetTypeOK
<1>8. JobAt
  BY <1>5 DEF JobAt, At, Absent
<1>9. Present /\ Life
  BY <1>5 DEF Init, Present, Life, Workers
<1> QED BY <1>3, <1>7, <1>8, <1>9 DEF NetIInv

LEMMA ServicesInvariant == Spec => [](NetIInv /\ Life)
<1>1. NetIInv /\ Life /\ [Next]_vars => (NetIInv /\ Life)'
  <2>1. CASE UNCHANGED vars
    BY <2>1, NetStuttering DEF Life, vars, netVars
  <2>2. CASE Next
    BY <2>2, NetPrefStep, NetTypeStep, LifeStep DEF NetIInv
  <2> QED BY <2>1, <2>2
<1> QED BY <1>1, NetOpens, PTL DEF Spec

(***************************************************************************)
(* NoIdWithoutConsent, in the process that runs the services as well.      *)
(***************************************************************************)
THEOREM ServicesKeepConsent == Spec => []NoIdWithoutConsent
<1>1. NetIInv => NoIdWithoutConsent
  BY DEF NetIInv, PrefIInv
<1> QED BY <1>1, ServicesInvariant, PTL

\* A step of the services leaves the last answer where it belongs.
LEMMA NetAnswerStep == ASSUME NetIInv, AnswerInv(Here), Next PROVE AnswerInv(Here)'
<1> USE DEF NetIInv
<1>a. Here \in Processes
  BY ServicesAssumption
<1>1. CASE LaunchHere \/ Die
  BY <1>1, <1>a, LaunchCarries, StopCarries DEF LaunchHere, Die
<1>2. CASE User
  <2>1. CASE consent_modal
    BY <2>1, <1>a, AnswerCarries DEF consent_modal, analytics_question, updates_question
  <2>2. CASE privacy_section
    <3>1. (~enabled(Config0)) \in BOOLEAN /\ (Config0.updates # "granted") \in BOOLEAN
      OBVIOUS
    <3> QED BY <2>2, <3>1, <1>a, AnswerCarries DEF privacy_section
  <2>3. CASE update_section
    <3>1. status.v \in Versions
      BY <2>3 DEF update_section, notifies, NetTypeOK, Statuses
    <3> QED BY <2>3, <3>1, <1>a, OthersCarry DEF update_section, Config0
  <2> QED BY <1>2, <2>1, <2>2, <2>3 DEF User
<1>3. CASE UISave
  BY <1>3, <1>a, SaveCarries DEF UISave
<1>4. CASE TearDown
  BY <1>4, <1>a, AnswerUnchanged DEF TearDown
<1>5. ASSUME NEW i \in Instances,
             \/ Load(i) \/ Unload(i) \/ CheckStep(i) \/ send(i) \/ flush_session(i) \/ track(i)
             \/ build(i) \/ check_now(i)
      PROVE  UNCHANGED prefVars
  BY <1>5 DEF Load, Unload, CheckStep, Announce, Enqueue, RefusedCheck, send, flush_session, track,
              build, check_now, BeginCheck
<1>6. ASSUME NEW w \in Workers, WorkerStep(w)
      PROVE  AnswerInv(Here)'
  <2>1. CASE Recv(w) \/ Disconnected(w) \/ SetVerdict(w) \/ DropGuard(w) \/ Post(w)
    BY <2>1, <1>a, AnswerUnchanged DEF Recv, Disconnected, SetVerdict, DropGuard, Post
  <2>2. CASE Commit(w)
    BY <2>2, <1>a, CommitCarries DEF Commit, NetTypeOK
  <2>3. CASE Save(w)
    BY <2>3, <1>a, SaveCarries DEF Save
  <2>4. ASSUME NEW latest \in {0, MaxVersion}, Record(w, latest)
        PROVE  AnswerInv(Here)'
    <3>1. latest \in Versions
      BY PreferencesAssumption DEF Versions
    <3> QED BY <2>4, <3>1, <1>a, OthersCarry DEF Record
  <2> QED BY <1>6, <2>1, <2>2, <2>3, <2>4 DEF WorkerStep
<1> QED BY <1>a, <1>1, <1>2, <1>3, <1>4, <1>5, <1>6, AnswerUnchanged DEF Next

(***************************************************************************)
(* The last answer stands beside checks, reports and commits, which save   *)
(* the same file: each mutates the copy that carries it.                   *)
(***************************************************************************)
THEOREM ServicesKeepAnswer == Spec => []LastAnswerHolds
<1>a. Here \in Processes
  BY ServicesAssumption
<1>1. Init => AnswerInv(Here)
  <2> SUFFICES ASSUME Init PROVE AnswerInv(Here)
    OBVIOUS
  <2>1. CASE file = NoFile
    BY <2>1, <1>a DEF Init, PrefOpen, AnswerInv, load_from, Default
  <2>2. CASE file = LastRun
    <3>1. LastRun \in Config
      <4>1. 0 \in Versions /\ 1 \in Versions
        BY PreferencesAssumption DEF Versions
      <4> QED BY <4>1, DefaultHonest, MutationsHonest DEF LastRun
    <3> HIDE DEF LastRun
    <3> QED BY <2>2, <3>1, <1>a, FilesAssumption DEF Init, PrefOpen, AnswerInv, load_from
  <2> QED BY <2>1, <2>2 DEF Init
<1>2. NetIInv /\ AnswerInv(Here) /\ [Next]_vars => AnswerInv(Here)'
  BY <1>a, NetAnswerStep, AnswerUnchanged DEF vars
<1>3. AnswerInv(Here) => LastAnswerHolds
  BY <1>a, AnswerKept
<1> QED BY <1>1, <1>2, <1>3, ServicesInvariant, PTL DEF Spec

(***************************************************************************)
(* net.rs rule 1: once the last instance is gone and its unload has        *)
(* returned, no worker thread is left to run code of an unloaded bundle.   *)
(***************************************************************************)
THEOREM ThreadsJoined == Spec => []NoThreadOutlivesInstances
<1>1. NetIInv /\ Life => NoThreadOutlivesInstances
  BY DEF NetIInv, NetTypeOK, Life, NoThreadOutlivesInstances, Workers
<1> QED BY <1>1, ServicesInvariant, PTL

-----------------------------------------------------------------------------
(***************************************************************************)
(* The claim on the update check (IN_FLIGHT).  A call of check(), a job in *)
(* a channel or a job on a thread holds it, and never two of them: the     *)
(* CheckGuard moves from one to the next.                                  *)
(***************************************************************************)
Asking   == {i \in Instances : checker[i] # "no"}
Slots(w) == {k \in DOMAIN queue[w] : queue[w][k].kind = "check"}
Checking == {w \in Workers : Holds(w, "check")}

OneHolder ==
  /\ \A i, j \in Asking : i = j
  /\ \A w, x \in Workers : \A k \in Slots(w), l \in Slots(x) : w = x /\ k = l
  /\ \A w, x \in Checking : w = x
  /\ Asking # {} => Checking = {} /\ \A w \in Workers : Slots(w) = {}
  /\ Checking # {} => \A w \in Workers : Slots(w) = {}

Claim ==
  /\ OneHolder
  /\ Asking # {} \/ Checking # {} \/ Queued("check") => in_flight
  /\ Undecided => status.is = "Checking"

LEMMA QueuedSlots == Queued("check") <=> \E w \in Workers : Slots(w) # {}
BY DEF Queued, Slots

\* A step that takes and passes on no claim, and leaves what shows alone.
LEMMA ClaimKept ==
  ASSUME Claim, Asking' \subseteq Asking, Checking' \subseteq Checking,
         \A w \in Workers : Slots(w)' \subseteq Slots(w),
         \A i \in Instances : checker'[i] = "announced" => checker[i] = "announced",
         \A w \in Checking' : thread'[w] = thread[w],
         in_flight' = in_flight, status' = status
  PROVE  Claim'
<1>1. OneHolder'
  BY DEF Claim, OneHolder
<1>2. Queued("check")' => Queued("check")
  BY DEF Queued, Slots
<1>3. Undecided' => Undecided
  <2>1. \A w \in Workers : Holds(w, "check")' => Holds(w, "check") /\ thread'[w] = thread[w]
    BY DEF Checking
  <2> QED BY <1>2, <2>1 DEF Undecided
<1> QED BY <1>1, <1>2, <1>3 DEF Claim

\* The claim is given back: nobody holds it.
LEMMA ClaimReleased ==
  ASSUME Asking' = {}, Checking' = {}, \A w \in Workers : Slots(w)' = {}
  PROVE  Claim'
<1>1. ~Queued("check")'
  BY DEF Queued, Slots
<1>2. ~Undecided'
  BY <1>1 DEF Undecided, Asking, Checking
<1> QED BY <1>1, <1>2 DEF Claim, OneHolder

\* A call that holds the claim still holds it.
LEMMA ClaimAsked ==
  ASSUME NEW i \in Instances, Asking' = {i}, Checking' = {}, \A w \in Workers : Slots(w)' = {},
         in_flight', checker'[i] = "announced" => status'.is = "Checking"
  PROVE  Claim'
<1>1. ~Queued("check")'
  BY DEF Queued, Slots
<1>2. Undecided' => status'.is = "Checking"
  BY <1>1 DEF Undecided, Asking, Checking
<1> QED BY <1>1, <1>2 DEF Claim, OneHolder

\* The thread that runs the job holds it.
LEMMA ClaimRun ==
  ASSUME NEW w \in Workers, Asking' = {}, Checking' = {w}, \A x \in Workers : Slots(x)' = {},
         in_flight', thread'[w].at \in {"run", "save", "verdict"} => status'.is = "Checking"
  PROVE  Claim'
<1>1. ~Queued("check")'
  BY DEF Queued, Slots
<1>2. Undecided' => status'.is = "Checking"
  <2>1. \A i \in Instances : checker'[i] = "no"
    BY DEF Asking
  <2>2. \A x \in Workers : Holds(x, "check")' => x = w
    BY DEF Checking
  <2> QED BY <1>1, <2>1, <2>2 DEF Undecided
<1> QED BY <1>1, <1>2 DEF Claim, OneHolder

\* The job in the channel holds it.
LEMMA ClaimQueued ==
  ASSUME NEW w \in Workers, NEW k, Asking' = {}, Checking' = {},
         \A x \in Workers : \A l \in Slots(x)' : x = w /\ l = k,
         in_flight', status'.is = "Checking"
  PROVE  Claim'
BY DEF Claim, OneHolder

LEMMA Alone ==
  ASSUME Claim
  PROVE  /\ \A i \in Asking : Asking = {i} /\ Checking = {} /\ (\A x \in Workers : Slots(x) = {}) /\ in_flight
         /\ \A w \in Checking :
              Asking = {} /\ Checking = {w} /\ (\A x \in Workers : Slots(x) = {}) /\ in_flight
         /\ \A w \in Workers : \A k \in Slots(w) :
              /\ Asking = {} /\ Checking = {} /\ in_flight /\ status.is = "Checking"
              /\ \A x \in Workers : \A l \in Slots(x) : x = w /\ l = k
         /\ ~in_flight => Asking = {} /\ Checking = {} /\ \A w \in Workers : Slots(w) = {}
<1>1. \A i \in Asking : Asking = {i} /\ Checking = {} /\ (\A x \in Workers : Slots(x) = {}) /\ in_flight
  BY DEF Claim, OneHolder
<1>2. \A w \in Checking :
        Asking = {} /\ Checking = {w} /\ (\A x \in Workers : Slots(x) = {}) /\ in_flight
  <2>1. Checking \subseteq Workers
    BY DEF Checking
  <2> QED BY <2>1 DEF Claim, OneHolder
<1>3. ASSUME NEW w \in Workers, NEW k \in Slots(w)
      PROVE  /\ Asking = {} /\ Checking = {} /\ in_flight /\ status.is = "Checking"
             /\ \A x \in Workers : \A l \in Slots(x) : x = w /\ l = k
  <2>1. Queued("check")
    BY QueuedSlots
  <2> QED BY <2>1 DEF Claim, OneHolder, Undecided
<1>4. ~in_flight => Asking = {} /\ Checking = {} /\ \A w \in Workers : Slots(w) = {}
  BY QueuedSlots DEF Claim
<1> QED BY <1>1, <1>2, <1>3, <1>4

\* What a step leaves of the three places, from the variables it leaves alone.
LEMMA PlacesKept ==
  /\ checker' = checker => Asking' = Asking
  /\ thread' = thread => Checking' = Checking
  /\ \A w \in Workers : queue'[w] = queue[w] => Slots(w)' = Slots(w)
BY DEF Asking, Checking, Holds, Slots

LEMMA CallClaim ==
  ASSUME NetIInv, Life, Claim, NEW i \in Instances,
         build(i) \/ check_now(i) \/ Announce(i) \/ Enqueue(i) \/ RefusedCheck(i)
  PROVE  Claim'
<1> USE DEF NetIInv
<1>a. checker \in [Instances -> {"no", "claimed", "announced", "guard", "flag"}]
  BY DEF NetTypeOK
<1>1. CASE build(i) \/ check_now(i)
  <2>1. /\ ~in_flight /\ in_flight' = TRUE /\ thread' = thread /\ queue' = queue
        /\ checker' = [checker EXCEPT ![i] = "claimed"]
    BY <1>1 DEF build, check_now, BeginCheck
  <2>2. Asking' = {i} /\ checker'[i] = "claimed"
    BY <1>a, <2>1, Alone DEF Asking
  <2>3. Checking' = {} /\ \A w \in Workers : Slots(w)' = {}
    BY <2>1, Alone, PlacesKept
  <2> QED BY <2>1, <2>2, <2>3, ClaimAsked
<1>2. CASE Announce(i)
  <2>1. /\ i \in Asking /\ thread' = thread /\ queue' = queue /\ in_flight' = in_flight
        /\ checker' = [checker EXCEPT ![i] = "announced"] /\ status'.is = "Checking"
    BY <1>2 DEF Announce, Asking, Plain
  <2>2. Asking' = {i}
    BY <1>a, <2>1, Alone DEF Asking
  <2>3. Checking' = {} /\ (\A w \in Workers : Slots(w)' = {}) /\ in_flight'
    BY <2>1, Alone, PlacesKept
  <2> QED BY <2>1, <2>2, <2>3, ClaimAsked
<1>3. CASE Enqueue(i)
  <2>1. PICK accepted \in BOOLEAN :
          /\ try_send(i, check_job, accepted)
          /\ checker' = [checker EXCEPT ![i] = IF accepted THEN "no" ELSE "guard"]
    BY <1>3 DEF Enqueue
  <2>2. i \in Asking /\ in_flight' = in_flight /\ status' = status /\ checker[i] = "announced"
    BY <1>3 DEF Enqueue, Asking
  <2>3. status.is = "Checking"
    BY <2>2 DEF Claim, Undecided
  <2>4. Checking' = {}
    <3>1. \A w \in Workers : thread'[w] \in {Idle, Absent, thread[w], thread["live"]}
      BY <2>1, TrySendThread
    <3> QED BY <3>1, <2>2, Alone DEF Checking, Holds, Workers
  <2>5. CASE accepted
    <3>1. Asking' = {}
      BY <1>a, <2>1, <2>2, <2>5, Alone DEF Asking
    <3>2. queue["live"] \in Seq(Job) /\ queue' = [queue EXCEPT !["live"] = Append(@, check_job)]
      BY <2>1, <2>5 DEF try_send, NetTypeOK, Workers
    <3>3. \A w \in Workers : w # "live" => Slots(w)' = {}
      BY <3>2, <2>2, Alone, PlacesKept DEF NetTypeOK
    <3>4. \A l \in Slots("live")' : l = Len(queue["live"]) + 1
      <4>1. queue'["live"] = Append(queue["live"], check_job)
        BY <3>2 DEF NetTypeOK, Workers
      <4>2. Slots("live") = {}
        BY <2>2, Alone DEF Workers
      <4>3. \A l \in 1 .. Len(queue["live"]) : queue'["live"][l] = queue["live"][l]
        BY <3>2, <4>1
      <4>4. DOMAIN queue'["live"] = 1 .. (Len(queue["live"]) + 1)
        BY <3>2, <4>1 DEF check_job
      <4> QED BY <3>2, <4>2, <4>3, <4>4 DEF Slots
    <3> QED BY <3>1, <3>3, <3>4, <2>2, <2>3, <2>4, ClaimQueued, Alone DEF Workers
  <2>6. CASE ~accepted
    <3>1. Asking' = {i} /\ checker'[i] = "guard"
      BY <1>a, <2>1, <2>2, <2>6, Alone DEF Asking
    <3>2. queue' = queue
      BY <2>1, <2>6 DEF try_send
    <3>3. (\A w \in Workers : Slots(w)' = {}) /\ in_flight'
      BY <3>2, <2>2, Alone, PlacesKept
    <3> QED BY <3>1, <3>3, <2>4, ClaimAsked
  <2> QED BY <2>5, <2>6
<1>4. CASE RefusedCheck(i)
  <2>1. i \in Asking /\ thread' = thread /\ queue' = queue
    BY <1>4 DEF RefusedCheck, GuardDrop, Asking
  <2>2. Checking' = {} /\ \A w \in Workers : Slots(w)' = {}
    BY <2>1, Alone, PlacesKept
  <2>3. CASE checker[i] = "guard"
    <3>1. checker' = [checker EXCEPT ![i] = "flag"] /\ in_flight' = in_flight
      BY <1>4, <2>3 DEF RefusedCheck, GuardDrop
    <3>2. Asking' = {i} /\ checker'[i] = "flag"
      BY <1>a, <2>1, <3>1, Alone DEF Asking
    <3> QED BY <2>1, <2>2, <3>1, <3>2, Alone, ClaimAsked
  <2>4. CASE checker[i] # "guard"
    <3>1. checker' = [checker EXCEPT ![i] = "no"]
      BY <1>4, <2>4 DEF RefusedCheck
    <3>2. Asking' = {}
      BY <1>a, <2>1, <3>1, Alone DEF Asking
    <3> QED BY <2>2, <3>2, ClaimReleased
  <2> QED BY <2>3, <2>4
<1> QED BY <1>1, <1>2, <1>3, <1>4

\* The step of a thread that runs the check: it goes on, or is done with it.
LEMMA RunClaim ==
  ASSUME NetIInv, Claim, NEW w \in Checking, checker' = checker, queue' = queue, in_flight' = in_flight,
         NEW at \in {"save", "verdict", "guard", "flag"}, NEW job \in Check, Goto(w, at, job),
         at \in {"save", "verdict"} => status'.is = "Checking"
  PROVE  Claim'
<1>1. w \in Workers /\ thread \in [Workers -> Threads]
  BY DEF Checking, NetIInv, NetTypeOK
<1>2. thread'[w] = [at |-> at, job |-> job] /\ \A x \in Workers : x # w => thread'[x] = thread[x]
  BY <1>1 DEF Goto
<1>3. thread'[w] \notin {Absent, Idle} /\ job.kind = "check"
  BY <1>2 DEF Absent, Idle, Check
<1>4. Checking' = {w}
  BY <1>1, <1>2, <1>3, Alone DEF Checking, Holds
<1>5. Asking' = {} /\ (\A x \in Workers : Slots(x)' = {}) /\ in_flight'
  BY <1>1, Alone, PlacesKept
<1> QED BY <1>1, <1>2, <1>4, <1>5, ClaimRun

\* A thread that holds no check goes from step to step, and takes none.
LEMMA OtherRun ==
  ASSUME NetIInv, Claim, NEW w \in Workers, w \notin Checking',
         \A x \in Workers : x # w => thread'[x] = thread[x],
         \A x \in Workers : Slots(x)' \subseteq Slots(x),
         checker' = checker, in_flight' = in_flight, status' = status
  PROVE  Claim'
<1>1. Checking' \subseteq Checking /\ \A x \in Checking' : thread'[x] = thread[x]
  BY DEF Checking, Holds
<1> QED BY <1>1, PlacesKept, ClaimKept

LEMMA CheckJob ==
  ASSUME NetIInv, NEW w \in Workers,
         thread[w].at \in {"run", "commit", "save", "verdict", "guard", "flag"},
         thread[w].job.kind = "check"
  PROVE  w \in Checking /\ thread[w].job \in Check
BY AtStep, JobForms DEF NetIInv, Checking, Holds, Event

LEMMA RecvClaim ==
  ASSUME NetIInv, Claim, NEW w \in Workers, Recv(w)
  PROVE  Claim'
<1> USE DEF NetIInv
<1>a. /\ queue[w] \in Seq(Job) /\ queue[w] # <<>> /\ thread[w] = Idle
      /\ queue' = [queue EXCEPT ![w] = Tail(@)]
      /\ checker' = checker /\ in_flight' = in_flight /\ status' = status
  BY DEF Recv, QuietNet, NetTypeOK
<1>b. \A x \in Workers : x # w => queue'[x] = queue[x] /\ thread'[x] = thread[x]
  BY <1>a DEF Recv, Goto, NetTypeOK
<1>c. queue'[w] = Tail(queue[w])
  BY <1>a DEF NetTypeOK
<1>d. \A l \in Slots(w)' : l \in Nat \ {0} /\ l + 1 \in Slots(w)
  <2>1. \A l \in DOMAIN Tail(queue[w]) :
          l \in Nat \ {0} /\ l + 1 \in DOMAIN queue[w] /\ Tail(queue[w])[l] = queue[w][l + 1]
    BY <1>a
  <2> QED BY <1>c, <2>1 DEF Slots
<1>e. Head(queue[w]) = queue[w][1] /\ 1 \in DOMAIN queue[w] /\ Head(queue[w]) \in Job
  BY <1>a
<1>1. CASE Head(queue[w]).kind = "check"
  <2>1. 1 \in Slots(w)
    BY <1>1, <1>e DEF Slots
  <2>2. \A x \in Workers : Slots(x)' = {}
    <3>1. \A k \in Slots(w) : k = 1
      BY <2>1, Alone
    <3>2. Slots(w)' = {}
      BY <1>d, <3>1
    <3>3. \A x \in Workers : x # w => Slots(x)' = {}
      BY <1>b, <2>1, Alone, PlacesKept
    <3> QED BY <3>2, <3>3
  <2>3. /\ thread' = [thread EXCEPT ![w] = [at |-> "guard", job |-> Head(queue[w])]]
           \/ thread' = [thread EXCEPT ![w] = [at |-> "run", job |-> Head(queue[w])]]
    BY <1>1 DEF Recv, Goto
  <2>4. thread'[w] \notin {Absent, Idle} /\ thread'[w].job = Head(queue[w])
    BY <2>3 DEF Absent, Idle, NetTypeOK
  <2>5. Checking' = {w}
    BY <2>1, <2>4, <1>1, <1>b, Alone DEF Checking, Holds
  <2> QED BY <1>a, <2>1, <2>2, <2>5, Alone, ClaimRun, PlacesKept
<1>2. CASE Head(queue[w]).kind # "check"
  <2>1. w \notin Checking'
    <3>1. \/ thread' = thread
          \/ \E at : thread' = [thread EXCEPT ![w] = [at |-> at, job |-> Head(queue[w])]]
      BY <1>2 DEF Recv, Goto
    <3> QED BY <3>1, <1>2, <1>a DEF Checking, Holds, NetTypeOK
  <2>2. CASE Slots(w)' = {}
    <3>1. \A x \in Workers : Slots(x)' \subseteq Slots(x)
      BY <2>2, <1>b, PlacesKept
    <3> QED BY <3>1, <2>1, <1>a, <1>b, OtherRun
  <2>3. CASE Slots(w)' # {}
    <3>1. PICK l \in Slots(w)' : TRUE
      BY <2>3
    <3>2. l + 1 \in Slots(w) /\ \A x \in Workers : \A m \in Slots(x) : x = w /\ m = l + 1
      BY <3>1, <1>d, Alone
    <3>3. Asking' = {} /\ in_flight' /\ status'.is = "Checking"
      BY <3>2, <1>a, Alone, PlacesKept
    <3>4. Checking' = {}
      BY <2>1, <1>b, <3>2, Alone DEF Checking, Holds
    <3>5. \A x \in Workers : \A m \in Slots(x)' : x = w /\ m = l
      <4>1. \A m \in Slots(w)' : m = l
        BY <1>d, <3>1, <3>2
      <4>2. \A x \in Workers : x # w => Slots(x)' = {}
        BY <1>b, <3>2, PlacesKept
      <4> QED BY <4>1, <4>2
    <3> QED BY <3>3, <3>4, <3>5, ClaimQueued
  <2> QED BY <2>2, <2>3
<1> QED BY <1>1, <1>2

LEMMA WorkerClaim ==
  ASSUME NetIInv, Claim, NEW w \in Workers, WorkerStep(w)
  PROVE  Claim'
<1> USE DEF NetIInv
<1>a. checker' = checker /\ \A x \in Workers : x # w => thread'[x] = thread[x]
  BY OneThread DEF QuietNet
<1>b. queue' = queue => \A x \in Workers : Slots(x)' \subseteq Slots(x)
  BY PlacesKept
<1>c. ASSUME Done(w) PROVE w \notin Checking'
  BY <1>c DEF Done, Checking, Holds, NetTypeOK
<1>d. ASSUME NEW at, Goto(w, at, thread[w].job), w \notin Checking, thread[w] \notin {Absent, Idle}
      PROVE  w \notin Checking'
  BY <1>d DEF Goto, Checking, Holds, NetTypeOK
<1>e. w \in Checking /\ thread[w].at \in {"run", "save", "verdict"} => status.is = "Checking"
  BY DEF Claim, Undecided, Checking
<1>1. CASE Recv(w)
  BY <1>1, RecvClaim
<1>2. CASE Disconnected(w)
  <2>1. w \notin Checking'
    BY <1>2 DEF Disconnected, Checking, Holds, NetTypeOK
  <2>2. queue' = queue /\ in_flight' = in_flight /\ status' = status
    BY <1>2 DEF Disconnected
  <2> QED BY <2>1, <2>2, <1>a, <1>b, OtherRun
<1>3. CASE SetVerdict(w)
  <2>1. /\ thread[w].at = "verdict" /\ queue' = queue /\ in_flight' = in_flight
        /\ Goto(w, "guard", thread[w].job)
    BY <1>3 DEF SetVerdict, At
  <2>2. w \in Checking /\ thread[w].job \in Check
    BY <2>1, CheckJob DEF JobAt, At, Holds
  <2> QED BY <2>1, <2>2, <1>a, RunClaim
<1>4. CASE DropGuard(w)
  <2>1. thread[w].at \in {"guard", "flag"} /\ queue' = queue
    BY <1>4 DEF DropGuard, GuardDrop
  <2>2. w \in Checking /\ thread[w].job \in Check
    BY <2>1, CheckJob DEF JobAt, At, Holds
  <2>3. CASE thread[w].at = "guard"
    <3>1. in_flight' = in_flight /\ Goto(w, "flag", thread[w].job)
      BY <1>4, <2>3 DEF DropGuard, GuardDrop, At
    <3> QED BY <2>1, <2>2, <3>1, <1>a, RunClaim
  <2>4. CASE thread[w].at = "flag"
    <3>1. w \notin Checking'
      BY <1>4, <2>4, <1>c DEF DropGuard, At
    <3>2. Checking' = {}
      BY <3>1, <2>2, <1>a, Alone DEF Checking, Holds
    <3>3. Asking' = {} /\ \A x \in Workers : Slots(x)' = {}
      BY <1>a, <2>1, <2>2, Alone, PlacesKept
    <3> QED BY <3>2, <3>3, ClaimReleased
  <2> QED BY <2>1, <2>3, <2>4
<1>5. CASE Post(w) \/ Commit(w)
  <2>1. /\ queue' = queue /\ in_flight' = in_flight /\ status' = status
        /\ thread[w].at \in {"run", "commit"}
    BY <1>5 DEF Post, Commit, At
  <2>2. w \notin Checking
    BY <1>5 DEF Post, Commit, JobAt, Holds, Checking
  <2>3. w \notin Checking'
    <3>1. thread[w] \notin {Absent, Idle}
      BY <2>1, AtStep
    <3> QED BY <1>5, <2>2, <3>1, <1>c, <1>d DEF Post, Commit
  <2> QED BY <2>1, <2>3, <1>a, <1>b, OtherRun
<1>6. CASE Save(w)
  <2>1. queue' = queue /\ in_flight' = in_flight /\ status' = status /\ thread[w].at = "save"
    BY <1>6 DEF Save, At
  <2>2. CASE saving[Here] # "full"
    <3>1. thread' = thread
      BY <1>6, <2>2 DEF Save
    <3> QED BY <2>1, <3>1, <1>a, <1>b, ClaimKept, PlacesKept
  <2>3. CASE saving[Here] = "full" /\ thread[w].job.kind = "check"
    <3>1. Goto(w, "verdict", thread[w].job)
      BY <1>6, <2>3 DEF Save
    <3>2. w \in Checking /\ thread[w].job \in Check
      BY <2>1, <2>3, CheckJob
    <3> QED BY <2>1, <3>1, <3>2, <1>a, <1>e, RunClaim
  <2>4. CASE saving[Here] = "full" /\ thread[w].job.kind # "check"
    <3>1. w \notin Checking'
      BY <1>6, <2>4, <1>c DEF Save
    <3> QED BY <2>1, <3>1, <1>a, <1>b, OtherRun
  <2> QED BY <2>2, <2>3, <2>4
<1>7. ASSUME NEW latest \in {0, MaxVersion}, Record(w, latest)
      PROVE  Claim'
  <2>1. /\ queue' = queue /\ in_flight' = in_flight /\ status' = status
        /\ thread[w].at = "run" /\ thread[w].job.kind = "check"
        /\ Goto(w, "save", [check_job EXCEPT !.latest = latest])
    BY <1>7 DEF Record, At
  <2>2. w \in Checking
    BY <2>1, CheckJob
  <2>3. [check_job EXCEPT !.latest = latest] \in Check
    BY PreferencesAssumption DEF check_job, Check, Versions
  <2> QED BY <2>1, <2>2, <2>3, <1>a, <1>e, RunClaim
<1> QED BY <1>1, <1>2, <1>3, <1>4, <1>5, <1>6, <1>7 DEF WorkerStep

LEMMA UnloadClaim ==
  ASSUME NetIInv, Claim, NEW i \in Instances, Unload(i)
  PROVE  Claim'
<1> USE DEF NetIInv
<1>a. checker' = checker /\ in_flight' = in_flight /\ status' = status
  BY DEF Unload
<1>1. CASE attached = {i} /\ thread["live"] # Absent
  <2>1. /\ thread' = [live |-> Absent, old |-> thread["live"]]
        /\ queue' = [live |-> <<>>, old |-> queue["live"]]
    BY <1>1 DEF Unload
  <2>2. thread'["live"] = Absent /\ thread'["old"] = thread["live"]
    BY <2>1
  <2>3. queue'["live"] = <<>> /\ queue'["old"] = queue["live"]
    BY <2>1
  <2>4. Slots("live")' = {} /\ Slots("old")' = Slots("live")
    BY <2>3 DEF Slots
  <2>5. Checking' \subseteq {"old"} /\ ("old" \in Checking' <=> "live" \in Checking)
    BY <2>2 DEF Checking, Holds, Workers
  <2>6. CASE Checking' # {}
    <3>1. "live" \in Checking /\ Checking' = {"old"}
      BY <2>5, <2>6
    <3>2. Asking = {} /\ (\A x \in Workers : Slots(x) = {}) /\ in_flight
      BY <3>1, Alone
    <3>3. Asking' = {} /\ (\A x \in Workers : Slots(x)' = {}) /\ in_flight'
      BY <3>2, <1>a, <2>4, PlacesKept DEF Workers
    <3>4. thread["live"].at \in {"run", "save", "verdict"} => status.is = "Checking"
      BY <3>1 DEF Claim, Undecided, Checking
    <3> QED BY <3>1, <3>3, <3>4, <1>a, <2>2, ClaimRun DEF Workers
  <2>7. CASE Checking' = {} /\ Slots("live") # {}
    <3>1. PICK k \in Slots("live") : TRUE
      BY <2>7
    <3>2. Asking = {} /\ in_flight /\ status.is = "Checking" /\ \A l \in Slots("live") : l = k
      BY <3>1, Alone DEF Workers
    <3>3. \A x \in Workers : \A l \in Slots(x)' : x = "old" /\ l = k
      BY <3>2, <2>4 DEF Workers
    <3>4. Asking' = {} /\ "old" \in Workers
      BY <3>2, <1>a, PlacesKept DEF Workers
    <3> QED BY <3>2, <3>3, <3>4, <2>7, <1>a, ClaimQueued
  <2>8. CASE Checking' = {} /\ Slots("live") = {}
    <3>1. Asking' = Asking /\ \A x \in Workers : Slots(x)' = {}
      BY <2>4, <2>8, <1>a, PlacesKept DEF Workers
    <3> QED BY <3>1, <2>8, <1>a, ClaimKept
  <2> QED BY <2>6, <2>7, <2>8
<1>2. CASE ~(attached = {i} /\ thread["live"] # Absent)
  <2>1. thread' = thread /\ queue' = queue
    BY <1>2 DEF Unload
  <2> QED BY <2>1, <1>a, ClaimKept, PlacesKept
<1> QED BY <1>1, <1>2

\* An event in the channel carries no claim.
LEMMA SendClaim ==
  ASSUME NetIInv, Life, Claim, NEW i \in Instances, send(i)
  PROVE  Claim'
<1> USE DEF NetIInv
<1>a. checker' = checker /\ in_flight' = in_flight /\ status' = status
  BY DEF send
<1>1. CASE ~Config0.device_id
  <2>1. thread' = thread /\ queue' = queue
    BY <1>1 DEF send
  <2> QED BY <2>1, <1>a, ClaimKept, PlacesKept
<1>2. CASE Config0.device_id
  <2>1. PICK accepted \in BOOLEAN : try_send(i, sending[i], accepted)
    BY <1>2 DEF send
  <2>2. sending[i] \in Event
    BY DEF send, NetTypeOK
  <2>3. Checking' \subseteq Checking /\ \A w \in Checking' : thread'[w] = thread[w]
    <3>1. PICK started \in IF attached = {} THEN {Idle, Absent} ELSE {thread["live"]} :
            thread' = [thread EXCEPT !["live"] = started]
      BY <2>1 DEF try_send
    <3> QED BY <3>1 DEF Checking, Holds, NetTypeOK, Workers
  <2>4. ASSUME NEW w \in Workers
        PROVE  Slots(w)' \subseteq Slots(w)
    <3>1. CASE accepted /\ w = "live"
      <4>1. queue["live"] \in Seq(Job) /\ queue'["live"] = Append(queue["live"], sending[i])
        BY <2>1, <3>1 DEF try_send, NetTypeOK, Workers
      <4>2. DOMAIN queue'["live"] = 1 .. (Len(queue["live"]) + 1)
        BY <4>1
      <4>3. \A l \in 1 .. Len(queue["live"]) : queue'["live"][l] = queue["live"][l]
        BY <4>1
      <4>4. queue'["live"][Len(queue["live"]) + 1].kind = "event"
        BY <4>1, <2>2 DEF Event
      <4>5. DOMAIN queue["live"] = 1 .. Len(queue["live"])
        BY <4>1
      <4> QED BY <3>1, <4>1, <4>2, <4>3, <4>4, <4>5 DEF Slots
    <3>2. CASE ~(accepted /\ w = "live")
      BY <2>1, <3>2, PlacesKept DEF try_send, NetTypeOK
    <3> QED BY <3>1, <3>2
  <2> QED BY <1>a, <2>3, <2>4, ClaimKept, PlacesKept
<1> QED BY <1>1, <1>2

LEMMA ClaimStep == ASSUME NetIInv, Life, Claim, Next PROVE Claim'
<1>1. CASE LaunchHere \/ Die
  <2>1. /\ \A i \in Instances : checker'[i] = "no"
        /\ \A w \in Workers : thread'[w] = Absent /\ queue'[w] = <<>>
    BY <1>1 DEF LaunchHere, Die, Fresh
  <2>2. Asking' = {} /\ Checking' = {} /\ \A w \in Workers : Slots(w)' = {}
    BY <2>1 DEF Asking, Checking, Holds, Slots
  <2> QED BY <2>2, ClaimReleased
<1>2. CASE User \/ UISave \/ TearDown
  <2>1. thread' = thread /\ queue' = queue /\ checker' = checker /\ in_flight' = in_flight
        /\ status' = status
    BY <1>2 DEF User, UISave, TearDown, SetShutdown, DropSender, Join, netVars
  <2> QED BY <2>1, ClaimKept, PlacesKept
<1>3. ASSUME NEW i \in Instances, Load(i) \/ flush_session(i) \/ track(i)
      PROVE  Claim'
  <2>1. thread' = thread /\ queue' = queue /\ checker' = checker /\ in_flight' = in_flight
        /\ status' = status
    BY <1>3 DEF Load, flush_session, track
  <2> QED BY <2>1, ClaimKept, PlacesKept
<1> QED BY <1>1, <1>2, <1>3, CallClaim, UnloadClaim, SendClaim, WorkerClaim DEF Next, CheckStep

LEMMA ClaimOpens == Init => Claim
<1> SUFFICES ASSUME Init PROVE Claim
  OBVIOUS
<1>1. /\ \A i \in Instances : checker[i] = "no"
      /\ \A w \in Workers : thread[w] = Absent /\ queue[w] = <<>>
  BY DEF Init
<1>2. Asking = {} /\ Checking = {} /\ \A w \in Workers : Slots(w) = {}
  BY <1>1 DEF Asking, Checking, Holds, Slots
<1> QED BY <1>2, QueuedSlots DEF Claim, OneHolder, Undecided, Asking, Checking

(***************************************************************************)
(* update.rs CheckGuard: a check that has yet to answer shows as Checking, *)
(* and no other can be started beside it, whichever thread an earlier      *)
(* guard is dropped on.                                                    *)
(***************************************************************************)
THEOREM ChecksShow == Spec => []UndecidedShowsChecking
<1>1. Claim => UndecidedShowsChecking
  BY DEF Claim, Undecided, UndecidedShowsChecking, Asking, Checking
<1>2. NetIInv /\ Life /\ Claim /\ [Next]_vars => Claim'
  <2>1. CASE UNCHANGED vars
    BY <2>1, ClaimKept, PlacesKept DEF vars, netVars
  <2>2. CASE Next
    BY <2>2, ClaimStep
  <2> QED BY <2>1, <2>2
<1> QED BY <1>1, <1>2, ClaimOpens, ServicesInvariant, PTL DEF Spec

-----------------------------------------------------------------------------
(***************************************************************************)
(* The upgrade.  A report that will commit the version carries the version *)
(* that is recorded, unless this one has been recorded meanwhile; and once *)
(* it is to be committed, its post went through.                           *)
(***************************************************************************)
Recorded     == Config0.last_version
CarriesOf(job, recorded, current) == recorded = current \/ job.from = recorded
Carries(job) == CarriesOf(job, Recorded, version)
Commits(job) == job.kind = "event" /\ job.commit

Carried ==
  /\ \A i \in Instances : sending[i] # NoJob /\ Commits(sending[i]) => Carries(sending[i])
  /\ \A w \in Workers : \A k \in DOMAIN queue[w] : Commits(queue[w][k]) => Carries(queue[w][k])
  /\ \A w \in Workers : At(w, "run") /\ Commits(thread[w].job) => Carries(thread[w].job)
  /\ \A w \in Workers : At(w, "commit") =>
       Carries(thread[w].job) /\ (thread[w].job.from = 0 \/ thread[w].job.from \in delivered)

\* Only Commit changes the recorded version of a running process.
LEMMA RecordedKept ==
  ASSUME NetIInv, Next, ~LaunchHere, ~Die
  PROVE  /\ version' = version /\ delivered \subseteq delivered'
         /\ \/ Recorded' = Recorded
            \/ Recorded' = version /\ \E w \in Workers : Commit(w)
<1> USE DEF NetIInv
<1>a. Here \in Processes /\ cache \in [Processes -> Config] /\ Honest(cache[Here])
  BY ServicesAssumption, CopyIsConfig DEF PrefIInv, PrefTypeOK
<1>b. 0 \in Versions
  BY PreferencesAssumption DEF Versions
<1>m. ASSUME NEW c, Mutate(Here, c), c.last_version = Recorded
      PROVE  Recorded' = Recorded
  BY <1>a, <1>m DEF Mutate, Recorded, Config0
<1>1. CASE User
  <2>1. version' = version /\ delivered' = delivered
    BY <1>1 DEF User
  <2>2. \A granted \in BOOLEAN :
          Answer(Here, granted) \/ AnswerUpdates(Here, granted) => Recorded' = Recorded
    BY <1>a, <1>b, <1>m, MutationsHonest DEF Answer, AnswerUpdates, Recorded, Config0
  <2>3. CASE consent_modal
    BY <2>1, <2>2, <2>3 DEF consent_modal, analytics_question, updates_question
  <2>4. CASE privacy_section
    <3>1. (~enabled(Config0)) \in BOOLEAN /\ (Config0.updates # "granted") \in BOOLEAN
      OBVIOUS
    <3> QED BY <2>1, <2>2, <2>4, <3>1 DEF privacy_section
  <2>5. CASE update_section
    <3>1. status.v \in Versions /\ TRUE \in BOOLEAN
      BY <2>5 DEF update_section, notifies, NetTypeOK, Statuses
    <3>2. set_update_skipped(cache[Here], status.v).last_version = Recorded
      BY <1>a, <3>1, MutationsHonest DEF Recorded, Config0
    <3> QED BY <2>1, <2>5, <3>2, <1>m DEF update_section, Config0
  <2> QED BY <1>1, <2>3, <2>4, <2>5 DEF User
<1>2. CASE UISave \/ TearDown
  BY <1>2 DEF UISave, TearDown, SaveStep, WriteTmp, Rename, netVars, prefVars, Recorded, Config0
<1>3. ASSUME NEW i \in Instances,
             \/ Load(i) \/ Unload(i) \/ CheckStep(i) \/ send(i) \/ flush_session(i) \/ track(i)
             \/ build(i) \/ check_now(i)
      PROVE  version' = version /\ delivered' = delivered /\ Recorded' = Recorded
  BY <1>3 DEF Load, Unload, CheckStep, Announce, Enqueue, RefusedCheck, send, flush_session, track,
              build, check_now, BeginCheck, prefVars, Recorded, Config0
<1>4. ASSUME NEW w \in Workers, WorkerStep(w)
      PROVE  /\ version' = version /\ delivered \subseteq delivered'
             /\ Recorded' = Recorded \/ (Recorded' = version /\ Commit(w))
  <2>0. version' = version
    BY <1>4, OneThread DEF QuietNet
  <2>1. CASE Recv(w) \/ Disconnected(w) \/ SetVerdict(w) \/ DropGuard(w) \/ Post(w)
    BY <2>0, <2>1 DEF Recv, Disconnected, SetVerdict, DropGuard, Post, prefVars, Recorded, Config0
  <2>2. CASE Save(w)
    BY <2>0, <2>2 DEF Save, SaveStep, WriteTmp, Rename, Recorded, Config0
  <2>3. CASE Commit(w)
    <3>1. CASE Recorded = version
      BY <2>0, <2>3, <3>1 DEF Commit, CommitVersion, prefVars, Recorded, Config0
    <3>2. CASE Recorded # version
      <4>1. Mutate(Here, apply_running_version(cache[Here], version))
        BY <2>3, <3>2 DEF Commit, CommitVersion, Recorded, Config0
      <4>2. apply_running_version(cache[Here], version).last_version = version
        BY <1>a, MutationsHonest DEF NetTypeOK
      <4>3. Recorded' = version
        BY <4>1, <4>2, <1>a DEF Mutate, Recorded, Config0
      <4> QED BY <2>0, <2>3, <4>3 DEF Commit
    <3> QED BY <3>1, <3>2
  <2>4. ASSUME NEW latest \in {0, MaxVersion}, Record(w, latest)
        PROVE  delivered' = delivered /\ Recorded' = Recorded
    <3>1. latest \in Versions /\ TRUE \in BOOLEAN
      BY PreferencesAssumption DEF Versions
    <3>2. record_update_check(cache[Here], latest).last_version = Recorded
      BY <3>1, <1>a, MutationsHonest DEF Recorded, Config0
    <3> QED BY <2>4, <3>2, <1>m DEF Record, RecordCheck
  <2> QED BY <1>4, <2>0, <2>1, <2>2, <2>3, <2>4 DEF WorkerStep
<1> QED BY <1>1, <1>2, <1>3, <1>4 DEF Next

\* So what carried the recorded version still does.
LEMMA CarriesKept ==
  ASSUME NetIInv, Next, ~LaunchHere, ~Die, NEW job, Carries(job)
  PROVE  CarriesOf(job, Recorded', version')
BY RecordedKept DEF Carries, CarriesOf

\* A job goes on from a call to a channel and from there to a thread.
LEMMA CarriedKept ==
  ASSUME NetIInv, Carried, Next, ~LaunchHere, ~Die,
         \A i \in Instances : sending'[i] \in {sending[i], NoJob},
         \A w \in Workers : \A k \in DOMAIN queue'[w] : Commits(queue'[w][k]) =>
           \/ \E x \in Workers : \E l \in DOMAIN queue[x] : queue'[w][k] = queue[x][l]
           \/ \E i \in Instances : sending[i] # NoJob /\ queue'[w][k] = sending[i],
         \A w \in Workers : thread'[w].at = "run" /\ Commits(thread'[w].job) =>
           \/ \E x \in Workers : thread'[w] = thread[x]
           \/ \E x \in Workers : \E l \in DOMAIN queue[x] : thread'[w].job = queue[x][l],
         \A w \in Workers : thread'[w].at = "commit" => \E x \in Workers : thread'[w] = thread[x]
  PROVE  Carried'
<1>1. \A i \in Instances : sending'[i] # NoJob /\ Commits(sending'[i]) =>
        CarriesOf(sending'[i], Recorded', version')
  BY CarriesKept DEF Carried
<1>2. \A w \in Workers : \A k \in DOMAIN queue'[w] : Commits(queue'[w][k]) =>
        CarriesOf(queue'[w][k], Recorded', version')
  BY CarriesKept DEF Carried
<1>3. \A w \in Workers : thread'[w].at = "run" /\ Commits(thread'[w].job) =>
        CarriesOf(thread'[w].job, Recorded', version')
  BY CarriesKept DEF Carried, At
<1>4. \A w \in Workers : thread'[w].at = "commit" =>
        /\ CarriesOf(thread'[w].job, Recorded', version')
        /\ thread'[w].job.from = 0 \/ thread'[w].job.from \in delivered'
  BY CarriesKept, RecordedKept DEF Carried, At
<1> QED BY <1>1, <1>2, <1>3, <1>4 DEF Carried, Commits, Carries, At

LEMMA InstanceCarried ==
  ASSUME NetIInv, Carried, Next, ~LaunchHere, ~Die, NEW i \in Instances,
         \/ Load(i) \/ Unload(i) \/ CheckStep(i) \/ send(i) \/ flush_session(i) \/ track(i)
         \/ build(i) \/ check_now(i)
  PROVE  Carried'
<1> USE DEF NetIInv
<1>1. CASE Load(i) \/ Announce(i) \/ RefusedCheck(i) \/ build(i) \/ check_now(i)
  <2>1. sending' = sending /\ queue' = queue /\ thread' = thread
    BY <1>1 DEF Load, Announce, RefusedCheck, build, check_now, BeginCheck
  <2> QED BY <2>1, CarriedKept
<1>2. CASE Unload(i)
  <2>1. /\ sending' = sending
        /\ \A w \in Workers : thread'[w] \in {Absent, thread[w], thread["live"]}
        /\ \A w \in Workers : queue'[w] \in {<<>>, queue[w], queue["live"]}
    BY <1>2 DEF Unload, Workers
  <2>2. \A w \in Workers : thread'[w].at \in {"run", "commit"} => \E x \in Workers : thread'[w] = thread[x]
    BY <2>1 DEF Absent, Workers
  <2>3. \A w \in Workers : \A k \in DOMAIN queue'[w] :
          \E x \in Workers : \E l \in DOMAIN queue[x] : queue'[w][k] = queue[x][l]
    BY <2>1 DEF Workers
  <2> QED BY <2>1, <2>2, <2>3, CarriedKept
<1>3. ASSUME NEW job \in Job, NEW accepted \in BOOLEAN, try_send(i, job, accepted),
             \A j \in Instances : sending'[j] \in {sending[j], NoJob},
             Commits(job) => \E j \in Instances : sending[j] # NoJob /\ job = sending[j]
      PROVE  Carried'
  <2>1. \A w \in Workers : thread'[w] \in {Idle, Absent, thread[w], thread["live"]}
    BY <1>3, TrySendThread
  <2>2. \A w \in Workers : thread'[w].at \in {"run", "commit"} => \E x \in Workers : thread'[w] = thread[x]
    BY <2>1 DEF Absent, Idle, Workers
  <2>3. ASSUME NEW w \in Workers, NEW k \in DOMAIN queue'[w], Commits(queue'[w][k])
        PROVE  \/ \E x \in Workers : \E l \in DOMAIN queue[x] : queue'[w][k] = queue[x][l]
               \/ \E j \in Instances : sending[j] # NoJob /\ queue'[w][k] = sending[j]
    <3>1. CASE accepted /\ w = "live"
      <4>1. queue["live"] \in Seq(Job) /\ queue'["live"] = Append(queue["live"], job)
        BY <1>3, <3>1 DEF try_send, NetTypeOK, Workers
      <4>2. /\ DOMAIN queue'["live"] = 1 .. (Len(queue["live"]) + 1)
            /\ DOMAIN queue["live"] = 1 .. Len(queue["live"])
        BY <4>1
      <4>3. \A l \in 1 .. Len(queue["live"]) : queue'["live"][l] = queue["live"][l]
        BY <4>1
      <4>4. queue'["live"][Len(queue["live"]) + 1] = job
        BY <4>1
      <4>5. CASE k = Len(queue["live"]) + 1
        BY <1>3, <2>3, <3>1, <4>4, <4>5
      <4>6. CASE k \in 1 .. Len(queue["live"])
        BY <3>1, <4>2, <4>3, <4>6
      <4> QED BY <2>3, <3>1, <4>1, <4>2, <4>5, <4>6
    <3>2. CASE ~(accepted /\ w = "live")
      <4>1. queue'[w] = queue[w]
        BY <1>3, <3>2 DEF try_send, NetTypeOK
      <4> QED BY <2>3, <4>1
    <3> QED BY <3>1, <3>2
  <2> QED BY <1>3, <2>2, <2>3, CarriedKept
<1>4. CASE Enqueue(i)
  <2>1. check_job \in Job /\ ~Commits(check_job)
    BY PreferencesAssumption DEF check_job, Commits, Job, Check, Versions
  <2>2. (\E accepted \in BOOLEAN : try_send(i, check_job, accepted)) /\ sending' = sending
    BY <1>4 DEF Enqueue
  <2> QED BY <2>1, <2>2, <1>3
<1>5. CASE send(i)
  <2>1. /\ sending[i] # NoJob /\ sending[i] \in Job
        /\ \A j \in Instances : sending'[j] \in {sending[j], NoJob}
    BY <1>5 DEF send, NetTypeOK, Job
  <2>2. CASE Config0.device_id
    <3>1. \E accepted \in BOOLEAN : try_send(i, sending[i], accepted)
      BY <1>5, <2>2 DEF send
    <3> QED BY <2>1, <3>1, <1>3
  <2>3. CASE ~Config0.device_id
    <3>1. queue' = queue /\ thread' = thread
      BY <1>5, <2>3 DEF send
    <3> QED BY <2>1, <3>1, CarriedKept
  <2> QED BY <2>2, <2>3
<1>6. CASE flush_session(i) \/ track(i)
  <2>1. /\ queue' = queue /\ thread' = thread /\ delivered' = delivered /\ version' = version
        /\ Recorded' = Recorded /\ \A j \in Instances : j # i => sending'[j] = sending[j]
    BY <1>6 DEF flush_session, track, prefVars, Recorded, Config0, NetTypeOK
  <2>2. Commits(sending'[i]) => Carries(sending'[i])
    <3>1. CASE track(i)
      BY <3>1 DEF track, Commits, NetTypeOK
    <3>2. CASE flush_session(i)
      <4>1. sending'[i] = [kind |-> "event", commit |-> commit_version, from |-> from_version]
        BY <3>2 DEF flush_session, NetTypeOK
      <4>2. commit_version => Recorded = version \/ from_version = Recorded
        BY DEF commit_version, from_version, pending_upgrade_from, Recorded
      <4> QED BY <4>1, <4>2 DEF Commits, Carries, CarriesOf
    <3> QED BY <1>6, <3>1, <3>2
  <2> QED BY <2>1, <2>2 DEF Carried, Carries, CarriesOf, Commits, At
<1> QED BY <1>1, <1>2, <1>4, <1>5, <1>6 DEF CheckStep

LEMMA WorkerCarried ==
  ASSUME NetIInv, Carried, Next, ~LaunchHere, ~Die, NEW w \in Workers, WorkerStep(w)
  PROVE  Carried'
<1> USE DEF NetIInv
<1>a. sending' = sending /\ \A x \in Workers : x # w => thread'[x] = thread[x]
  BY OneThread DEF QuietNet
<1>b. ASSUME queue' = queue, thread'[w] = thread[w] \/ thread'[w].at \notin {"run", "commit"}
      PROVE  Carried'
  BY <1>a, <1>b, CarriedKept
<1>c. ASSUME NEW at, NEW job, Goto(w, at, job) PROVE thread'[w].at = at /\ thread'[w].job = job
  BY <1>c DEF Goto, NetTypeOK
<1>d. Done(w) => thread'[w].at = "recv"
  BY DEF Done, Idle, NetTypeOK
<1>1. CASE Recv(w)
  <2>1. /\ queue[w] \in Seq(Job) /\ queue[w] # <<>> /\ queue'[w] = Tail(queue[w])
        /\ \A x \in Workers : x # w => queue'[x] = queue[x]
    BY <1>1 DEF Recv, NetTypeOK
  <2>2. \A l \in DOMAIN Tail(queue[w]) :
          l + 1 \in DOMAIN queue[w] /\ Tail(queue[w])[l] = queue[w][l + 1]
    BY <2>1
  <2>3. Head(queue[w]) = queue[w][1] /\ 1 \in DOMAIN queue[w]
    BY <2>1
  <2>4. \A x \in Workers : \A k \in DOMAIN queue'[x] :
          \E y \in Workers : \E l \in DOMAIN queue[y] : queue'[x][k] = queue[y][l]
    <3>1. ASSUME NEW k \in DOMAIN queue'[w]
          PROVE  \E l \in DOMAIN queue[w] : queue'[w][k] = queue[w][l]
      BY <2>1, <2>2
    <3> QED BY <2>1, <3>1
  <2>5. \/ thread' = thread
        \/ thread'[w].at = "guard"
        \/ thread'[w].at = "run" /\ thread'[w].job = Head(queue[w])
    BY <1>1, <1>c DEF Recv
  <2> QED BY <1>a, <2>3, <2>4, <2>5, CarriedKept
<1>2. CASE Post(w)
  <2>1. /\ queue' = queue /\ delivered' \in {delivered, delivered \cup ({thread[w].job.from} \ {0})}
        /\ At(w, "run") /\ thread[w].job.kind = "event"
    BY <1>2 DEF Post
  <2>2. CASE Done(w)
    BY <2>1, <2>2, <1>b, <1>d
  <2>3. CASE ~Done(w)
    <3>1. /\ thread[w].job.commit /\ thread'[w].at = "commit" /\ thread'[w].job = thread[w].job
          /\ delivered' = delivered \cup ({thread[w].job.from} \ {0})
      BY <1>2, <2>3, <1>c DEF Post
    <3>2. Carries(thread[w].job)
      BY <2>1, <3>1 DEF Carried, Commits
    <3>3. version' = version /\ Recorded' = Recorded
      BY <1>2 DEF Post, QuietNet, prefVars, Recorded, Config0
    <3>4. thread'[w].job.from = 0 \/ thread'[w].job.from \in delivered'
      BY <3>1
    <3> QED BY <1>a, <2>1, <3>1, <3>2, <3>3, <3>4 DEF Carried, Carries, CarriesOf, Commits, At
  <2> QED BY <2>2, <2>3
<1>3. CASE Disconnected(w)
  BY <1>3, <1>b DEF Disconnected, Absent, NetTypeOK
<1>4. CASE SetVerdict(w) \/ DropGuard(w) \/ Commit(w) \/ Save(w)
  BY <1>4, <1>b, <1>c, <1>d DEF SetVerdict, DropGuard, Commit, Save
<1>5. ASSUME NEW latest \in {0, MaxVersion}, Record(w, latest)
      PROVE  Carried'
  BY <1>5, <1>b, <1>c DEF Record
<1> QED BY <1>1, <1>2, <1>3, <1>4, <1>5 DEF WorkerStep

LEMMA CarriedStep == ASSUME NetIInv, Carried, Next PROVE Carried'
<1>1. CASE LaunchHere \/ Die
  <2>1. /\ \A i \in Instances : sending'[i] = NoJob
        /\ \A w \in Workers : thread'[w] = Absent /\ queue'[w] = <<>>
    BY <1>1 DEF LaunchHere, Die, Fresh
  <2> QED BY <2>1 DEF Carried, At, Absent
<1>2. CASE ~LaunchHere /\ ~Die /\ (User \/ UISave \/ TearDown)
  <2>1. thread' = thread /\ queue' = queue /\ sending' = sending
    BY <1>2 DEF User, UISave, TearDown, SetShutdown, DropSender, Join, netVars
  <2> QED BY <1>2, <2>1, CarriedKept
<1> QED BY <1>1, <1>2, InstanceCarried, WorkerCarried DEF Next

LEMMA CarriedOpens == Init => Carried
<1> SUFFICES ASSUME Init PROVE Carried
  OBVIOUS
<1>1. /\ \A i \in Instances : sending[i] = NoJob
      /\ \A w \in Workers : thread[w] = Absent /\ queue[w] = <<>>
  BY DEF Init
<1> QED BY <1>1 DEF Carried, At, Absent

(***************************************************************************)
(* config.rs commit_running_version: while the process runs, the version   *)
(* that ran before is replaced only after a request that carried it was    *)
(* posted, whatever else is queued, dropped or answered meanwhile.         *)
(***************************************************************************)
THEOREM UpgradesReported == Spec => UpgradeNotConsumed
<1> DEFINE Step == Up /\ Up' /\ Recorded # 0 /\ cache'[Here].last_version # Recorded
                     => Recorded \in delivered
<1>1. ASSUME NetIInv, Carried, [Next]_vars
      PROVE  Step
  <2> SUFFICES ASSUME Up, Up', Recorded # 0, cache'[Here].last_version # Recorded
               PROVE  Recorded \in delivered
    OBVIOUS
  <2>1. ~LaunchHere /\ ~Die
    BY ServicesAssumption DEF LaunchHere, Launch, Die, Stop, Up
  <2>2. Recorded' # Recorded
    BY DEF Recorded, Config0
  <2>3. Next
    BY <1>1, <2>2 DEF vars, prefVars, Recorded, Config0
  <2>4. PICK w \in Workers : Recorded' = version /\ Commit(w)
    BY <1>1, <2>1, <2>2, <2>3, RecordedKept
  <2>5. Carries(thread[w].job) /\ (thread[w].job.from = 0 \/ thread[w].job.from \in delivered)
    BY <1>1, <2>4 DEF Commit, Carried
  <2> QED BY <2>2, <2>4, <2>5 DEF Carries, CarriesOf
<1>2. NetIInv /\ Carried /\ [Next]_vars => Carried'
  <2>1. CASE UNCHANGED vars
    BY <2>1 DEF vars, prefVars, netVars, Carried, Carries, CarriesOf, Commits, At, Recorded, Config0
  <2>2. CASE Next
    BY <2>2, CarriedStep
  <2> QED BY <2>1, <2>2
<1>3. NetIInv /\ Carried /\ [Next]_vars => Step
  BY <1>1
<1>4. Spec => [](NetIInv /\ Carried)
  BY <1>2, CarriedOpens, ServicesInvariant, PTL DEF Spec
<1>5. Spec => [][Step]_vars
  BY <1>3, <1>4, PTL DEF Spec
<1> QED BY <1>5 DEF UpgradeNotConsumed, Recorded

-----------------------------------------------------------------------------
(***************************************************************************)
(* A request's time (Http).  A product of a constant and a counter is kept *)
(* apart from the rest of the arithmetic, which then is linear.            *)
(***************************************************************************)

(***************************************************************************)
(* What each stage of a request has left of its time.  Up to the           *)
(* connection the deadline is looked at before anything is waited for; a   *)
(* handshake adds a timeout per operation and the write one more.  A read  *)
(* of the stream is started before the deadline only, and adds a timeout   *)
(* per read of the socket.                                                 *)
(***************************************************************************)
RequestTypeOK ==
  /\ call \in Calls /\ endpoint \in Endpoints /\ response \in Responses
  /\ now \in Nat /\ reads \in Nat /\ got \in Nat /\ addresses \in Nat
  /\ step \in {"resolve", "connect", "handshake", "write", "read", "returned"}
  /\ helper \in {"none", "resolving", "abandoned", "ended"}

InTime ==
  /\ step = "resolve" => now = 0
  /\ step = "connect" => now <= DEADLINE
  /\ step \in {"resolve", "connect", "write"} => reads = 0
  /\ step = "handshake" =>
       endpoint.tls /\ reads < HandshakeReads /\ now <= DEADLINE + IO_TIMEOUT * reads
  /\ step = "write" => now + IO_TIMEOUT <= DEADLINE + IO_TIMEOUT * Unwatched
  /\ step = "read" =>
       reads < Unwatched /\ (reads > 0 => now <= DEADLINE + IO_TIMEOUT * reads)

RequestIInv == RequestTypeOK /\ InTime /\ CallBounded

\* Timeouts add up: the products the bound is made of.
LEMMA Products ==
  ASSUME HttpAssumption, NEW m \in Nat, NEW n \in Nat, m < n
  PROVE  /\ IO_TIMEOUT * m \in Nat /\ IO_TIMEOUT * n \in Nat
         /\ IO_TIMEOUT * (m + 1) = IO_TIMEOUT * m + IO_TIMEOUT
         /\ IO_TIMEOUT * m + IO_TIMEOUT <= IO_TIMEOUT * n
<1>1. IO_TIMEOUT \in Nat
  BY DEF HttpAssumption
<1>2. PICK k \in Nat : n = m + 1 + k
  <2>1. n - m - 1 \in Nat /\ n = m + 1 + (n - m - 1)
    OBVIOUS
  <2> QED BY <2>1
<1>3. IO_TIMEOUT * m \in Nat /\ IO_TIMEOUT * k \in Nat /\ IO_TIMEOUT * n \in Nat
  BY <1>1
<1>4. IO_TIMEOUT * (m + 1) = IO_TIMEOUT * m + IO_TIMEOUT
  BY <1>1
<1>5. IO_TIMEOUT * (m + 1 + k) = IO_TIMEOUT * (m + 1) + IO_TIMEOUT * k
  BY <1>1
<1> DEFINE x == IO_TIMEOUT * m
           y == IO_TIMEOUT * n
           z == IO_TIMEOUT * k
<1>6. x \in Nat /\ y \in Nat /\ z \in Nat /\ y = x + IO_TIMEOUT + z
  BY <1>2, <1>3, <1>4, <1>5
<1> HIDE DEF x, y, z
<1>7. x + IO_TIMEOUT <= y
  BY <1>1, <1>6
<1> QED BY <1>3, <1>4, <1>7 DEF x, y

\* The arithmetic of a stage, apart from the products.
LEMMA Sums ==
  /\ \A a, b, c, d \in Nat :
       /\ a <= b /\ b + c <= d => a + c <= d /\ a <= d
       /\ a <= b + c /\ b + c <= d => a <= d
  /\ \A a, b, c, d, e \in Nat : a <= e + b /\ b + c <= d => a + c <= e + d
OBVIOUS

\* One operation at least goes unwatched; over TLS those of a handshake and the write,
\* and those of a record.
LEMMA UnwatchedCovers ==
  ASSUME HttpAssumption, RequestTypeOK
  PROVE  /\ Unwatched \in Nat /\ 0 < Unwatched
         /\ endpoint.tls => HandshakeReads < Unwatched /\ RecordReads <= Unwatched
BY DEF HttpAssumption, RequestTypeOK, Unwatched

\* A call starts with all of its time,
LEMMA RequestStarts == ASSUME HttpAssumption, RequestInit PROVE RequestIInv
<1>1. RequestTypeOK /\ reads = 0 /\ now = 0 /\ step = "resolve"
  BY DEF RequestInit, RequestTypeOK
<1>2. Unwatched \in Nat /\ 0 < Unwatched /\ DEADLINE \in Nat
  BY <1>1, UnwatchedCovers DEF HttpAssumption
<1>3. CallBounded
  <2> DEFINE B == IO_TIMEOUT * Unwatched
  <2>1. B \in Nat  BY <1>2, Products
  <2> HIDE DEF B
  <2>2. 0 <= DEADLINE + B  BY <1>2, <2>1
  <2> QED BY <1>1, <2>2 DEF CallBounded, B
<1> QED BY <1>1, <1>3 DEF RequestIInv, InTime

(***************************************************************************)
(* One case per action.  The bound itself moves only where time passes.    *)
(***************************************************************************)
LEMMA RequestTyped ==
  ASSUME HttpAssumption, RequestTypeOK, [RequestNext]_requestVars
  PROVE  /\ RequestTypeOK'
         /\ UNCHANGED inputs
<1> USE DEF RequestTypeOK, inputs
<1>1. CASE Literal BY <1>1 DEF Literal
<1>2. CASE Spawn BY <1>2 DEF Spawn, Return
<1>3. CASE Resolved BY <1>3 DEF Resolved, Return, Takes, HttpAssumption
<1>4. CASE Abandon BY <1>4 DEF Abandon, Return, HttpAssumption
<1>5. CASE LateAnswer BY <1>5 DEF LateAnswer
<1>6. CASE Connect
  <2>1. ConnectBudget \in Nat
    BY DEF ConnectBudget, remaining, HttpAssumption
  <2>2. PICK d \in 0 .. ConnectBudget : now' = now + d
    BY <1>6 DEF Connect, Takes
  <2>3. now' \in Nat
    BY <2>1, <2>2
  <2>4. addresses' \in Nat
    BY <1>6 DEF Connect
  <2> QED BY <1>6, <2>3, <2>4 DEF Connect
<1>7. CASE NoAddress BY <1>7 DEF NoAddress, Return
<1>8. CASE Handshake BY <1>8 DEF Handshake, Return, Takes, HttpAssumption
<1>9. CASE Write BY <1>9 DEF Write, Return, Takes, HttpAssumption
<1>10. CASE Read BY <1>10 DEF Read, Takes, HttpAssumption
<1>13. CASE RecordRead BY <1>13 DEF RecordRead, Takes, HttpAssumption
<1>11. CASE ReadEnds BY <1>11 DEF ReadEnds, Reading, Return, Takes, HttpAssumption
<1>12. CASE UNCHANGED requestVars BY <1>12 DEF requestVars
<1> QED BY <1>1, <1>2, <1>3, <1>4, <1>5, <1>6, <1>7, <1>8, <1>9, <1>10,
           <1>11, <1>12, <1>13 DEF RequestNext

LEMMA RequestKept ==
  ASSUME HttpAssumption, RequestIInv, [RequestNext]_requestVars
  PROVE  RequestIInv'
<1>1. RequestTypeOK /\ RequestTypeOK' /\ UNCHANGED inputs
  BY RequestTyped DEF RequestIInv
<1>2. endpoint' = endpoint /\ Unwatched' = Unwatched
  BY <1>1 DEF Unwatched, inputs
<1> DEFINE B == DEADLINE + IO_TIMEOUT * Unwatched
           R == DEADLINE + IO_TIMEOUT * reads
<1>3. /\ DEADLINE \in Nat /\ IO_TIMEOUT \in Nat /\ CONNECT_TIMEOUT \in Nat
      /\ CONNECT_TIMEOUT <= DEADLINE /\ HandshakeReads \in Nat \ {0}
      /\ Unwatched \in Nat /\ 0 < Unwatched
      /\ endpoint.tls => HandshakeReads < Unwatched /\ RecordReads <= Unwatched
      /\ RecordReads \in Nat /\ now \in Nat /\ now' \in Nat /\ reads \in Nat
  BY <1>1, UnwatchedCovers DEF HttpAssumption, RequestTypeOK
<1>4. B \in Nat /\ R \in Nat /\ DEADLINE + IO_TIMEOUT <= B
  <2>1. IO_TIMEOUT * 0 = 0
    BY <1>3
  <2>2. IO_TIMEOUT * Unwatched \in Nat /\ IO_TIMEOUT <= IO_TIMEOUT * Unwatched
    <3>1. IO_TIMEOUT * 0 + IO_TIMEOUT <= IO_TIMEOUT * Unwatched
          /\ IO_TIMEOUT * Unwatched \in Nat
      BY <1>3, Products
    <3> DEFINE y == IO_TIMEOUT * Unwatched
    <3>2. y \in Nat /\ 0 + IO_TIMEOUT <= y  BY <2>1, <3>1
    <3> HIDE DEF y
    <3>3. IO_TIMEOUT <= y  BY <1>3, <3>2
    <3> QED BY <3>2, <3>3 DEF y
  <2>3. IO_TIMEOUT * reads \in Nat
    <3>1. reads + 1 \in Nat /\ reads < reads + 1
      BY <1>3
    <3> QED BY <1>3, <3>1, Products
  <2> DEFINE x == IO_TIMEOUT * reads
             y == IO_TIMEOUT * Unwatched
  <2>4. x \in Nat /\ y \in Nat /\ IO_TIMEOUT <= y
    BY <2>2, <2>3
  <2> HIDE DEF x, y
  <2>5. DEADLINE + y \in Nat /\ DEADLINE + x \in Nat /\ DEADLINE + IO_TIMEOUT <= DEADLINE + y
    BY <1>3, <2>4
  <2> QED BY <2>5 DEF x, y
<1>0. now \in Nat /\ now' \in Nat /\ DEADLINE \in Nat /\ IO_TIMEOUT \in Nat
  BY <1>3
<1>5. (CallBounded <=> now <= B) /\ (CallBounded' <=> now' <= B)
  BY <1>2 DEF CallBounded
<1>6. InTime /\ CallBounded
  BY DEF RequestIInv
\* One operation more of those in a row, the deadline plus reads of which have passed.
<1>7. ASSUME reads < Unwatched
      PROVE  /\ DEADLINE + IO_TIMEOUT * (reads + 1) = R + IO_TIMEOUT
             /\ R + IO_TIMEOUT <= B
  <2> DEFINE x == IO_TIMEOUT * reads
             y == IO_TIMEOUT * Unwatched
             z == IO_TIMEOUT * (reads + 1)
  <2>1. x \in Nat /\ y \in Nat /\ z = x + IO_TIMEOUT /\ x + IO_TIMEOUT <= y
    BY <1>3, <1>7, Products
  <2> HIDE DEF x, y, z
  <2>2. DEADLINE + z = DEADLINE + x + IO_TIMEOUT /\ DEADLINE + x + IO_TIMEOUT <= DEADLINE + y
    BY <1>3, <2>1
  <2> QED BY <2>2 DEF x, y, z
<1>8. SUFFICES InTime' /\ CallBounded'
  BY <1>1 DEF RequestIInv
<1>9. CASE UNCHANGED <<now, reads, step>>
  BY <1>9, <1>2, <1>5, <1>6 DEF InTime
<1> HIDE DEF B, R
<1>10. CASE step' = "returned" /\ now' <= B
  BY <1>10, <1>5 DEF InTime
<1>11. CASE Literal
  <2>1. now = 0 /\ now' = 0 /\ reads = 0 /\ reads' = 0 /\ step' = "connect"
    BY <1>11, <1>6 DEF Literal, InTime
  <2> QED BY <2>1, <1>3, <1>4, <1>5 DEF InTime
<1>12. CASE Spawn \/ LateAnswer \/ NoAddress
  BY <1>12, <1>5, <1>6, <1>9, <1>10 DEF Spawn, LateAnswer, NoAddress, Return
<1>13. CASE Resolved \/ Abandon
  <2>1. now = 0 /\ now' <= CONNECT_TIMEOUT /\ reads = 0 /\ reads' = 0
    BY <1>13, <1>3, <1>6 DEF Resolved, Abandon, Takes, InTime
  <2>2. step' \in {"connect", "returned"}
    BY <1>13 DEF Resolved, Abandon, Return
  <2> QED BY <2>1, <2>2, <1>3, <1>4, <1>5 DEF InTime
<1>14. CASE Connect
  <2>1. now <= DEADLINE /\ reads = 0 /\ reads' = 0
    BY <1>14, <1>6 DEF Connect, InTime
  <2>2. now' <= DEADLINE
    BY <1>14, <2>1, <1>3 DEF Connect, Takes, ConnectBudget, remaining
  <2>3. step' = "connect" \/ (step' = "handshake" /\ endpoint.tls) \/ step' = "write"
    BY <1>14 DEF Connect
  <2>4. IO_TIMEOUT * reads' = 0 /\ reads' < HandshakeReads
    BY <2>1, <1>3
  <2>5. now' + IO_TIMEOUT <= B /\ now' <= B
    BY <2>2, <1>4, <1>0, Sums, Zenon
  <2>6. now' <= DEADLINE + IO_TIMEOUT * reads'
    <3> DEFINE z == IO_TIMEOUT * reads'
    <3>1. z = 0  BY <2>4
    <3> HIDE DEF z
    <3>2. now' <= DEADLINE + z  BY <3>1, <2>2, <1>0
    <3> QED BY <3>2 DEF z
  <2> QED BY <2>1, <2>2, <2>3, <2>4, <2>5, <2>6, <1>2, <1>5 DEF InTime, B
<1>15. CASE Handshake
  <2>1. /\ endpoint.tls /\ now <= R /\ reads < HandshakeReads /\ now' <= now + IO_TIMEOUT
    BY <1>15, <1>3, <1>6 DEF Handshake, InTime, Takes, R
  <2>2. reads < Unwatched /\ reads + 1 < Unwatched /\ reads + 1 \in Nat
    BY <2>1, <1>3
  <2>3. now' <= DEADLINE + IO_TIMEOUT * (reads + 1) /\ now' <= B
    <3>1. now' <= R + IO_TIMEOUT /\ now' <= B
      BY <2>1, <2>2, <1>3, <1>4, <1>7
    <3> QED BY <3>1, <2>2, <1>7
  <2>4. now' + IO_TIMEOUT <= B
    <3> DEFINE z == IO_TIMEOUT * (reads + 1)
               y == IO_TIMEOUT * Unwatched
    <3>1. z \in Nat /\ y \in Nat /\ z + IO_TIMEOUT <= y
      BY <2>2, <1>3, Products
    <3>2. now' <= DEADLINE + z
      BY <2>3
    <3> HIDE DEF y, z
    <3>3. now' + IO_TIMEOUT <= DEADLINE + y
      BY <3>1, <3>2, <1>0, Sums, Zenon
    <3> QED BY <3>3 DEF y, B
  <2>5. \/ step' = "handshake" /\ reads' = reads + 1 /\ reads + 1 < HandshakeReads
        \/ step' = "write" /\ reads' = 0
        \/ step' = "returned"
    BY <1>15 DEF Handshake, Return
  <2> QED BY <2>1, <2>3, <2>4, <2>5, <1>2, <1>5 DEF InTime, B
<1>16. CASE Write
  <2>1. now + IO_TIMEOUT <= B /\ reads = 0 /\ reads' = 0 /\ now' <= now + IO_TIMEOUT
    BY <1>16, <1>3, <1>6 DEF Write, InTime, Takes, B
  <2>2. step' \in {"read", "returned"}
    BY <1>16 DEF Write, Return
  <2>3. now' <= B
    BY <2>1, <1>4, <1>0, Sums, Zenon
  <2>4. reads' < Unwatched' /\ ~(reads' > 0)
    BY <2>1, <1>2, <1>3
  <2> QED BY <2>2, <2>3, <2>4, <1>5, Zenon DEF InTime
<1>17. CASE RecordRead \/ Read \/ ReadEnds
  <2>1. CASE step = "read" /\ ~Reading /\ ReadEnds
    BY <2>1, <1>5, <1>6, <1>10 DEF ReadEnds, Return
  <2>2. CASE Reading /\ now' <= now + IO_TIMEOUT /\ (RecordRead \/ Read \/ ReadEnds)
    <3>1. reads < Unwatched /\ now <= R
      <4>1. CASE reads > 0
        BY <4>1, <2>2, <1>6 DEF Reading, InTime, R
      <4>2. CASE reads = 0
        <5>1. now < DEADLINE  BY <4>2, <2>2 DEF Reading, MayRead
        <5>2. R = DEADLINE  BY <4>2, <1>3 DEF R
        <5> QED BY <4>2, <5>1, <5>2, <1>3
      <4> QED BY <4>1, <4>2, <1>3
    <3>2. now' <= R + IO_TIMEOUT /\ now' <= B
      BY <3>1, <2>2, <1>3, <1>4, <1>7
    <3>3. CASE RecordRead
      <4>1. /\ step' = "read" /\ reads' = reads + 1 /\ reads' < Unwatched
        BY <3>3, <1>3, <2>2 DEF RecordRead, Reading
      <4>2. now' <= DEADLINE + IO_TIMEOUT * reads'
        BY <3>1, <3>2, <4>1, <1>7
      <4> QED BY <3>2, <4>1, <4>2, <1>2, <1>5 DEF InTime
    <3>4. CASE Read
      <4>1. step' = "read" /\ reads' = 0
        BY <3>4 DEF Read, Reading
      <4> QED BY <3>2, <4>1, <1>2, <1>3, <1>5 DEF InTime
    <3>5. CASE ReadEnds
      BY <3>2, <3>5, <1>10 DEF ReadEnds, Return
    <3> QED BY <2>2, <3>3, <3>4, <3>5
  <2>3. RecordRead \/ Read => Reading /\ now' <= now + IO_TIMEOUT
    BY <1>3 DEF RecordRead, Read, Takes
  <2>4. ReadEnds => \/ Reading /\ now' <= now + IO_TIMEOUT
                    \/ step = "read" /\ ~Reading
    BY <1>3 DEF ReadEnds, Reading, Takes
  <2> QED BY <1>17, <2>1, <2>2, <2>3, <2>4
<1>18. CASE UNCHANGED requestVars
  BY <1>18, <1>9 DEF requestVars
<1> QED BY <1>11, <1>12, <1>13, <1>14, <1>15, <1>16, <1>17, <1>18 DEF RequestNext

\* net.rs send and exchange: however many addresses time out, a call is over at the
\* deadline plus the socket operations in a row that do not look at it, one over plain
\* TCP, over TLS as many as a handshake and the write or one record take: for any
\* timeouts, addresses, operations of a handshake or a record, and responses.
THEOREM RequestsBounded == RequestSpec => []CallBounded
<1>1. RequestInit => RequestIInv
  BY HttpAssumption, RequestStarts
<1>2. RequestIInv /\ [RequestNext]_requestVars => RequestIInv'
  BY HttpAssumption, RequestKept
<1>3. RequestIInv => CallBounded
  BY DEF RequestIInv
<1> QED BY <1>1, <1>2, <1>3, PTL DEF RequestSpec

-----------------------------------------------------------------------------
(***************************************************************************)
(* A request's answer.  Flattening and the loop of dechunk are recursive, so *)
(* that what they compute takes induction; a set of naturals that has its  *)
(* successors, and the smallest number it misses, serve for that.          *)
(***************************************************************************)

\* The library states this for operators; here for a set.
LEMMA SmallestOf ==
  ASSUME NEW T \in SUBSET Nat, T # {}
  PROVE  \E x \in T : \A y \in T : x <= y
<1> DEFINE Less == OpToRel(<, Nat)
<1>1. IsWellFoundedOn(Less, Nat)
  BY NatLessThanWellFounded, Zenon
<1>2. \A x, y \in Nat : y < x => <<y, x>> \in Less
  BY DEF OpToRel
<1> HIDE DEF Less
<1>3. PICK x \in T : \A y \in T : ~(<<y, x>> \in Less)
  BY <1>1, WFMin
<1>4. ASSUME NEW y \in T PROVE x <= y
  <2>1. x \in Nat /\ y \in Nat /\ ~(y < x)
    BY <1>2, <1>3
  <2> QED BY <2>1
<1> QED BY <1>4

\* A set with 0 and, up to n, with every successor has all of them: the smallest
\* number it missed would be the successor of one it has.
LEMMA UpTo ==
  ASSUME NEW n \in Nat, NEW T, 0 \in T,
         \A i \in 0 .. n : i < n /\ i \in T => i + 1 \in T
  PROVE  0 .. n \subseteq T
<1> DEFINE Rest == (0 .. n) \ T
<1>1. SUFFICES ASSUME Rest # {} PROVE FALSE
  OBVIOUS
<1>2. PICK x \in Rest : \A y \in Rest : x <= y
  <2>1. Rest \in SUBSET Nat
    OBVIOUS
  <2> HIDE DEF Rest
  <2> QED BY <1>1, <2>1, SmallestOf
<1>3. x \in 1 .. n /\ x - 1 \in 0 .. n /\ x - 1 < n /\ (x - 1) + 1 = x
  BY <1>2
<1>4. x - 1 \in T
  BY <1>2, <1>3
<1> QED BY <1>2, <1>3, <1>4

\* The largest of a bounded set, from the smallest distance to its bound.
LEMMA LargestOf ==
  ASSUME NEW T \in SUBSET Nat, T # {}, NEW b \in Nat, \A y \in T : y <= b
  PROVE  \E x \in T : \A y \in T : y <= x
<1> DEFINE D == {d \in Nat : b - d \in T}
<1>1. D \in SUBSET Nat /\ \A y \in T : b - y \in D
  OBVIOUS
<1> HIDE DEF D
<1>2. PICK e \in D : \A d \in D : e <= d
  BY <1>1, SmallestOf
<1>3. b - e \in T /\ e \in Nat
  BY <1>2 DEF D
<1>4. \A y \in T : y <= b - e
  BY <1>1, <1>2, <1>3
<1> QED BY <1>3, <1>4

\* f[i] is the first i sequences of ss, one after the other.
Flattens(f, ss, n, S) ==
  /\ f \in [0 .. n -> Seq(S)] /\ f[0] = <<>>
  /\ \A i \in 1 .. n : f[i] = f[i - 1] \o ss[i]

LEMMA FlattenTypes ==
  ASSUME NEW S, NEW n \in Nat, NEW ss, NEW f, Flattens(f, ss, n, S)
  PROVE  /\ f[0] = <<>>
         /\ \A i \in 0 .. n : f[i] \in Seq(S) /\ Len(f[i]) \in Nat
         /\ \A i \in 0 .. n : i < n => f[i + 1] = f[i] \o ss[i + 1]
<1>1. f[0] = <<>> /\ \A i \in 0 .. n : f[i] \in Seq(S)
  BY DEF Flattens
<1>2. \A i \in 0 .. n : Len(f[i]) \in Nat
  BY <1>1
<1>3. ASSUME NEW i \in 0 .. n, i < n PROVE f[i + 1] = f[i] \o ss[i + 1]
  <2>1. i + 1 \in 1 .. n /\ (i + 1) - 1 = i
    BY <1>3
  <2>2. f[i + 1] = f[(i + 1) - 1] \o ss[i + 1]
    BY <2>1 DEF Flattens
  <2> QED BY <2>1, <2>2
<1> QED BY <1>1, <1>2, <1>3

LEMMA FlattenExists ==
  ASSUME NEW S, NEW ss \in Seq(Seq(S))
  PROVE  \E f : Flattens(f, ss, Len(ss), S)
<1> DEFINE T == {j \in 0 .. Len(ss) : \E f : Flattens(f, ss, j, S)}
<1>1. 0 \in T
  <2>1. Flattens([i \in 0 .. 0 |-> <<>>], ss, 0, S)
    BY DEF Flattens
  <2> QED BY <2>1
<1>2. ASSUME NEW j \in 0 .. Len(ss), j < Len(ss), j \in T PROVE j + 1 \in T
  <2>1. PICK f : Flattens(f, ss, j, S)
    BY <1>2
  <2> DEFINE g == [i \in 0 .. j + 1 |-> IF i = j + 1 THEN f[j] \o ss[j + 1] ELSE f[i]]
  <2>2. ss[j + 1] \in Seq(S) /\ f[j] \in Seq(S)
    BY <1>2, <2>1 DEF Flattens
  <2>3. f[j] \o ss[j + 1] \in Seq(S)
    BY <2>2
  <2>4. g \in [0 .. j + 1 -> Seq(S)] /\ g[0] = <<>>
    BY <2>1, <2>3 DEF Flattens
  <2>5. ASSUME NEW i \in 1 .. j + 1 PROVE g[i] = g[i - 1] \o ss[i]
    <3>1. CASE i = j + 1
      <4>1. i - 1 \in 0 .. j + 1 /\ i - 1 = j /\ i - 1 # j + 1 /\ i \in 0 .. j + 1
        BY <3>1
      <4>2. g[i] = f[j] \o ss[j + 1] /\ g[i - 1] = f[j]
        BY <3>1, <4>1
      <4> QED BY <4>2, <3>1
    <3>2. CASE i # j + 1
      <4>1. i \in 1 .. j /\ i - 1 \in 0 .. j /\ i - 1 # j + 1
        BY <3>2
      <4>2. g[i] = f[i] /\ g[i - 1] = f[i - 1]
        BY <4>1
      <4> QED BY <4>1, <4>2, <2>1 DEF Flattens
    <3> QED BY <3>1, <3>2
  <2>6. Flattens(g, ss, j + 1, S)
    BY <2>4, <2>5 DEF Flattens
  <2> QED BY <2>6, <1>2
<1>3. Len(ss) \in Nat /\ Len(ss) \in 0 .. Len(ss)
  OBVIOUS
<1> HIDE DEF T
<1>4. 0 .. Len(ss) \subseteq T
  BY <1>1, <1>2, <1>3, UpTo
<1> QED BY <1>3, <1>4 DEF T

\* The recursive function in the library's FlattenSeq is that f.
LEMMA FlattenUnfolds ==
  ASSUME NEW S, NEW ss \in Seq(Seq(S)), NEW f, Flattens(f, ss, Len(ss), S)
  PROVE  FlattenSeq(ss) = f[Len(ss)]
<1>1. CASE Len(ss) = 0
  BY <1>1 DEF FlattenSeq, Flattens
<1>2. CASE Len(ss) # 0
  <2> DEFINE n == Len(ss)
             E(h) == [i \in 1 .. n |-> IF i = 1 THEN ss[i] ELSE h[i - 1] \o ss[i]]
             flatten == CHOOSE h : h = E(h)
             g == [i \in 1 .. n |-> f[i]]
  <2>1. FlattenSeq(ss) = flatten[n] /\ n \in Nat /\ n \in 1 .. n /\ 1 \in 1 .. n
    BY <1>2 DEF FlattenSeq
  <2>a. /\ f[0] = <<>>
        /\ \A i \in 1 .. n : f[i] = f[i - 1] \o ss[i]
        /\ \A i \in 1 .. n : ss[i] \in Seq(S)
    BY DEF Flattens
  <2>b. f[1] = ss[1]
    <3>1. f[1] = f[1 - 1] \o ss[1] /\ ss[1] \in Seq(S)
      BY <2>1, <2>a
    <3>2. 1 - 1 = 0
      OBVIOUS
    <3>3. <<>> \o ss[1] = ss[1]
      BY <3>1, ConcatEmptySeq
    <3> HIDE DEF n
    <3> QED BY <3>1, <3>2, <3>3, <2>a
  <2>2. g = E(g)
    <3>1. ASSUME NEW i \in 1 .. n PROVE g[i] = E(g)[i]
      <4>1. CASE i = 1
        <5> QED BY <2>b, <4>1
      <4>2. CASE i # 1
        <5>1. f[i] = f[i - 1] \o ss[i]
          BY <2>a
        <5>2. i - 1 \in 1 .. n /\ g[i - 1] = f[i - 1]
          BY <2>1, <4>2
        <5> QED BY <5>1, <5>2, <4>2
      <4> QED BY <4>1, <4>2
    <3> QED BY <3>1
  <2>3. flatten = E(flatten)
    <3> HIDE DEF E, g
    <3>1. \E h : h = E(h)
      BY <2>2
    <3> QED BY <3>1
  <2> HIDE DEF flatten
  <2> DEFINE T == {i \in 0 .. n : i = 0 \/ flatten[i] = f[i]}
  <2>4. ASSUME NEW i \in 0 .. n, i < n, i \in T PROVE i + 1 \in T
    <3>1. flatten[i + 1] = IF i + 1 = 1 THEN ss[i + 1] ELSE flatten[i] \o ss[i + 1]
      <4>1. i + 1 \in 1 .. n /\ (i + 1) - 1 = i
        BY <2>4
      <4> QED BY <4>1, <2>3
    <3>2. CASE i = 0
      <4>1. 1 = i + 1 /\ flatten[1] = ss[1]
        BY <3>1, <3>2
      <4> QED BY <4>1, <2>b, <2>1
    <3>3. CASE i # 0
      <4>1. flatten[i] = f[i]
        BY <3>3, <2>4
      <4>2. i + 1 \in 1 .. n /\ (i + 1) - 1 = i
        BY <2>1, <2>4
      <4>3. f[i + 1] = f[(i + 1) - 1] \o ss[i + 1]
        BY <4>2, <2>a
      <4>4. f[i + 1] = f[i] \o ss[i + 1]
        BY <4>2, <4>3
      <4>5. flatten[i + 1] = f[i + 1]
        <5>1. i + 1 # 1
          BY <3>3, <2>4
        <5> QED BY <4>1, <4>4, <3>1, <5>1
      <4>6. i + 1 \in 0 .. n
        BY <4>2, <2>1
      <4> QED BY <4>5, <4>6
    <3> QED BY <3>2, <3>3
  <2>5. 0 \in T /\ n \in Nat
    OBVIOUS
  <2> HIDE DEF T, n
  <2>6. 0 .. n \subseteq T
    BY <2>4, <2>5, UpTo
  <2>7. flatten[n] = f[n]
    BY <2>5, <2>6, <1>2 DEF T, n
  <2> QED BY <2>1, <2>7 DEF n
<1> QED BY <1>1, <1>2

-----------------------------------------------------------------------------
(***************************************************************************)
(* dechunk, by its equation: what the loop makes of the bytes from a line on. *)
(***************************************************************************)

Bytes == [is : {"head", "size", "item", "eol", "garbled"}, n : Nat]

\* The body of dechunk's loop at the size line i, with h for the rest of it.
AtLine(h, rest, i) ==
  IF i > Len(rest) \/ rest[i].is # "size" \/ rest[i].n = 0 THEN <<>>
  ELSE IF ChunkEnd(rest, i) = Len(rest) THEN SubSeq(rest, i + 1, ChunkEnd(rest, i))
  ELSE SubSeq(rest, i + 1, ChunkEnd(rest, i)) \o h[NextLine(rest, ChunkEnd(rest, i))]

\* h solves the loop's equation from the line first on.
Decodes(h, rest, first) ==
  \A i \in first .. Len(rest) + 1 : h[i] \in Seq(Bytes) /\ h[i] = AtLine(h, rest, i)

\* The loop goes forward, and no further than one past the end.
LEMMA LineAdvances ==
  ASSUME NEW rest \in Seq(Bytes), NEW i \in 1 .. Len(rest), ChunkEnd(rest, i) # Len(rest)
  PROVE  NextLine(rest, ChunkEnd(rest, i)) \in i + 1 .. Len(rest) + 1
<1>1. rest[i] \in Bytes
  OBVIOUS
<1>2. ChunkEnd(rest, i) \in i .. Len(rest)
  BY <1>1 DEF ChunkEnd, Least, Bytes
<1> QED BY <1>2 DEF NextLine

\* The body looks at what comes after its line only.
LEMMA AtLineAgrees ==
  ASSUME NEW rest \in Seq(Bytes), NEW i \in 1 .. Len(rest) + 1, NEW g, NEW h,
         \A k \in i + 1 .. Len(rest) + 1 : g[k] = h[k] /\ h[k] \in Seq(Bytes)
  PROVE  /\ AtLine(g, rest, i) = AtLine(h, rest, i)
         /\ AtLine(h, rest, i) \in Seq(Bytes)
<1>1. CASE i > Len(rest) \/ rest[i].is # "size" \/ rest[i].n = 0
  BY <1>1 DEF AtLine
<1>2. CASE ~(i > Len(rest) \/ rest[i].is # "size" \/ rest[i].n = 0)
  <2> DEFINE end == ChunkEnd(rest, i)
             data == SubSeq(rest, i + 1, end)
  <2>1. i \in 1 .. Len(rest) /\ rest[i] \in Bytes
    BY <1>2
  <2>2. end \in i .. Len(rest)
    BY <2>1 DEF ChunkEnd, Least, Bytes
  <2>3. data \in Seq(Bytes)
    BY <2>1, <2>2, SubSeqProperties
  <2>4. CASE end = Len(rest)
    BY <2>4, <1>2, <2>3 DEF AtLine
  <2>5. CASE end # Len(rest)
    <3> DEFINE k == NextLine(rest, end)
    <3>1. k \in i + 1 .. Len(rest) + 1
      BY <2>1, <2>5, LineAdvances
    <3>2. g[k] = h[k] /\ h[k] \in Seq(Bytes)
      BY <3>1
    <3>3. AtLine(g, rest, i) = data \o g[k] /\ AtLine(h, rest, i) = data \o h[k]
      BY <2>5, <1>2 DEF AtLine
    <3> HIDE DEF k, data
    <3>4. data \o h[k] \in Seq(Bytes)
      BY <2>3, <3>2
    <3> QED BY <3>2, <3>3, <3>4
  <2> QED BY <2>4, <2>5
<1> QED BY <1>1, <1>2

\* There is such a function: it is built from the end of the bytes to their start.
LEMMA DecodeExists ==
  ASSUME NEW rest \in Seq(Bytes)
  PROVE  \E h : Decodes(h, rest, 1)
<1> DEFINE L == Len(rest)
           T == {j \in 0 .. L : \E h : Decodes(h, rest, L + 1 - j)}
<1>1. L \in Nat
  OBVIOUS
<1>2. 0 \in T
  <2> DEFINE h == [i \in {L + 1} |-> <<>>]
  <2>1. \A i \in L + 1 - 0 .. L + 1 : i = L + 1 /\ AtLine(h, rest, i) = <<>>
    BY <1>1 DEF AtLine
  <2>2. \A i \in L + 1 - 0 .. L + 1 : h[i] = <<>> /\ <<>> \in Seq(Bytes)
    BY <2>1
  <2>3. Decodes(h, rest, L + 1 - 0)
    BY <2>1, <2>2 DEF Decodes
  <2> QED BY <1>1, <2>3
<1>3. ASSUME NEW j \in 0 .. L, j < L, j \in T PROVE j + 1 \in T
  <2>1. PICK h : Decodes(h, rest, L + 1 - j)
    BY <1>3
  <2> DEFINE b == L - j
             g == [i \in b .. L + 1 |-> IF i = b THEN AtLine(h, rest, b) ELSE h[i]]
  <2>2. /\ b \in 1 .. L /\ b + 1 = L + 1 - j /\ b = L + 1 - (j + 1)
        /\ j + 1 \in 0 .. L
    BY <1>1, <1>3
  <2>3. \A k \in b + 1 .. L + 1 : g[k] = h[k] /\ h[k] \in Seq(Bytes) /\ h[k] = AtLine(h, rest, k)
    BY <2>1, <2>2 DEF Decodes
  <2>4. g[b] = AtLine(h, rest, b)
    BY <2>2
  <2> HIDE DEF g, b
  <2>5. ASSUME NEW i \in b .. L + 1
        PROVE  g[i] \in Seq(Bytes) /\ g[i] = AtLine(g, rest, i)
    <3>1. /\ i \in 1 .. L + 1
          /\ \A k \in i + 1 .. L + 1 : g[k] = h[k] /\ h[k] \in Seq(Bytes)
      BY <1>1, <2>2, <2>3
    <3>2. /\ AtLine(g, rest, i) = AtLine(h, rest, i)
          /\ AtLine(h, rest, i) \in Seq(Bytes)
      BY <3>1, AtLineAgrees
    <3>3. CASE i = b
      BY <3>2, <3>3, <2>4
    <3>4. CASE i # b
      <4>1. i \in b + 1 .. L + 1
        BY <3>4, <2>2
      <4> QED BY <4>1, <2>3, <3>2
    <3> QED BY <3>3, <3>4
  <2>6. Decodes(g, rest, L + 1 - (j + 1))
    BY <2>2, <2>5 DEF Decodes
  <2> QED BY <2>2, <2>6
<1>4. L \in 0 .. L /\ L + 1 - L = 1
  BY <1>1
<1> HIDE DEF T, L
<1>5. 0 .. L \subseteq T
  BY <1>1, <1>2, <1>3, UpTo
<1> QED BY <1>4, <1>5 DEF T

\* dechunk computes it, whatever the bytes are.
LEMMA DechunkUnfolds ==
  ASSUME NEW rest \in Seq(Bytes)
  PROVE  \E from : Decodes(from, rest, 1) /\ dechunk(rest) = from[1]
<1>1. PICK h : Decodes(h, rest, 1)
  BY DecodeExists
<1> DEFINE D == 1 .. Len(rest) + 1
           E(f) == [i \in D |->
                      IF i > Len(rest) \/ rest[i].is # "size" \/ rest[i].n = 0 THEN <<>>
                      ELSE LET end  == ChunkEnd(rest, i)
                               data == SubSeq(rest, i + 1, end)
                           IN  IF end = Len(rest) THEN data
                               ELSE data \o f[NextLine(rest, end)]]
           from == CHOOSE f : f = E(f)
           g == [i \in D |-> h[i]]
<1>2. dechunk(rest) = from[1]
  BY DEF dechunk
<1>3. \A f : E(f) = [i \in D |-> AtLine(f, rest, i)]
  BY DEF AtLine
<1>4. \A i \in D : /\ h[i] = AtLine(h, rest, i) /\ h[i] \in Seq(Bytes)
                   /\ g[i] = h[i]
  BY <1>1 DEF Decodes
<1>5. g = E(g)
  <2>1. ASSUME NEW i \in D PROVE g[i] = AtLine(g, rest, i)
    <3>1. i \in 1 .. Len(rest) + 1 /\ Len(rest) \in Nat
      OBVIOUS
    <3>2. \A k \in i + 1 .. Len(rest) + 1 : k \in D
      BY <3>1
    <3>3. \A k \in i + 1 .. Len(rest) + 1 : g[k] = h[k] /\ h[k] \in Seq(Bytes)
      BY <3>2, <1>4
    <3>4. AtLine(g, rest, i) = AtLine(h, rest, i)
      BY <3>1, <3>3, AtLineAgrees
    <3> QED BY <3>4, <1>4
  <2>2. g = [i \in D |-> AtLine(g, rest, i)]
    BY <2>1
  <2> HIDE DEF g, E, D
  <2> QED BY <2>2, <1>3
<1>6. from = E(from)
  <2> HIDE DEF E, g, D
  <2>1. \E f : f = E(f)
    BY <1>5
  <2> QED BY <2>1
<1> HIDE DEF from
<1>7. \A i \in D : from[i] = AtLine(from, rest, i)
  <2>1. from = [i \in D |-> AtLine(from, rest, i)]
    <3> HIDE DEF E, D
    <3> QED BY <1>3, <1>6
  <2> QED BY <2>1
<1> DEFINE L == Len(rest)
           T == {j \in 0 .. L : \A i \in L + 1 - j .. L + 1 : from[i] = h[i]}
<1>8. L \in Nat /\ L \in 0 .. L /\ 0 \in 0 .. L /\ L + 1 - L = 1 /\ 1 \in D
  OBVIOUS
<1>9. ASSUME NEW b \in 1 .. L + 1, \A k \in b + 1 .. L + 1 : from[k] = h[k]
      PROVE  from[b] = h[b]
  <2>1. \A k \in b + 1 .. L + 1 : from[k] = h[k] /\ h[k] \in Seq(Bytes)
    BY <1>4, <1>8, <1>9
  <2>2. AtLine(from, rest, b) = AtLine(h, rest, b)
    BY <2>1, AtLineAgrees
  <2> QED BY <2>2, <1>4, <1>7
<1>10. 0 \in T
  <2>1. /\ L + 1 \in 1 .. L + 1
        /\ \A k \in (L + 1) + 1 .. L + 1 : from[k] = h[k]
        /\ \A i \in L + 1 - 0 .. L + 1 : i = L + 1
    BY <1>8
  <2>2. from[L + 1] = h[L + 1]
    BY <2>1, <1>9
  <2> QED BY <2>1, <2>2, <1>8
<1>11. ASSUME NEW j \in 0 .. L, j < L, j \in T PROVE j + 1 \in T
  <2> DEFINE b == L - j
  <2>1. /\ b \in 1 .. L + 1 /\ b + 1 = L + 1 - j /\ b = L + 1 - (j + 1)
        /\ j + 1 \in 0 .. L
    <3>1. \A l \in Nat : \A k \in 0 .. l :
            k < l => /\ l - k \in 1 .. l + 1 /\ (l - k) + 1 = l + 1 - k
                     /\ l - k = l + 1 - (k + 1) /\ k + 1 \in 0 .. l
      OBVIOUS
    <3> HIDE DEF L, T
    <3> QED BY <3>1, <1>8, <1>11
  <2>2. \A k \in b + 1 .. L + 1 : from[k] = h[k]
    BY <2>1, <1>11
  <2>3. from[b] = h[b]
    BY <2>1, <2>2, <1>9
  <2>4. \A i \in b .. L + 1 : i = b \/ i \in b + 1 .. L + 1
    BY <2>1, <1>8
  <2> QED BY <2>1, <2>2, <2>3, <2>4
<1> HIDE DEF T, L, D
<1>12. 0 .. L \subseteq T
  BY <1>8, <1>10, <1>11, UpTo
<1>13. \A i \in 1 .. L + 1 : from[i] = h[i]
  BY <1>8, <1>12 DEF T
<1>14. Decodes(from, rest, 1)
  BY <1>4, <1>7, <1>13 DEF Decodes, L, D
<1> QED BY <1>2, <1>14

-----------------------------------------------------------------------------
(***************************************************************************)
(* The bytes of an answer, as they lie on the wire.                        *)
(***************************************************************************)

\* The library's IsPrefix compares subsequences; the proofs compare bytes.
LEMMA PrefixPointwise ==
  ASSUME NEW S, NEW s \in Seq(S), NEW t \in Seq(S), Len(s) <= Len(t),
         \A k \in 1 .. Len(s) : s[k] = t[k]
  PROVE  IsPrefix(s, t)
<1>1. Len(s) \in 0 .. Len(t) /\ Len(t) \in Nat
  OBVIOUS
<1>2. /\ SubSeq(s, 1, Len(s)) = [k \in 1 .. Len(s) |-> s[k]]
      /\ SubSeq(t, 1, Len(s)) = [k \in 1 .. Len(s) |-> t[k]]
  BY <1>1
<1> QED BY <1>1, <1>2 DEF IsPrefix

Begins(s, t) == Len(s) <= Len(t) /\ \A k \in 1 .. Len(s) : t[k] = s[k]

\* What is flattened first comes first.
LEMMA FlattenPrefix ==
  ASSUME NEW S, NEW n \in Nat, NEW ss, NEW f, Flattens(f, ss, n, S),
         \A i \in 1 .. n : ss[i] \in Seq(S), NEW i \in 0 .. n
  PROVE  Begins(f[i], f[n])
<1> DEFINE T == {j \in 0 .. n - i : /\ Len(f[i]) <= Len(f[i + j])
                                    /\ \A k \in 1 .. Len(f[i]) : f[i + j][k] = f[i][k]}
<1>1. \A j \in 0 .. n : f[j] \in Seq(S)
  BY DEF Flattens
<1>2. f[i] \in Seq(S) /\ Len(f[i]) \in Nat
  BY <1>1
<1>3. 0 \in T
  <2>1. i + 0 = i /\ 0 \in 0 .. n - i
    OBVIOUS
  <2> QED BY <2>1, <1>2
<1>4. ASSUME NEW j \in 0 .. n - i, j < n - i, j \in T PROVE j + 1 \in T
  <2>1. /\ i + j \in 0 .. n /\ (i + j) + 1 \in 1 .. n /\ ((i + j) + 1) - 1 = i + j
        /\ i + (j + 1) = (i + j) + 1 /\ j + 1 \in 0 .. n - i
    BY <1>4
  <2> DEFINE x == f[i + j]
             y == ss[(i + j) + 1]
  <2>2. x \in Seq(S) /\ y \in Seq(S) /\ f[i + (j + 1)] = x \o y
    BY <2>1, <1>1 DEF Flattens
  <2>3. /\ Len(f[i]) <= Len(x)
        /\ \A k \in 1 .. Len(f[i]) : x[k] = f[i][k]
    BY <1>4
  <2> HIDE DEF x, y
  <2>4. /\ Len(x \o y) = Len(x) + Len(y) /\ Len(x) \in Nat /\ Len(y) \in Nat
        /\ \A k \in 1 .. Len(x) : (x \o y)[k] = x[k]
    BY <2>2
  <2>5. /\ Len(f[i]) <= Len(x \o y)
        /\ \A k \in 1 .. Len(f[i]) : (x \o y)[k] = f[i][k]
    BY <2>3, <2>4, <1>2
  <2> QED BY <2>1, <2>2, <2>5
<1>5. n - i \in Nat /\ n - i \in 0 .. n - i /\ i + (n - i) = n
  OBVIOUS
<1> HIDE DEF T
<1>6. 0 .. n - i \subseteq T
  BY <1>3, <1>4, <1>5, UpTo
<1> QED BY <1>5, <1>6 DEF T, Begins

\* The items of a content are those of its pieces.
LEMMA ItemsConcat ==
  ASSUME NEW x \in Seq(Nat), NEW y \in Seq(Nat)
  PROVE  /\ Items(x) \in Seq(Bytes) /\ Len(Items(x)) = Len(x)
         /\ Items(x \o y) = Items(x) \o Items(y)
         /\ \A k \in 1 .. Len(x) : Items(x)[k] = Byte("item", x[k])
<1>1. \A z \in Seq(Nat) : /\ Items(z) = [k \in 1 .. Len(z) |-> Byte("item", z[k])]
                          /\ Items(z) \in Seq(Bytes) /\ Len(Items(z)) = Len(z)
  <2>1. ASSUME NEW z \in Seq(Nat)
        PROVE  /\ Items(z) = [k \in 1 .. Len(z) |-> Byte("item", z[k])]
               /\ Items(z) \in Seq(Bytes) /\ Len(Items(z)) = Len(z)
    <3>1. DOMAIN z = 1 .. Len(z) /\ \A k \in 1 .. Len(z) : z[k] \in Nat
      OBVIOUS
    <3>2. \A k \in 1 .. Len(z) : Byte("item", z[k]) \in Bytes
      BY <3>1 DEF Byte, Bytes
    <3>3. Items(z) = [k \in 1 .. Len(z) |-> Byte("item", z[k])]
      BY <3>1 DEF Items
    <3>4. Items(z) \in Seq(Bytes)
      BY <3>2, <3>3, IsASeq
    <3> QED BY <3>3, <3>4
  <2> QED BY <2>1
<1>2. x \o y \in Seq(Nat) /\ Len(x \o y) = Len(x) + Len(y)
  OBVIOUS
<1> DEFINE X == Items(x)
           Y == Items(y)
<1>a. X \in Seq(Bytes) /\ Len(X) = Len(x) /\ Y \in Seq(Bytes) /\ Len(Y) = Len(y)
  BY <1>1
<1>b. \A k \in 1 .. Len(x) + Len(y) :
        /\ (x \o y)[k] = IF k <= Len(x) THEN x[k] ELSE y[k - Len(x)]
        /\ (X \o Y)[k] = IF k <= Len(x) THEN X[k] ELSE Y[k - Len(x)]
  <2>1. \A k \in 1 .. Len(x) + Len(y) :
          (x \o y)[k] = IF k <= Len(x) THEN x[k] ELSE y[k - Len(x)]
    BY ConcatProperties
  <2> HIDE DEF X, Y
  <2>2. \A k \in 1 .. Len(X) + Len(Y) :
          (X \o Y)[k] = IF k <= Len(X) THEN X[k] ELSE Y[k - Len(X)]
    BY <1>a, ConcatProperties
  <2> QED BY <2>1, <2>2, <1>a
<1>3. X \o Y \in Seq(Bytes) /\ Len(X \o Y) = Len(x) + Len(y)
  <2> HIDE DEF X, Y
  <2>1. X \o Y \in Seq(Bytes) /\ Len(X \o Y) = Len(X) + Len(Y)
    BY <1>a, ConcatProperties
  <2> QED BY <2>1, <1>a
<1>4. ASSUME NEW k \in 1 .. Len(x) + Len(y)
      PROVE  Items(x \o y)[k] = (X \o Y)[k]
  <2>1. Items(x \o y)[k] = Byte("item", (x \o y)[k])
    BY <1>1, <1>2
  <2>a. Len(x) \in Nat /\ Len(y) \in Nat /\ k \in Nat
    OBVIOUS
  <2>2. CASE k <= Len(x)
    <3>1. k \in 1 .. Len(x)
      BY <2>2
    <3>2. (x \o y)[k] = x[k] /\ (X \o Y)[k] = X[k]
      BY <2>2, <1>b
    <3> QED BY <3>1, <3>2, <2>1, <1>1
  <2>3. CASE k > Len(x)
    <3>1. k - Len(x) \in 1 .. Len(y)
      BY <2>3
    <3>2. (x \o y)[k] = y[k - Len(x)] /\ (X \o Y)[k] = Y[k - Len(x)]
      <4>1. ~(k <= Len(x))
        BY <2>a, <2>3
      <4> HIDE DEF X, Y
      <4> QED BY <4>1, <1>b
    <3>3. Y[k - Len(x)] = Byte("item", y[k - Len(x)])
      BY <3>1, <1>1
    <3> HIDE DEF X, Y
    <3> QED BY <3>2, <3>3, <2>1
  <2>4. k <= Len(x) \/ k > Len(x)
    BY <2>a
  <2> QED BY <2>2, <2>3, <2>4, Zenon
<1>5. Items(x \o y) = X \o Y
  <2>1. Items(x \o y) \in Seq(Bytes) /\ Len(Items(x \o y)) = Len(x) + Len(y)
    BY <1>1, <1>2
  <2> HIDE DEF X, Y
  <2> QED BY <2>1, <1>3, <1>4, SeqEqual
<1> QED BY <1>1, <1>5

\* A chunk as it lies in the bytes: its size line, its items, its line break.
LEMMA FramedLayout ==
  ASSUME NEW part \in Seq(Nat)
  PROVE  /\ Framed(part) \in Seq(Bytes)
         /\ Len(Framed(part)) = Len(part) + 2
         /\ Framed(part)[1] = Byte("size", Len(part))
         /\ \A k \in 1 .. Len(part) : Framed(part)[k + 1] = Items(part)[k]
         /\ Framed(part)[Len(part) + 2] = Byte("eol", 0)
<1> DEFINE a == <<Byte("size", Len(part))>>
           b == Items(part)
           c == <<Byte("eol", 0)>>
<1>1. b \in Seq(Bytes) /\ Len(b) = Len(part) /\ Len(part) \in Nat
  BY ItemsConcat
<1>2. Byte("size", Len(part)) \in Bytes /\ Byte("eol", 0) \in Bytes
  BY <1>1 DEF Byte, Bytes
<1>3. /\ a \in Seq(Bytes) /\ Len(a) = 1 /\ a[1] = Byte("size", Len(part))
      /\ c \in Seq(Bytes) /\ Len(c) = 1 /\ c[1] = Byte("eol", 0)
  BY <1>2
<1>4. Framed(part) = (a \o b) \o c
  <2>1. a \o (b \o c) = (a \o b) \o c
    BY <1>1, <1>3, ConcatAssociative
  <2> QED BY <2>1 DEF Framed
<1> HIDE DEF a, b, c
<1>5. /\ a \o b \in Seq(Bytes) /\ Len(a \o b) = Len(part) + 1
      /\ (a \o b)[1] = a[1]
      /\ \A k \in 1 .. Len(part) : (a \o b)[k + 1] = b[k]
  <2>1. /\ a \o b \in Seq(Bytes) /\ Len(a \o b) = Len(part) + 1
        /\ \A k \in 1 .. 1 + Len(part) :
             (a \o b)[k] = IF k <= 1 THEN a[k] ELSE b[k - 1]
    <3>1. /\ a \o b \in Seq(Bytes) /\ Len(a \o b) = Len(a) + Len(b)
          /\ \A k \in 1 .. Len(a) + Len(b) :
               (a \o b)[k] = IF k <= Len(a) THEN a[k] ELSE b[k - Len(a)]
      <4>1. a \in Seq(Bytes) /\ b \in Seq(Bytes)
        BY <1>1, <1>3
      <4> QED BY <4>1, ConcatProperties
    <3> QED BY <3>1, <1>1, <1>3
  <2>2. \A k \in 1 .. Len(part) : /\ k + 1 \in 1 .. 1 + Len(part)
                                  /\ ~(k + 1 <= 1) /\ (k + 1) - 1 = k
    BY <1>1
  <2>3. 1 \in 1 .. 1 + Len(part)
    BY <1>1
  <2> QED BY <2>1, <2>2, <2>3
<1>6. /\ (a \o b) \o c \in Seq(Bytes) /\ Len((a \o b) \o c) = Len(part) + 2
      /\ \A k \in 1 .. Len(part) + 1 : ((a \o b) \o c)[k] = (a \o b)[k]
      /\ ((a \o b) \o c)[Len(part) + 2] = c[1]
  BY <1>1, <1>3, <1>5
<1>7. /\ 1 \in 1 .. Len(part) + 1
      /\ \A k \in 1 .. Len(part) : k + 1 \in 1 .. Len(part) + 1
  BY <1>1
<1> QED BY <1>3, <1>4, <1>5, <1>6, <1>7 DEF b

FramedParts(parts) == [k \in DOMAIN parts |-> Framed(parts[k])]

\* The chunk of a part on the wire v, its size line at p.
PlacedAt(v, p, part) ==
  /\ v[p] = Byte("size", Len(part))
  /\ \A k \in 1 .. Len(part) : v[p + k] = Items(part)[k]
  /\ v[p + Len(part) + 1] = Byte("eol", 0)

\* What the loop makes of one chunk: its items, and on; or those that arrived.
LEMMA ChunkRead ==
  ASSUME NEW rest \in Seq(Bytes), NEW from, Decodes(from, rest, 1),
         NEW part \in Seq(Nat), part # <<>>, NEW p \in 1 .. Len(rest),
         rest[p] = Byte("size", Len(part)),
         \A k \in 1 .. Len(part) : p + k <= Len(rest) => rest[p + k] = Items(part)[k],
         p + Len(part) + 1 <= Len(rest) => rest[p + Len(part) + 1] = Byte("eol", 0)
  PROVE  IF p + Len(part) + 1 <= Len(rest)
         THEN from[p] = Items(part) \o from[p + Len(part) + 2]
         ELSE from[p] = SubSeq(Items(part), 1, Len(rest) - p)
<1> DEFINE L == Len(rest)
           l == Len(part)
           end == ChunkEnd(rest, p)
<1>1. L \in Nat /\ l \in Nat /\ l > 0 /\ p \in Nat /\ p >= 1 /\ p <= L
  OBVIOUS
<1>2. rest[p].is = "size" /\ rest[p].n = l
  BY DEF Byte
<1>3. end = Least(p + l, L)
  BY <1>2 DEF ChunkEnd
<1>4. from[p] = AtLine(from, rest, p)
  BY DEF Decodes
<1>5. from[p] = IF end = L THEN SubSeq(rest, p + 1, end)
                ELSE SubSeq(rest, p + 1, end) \o from[NextLine(rest, end)]
  BY <1>1, <1>2, <1>4 DEF AtLine
<1>6. Items(part) \in Seq(Bytes) /\ Len(Items(part)) = l
  BY ItemsConcat
<1>7. ASSUME NEW e \in Nat, p < e + 1, e <= L, e <= p + l
      PROVE  SubSeq(rest, p + 1, e) = SubSeq(Items(part), 1, e - p)
  <2> DEFINE x == SubSeq(rest, p + 1, e)
             I == Items(part)
             y == SubSeq(I, 1, e - p)
  <2>0. e - p \in 0 .. l /\ e \in p .. L
    BY <1>1, <1>7
  <2>1. x \in Seq(Bytes) /\ Len(x) = e - p /\ \A k \in 1 .. e - p : x[k] = rest[p + k]
    BY <1>1, <1>7, <2>0
  <2>2. y \in Seq(Bytes) /\ Len(y) = e - p /\ \A k \in 1 .. e - p : y[k] = I[k]
    <3> HIDE DEF I
    <3> QED BY <1>1, <1>6, <2>0, SMTT(20) DEF I
  <2>3. \A k \in 1 .. e - p : k \in 1 .. l /\ p + k <= L
    BY <1>1, <2>0
  <2>4. \A k \in 1 .. e - p : x[k] = y[k]
    BY <2>1, <2>2, <2>3
  <2> HIDE DEF x, y
  <2>5. x = y
    BY <2>0, <2>1, <2>2, <2>4, SeqEqual
  <2> QED BY <2>5 DEF x, y
<1>8. CASE p + l + 1 <= L
  <2>1. end = p + l /\ end # L /\ end <= L /\ end \in Nat /\ end - p = l
        /\ p < end + 1 /\ end <= p + l
    BY <1>1, <1>3, <1>8 DEF Least
  <2>2. NextLine(rest, end) = p + l + 2
    <3>1. rest[end + 1].is = "eol" /\ end + 2 = p + l + 2
      BY <1>1, <1>8, <2>1 DEF Byte
    <3> QED BY <3>1 DEF NextLine
  <2>3. SubSeq(rest, p + 1, end) = SubSeq(Items(part), 1, l)
    <3> HIDE DEF end
    <3> QED BY <1>1, <1>7, <2>1
  <2>4. SubSeq(Items(part), 1, l) = Items(part)
    BY <1>6, SubSeqFull
  <2>5. from[p] = Items(part) \o from[p + l + 2]
    <3> HIDE DEF end
    <3> QED BY <1>5, <2>1, <2>2, <2>3, <2>4
  <2> QED BY <2>5, <1>8
<1>9. CASE ~(p + l + 1 <= L)
  <2>1. end = L /\ L <= p + l /\ p < L + 1
    BY <1>1, <1>3, <1>9 DEF Least
  <2>2. SubSeq(rest, p + 1, L) = SubSeq(Items(part), 1, L - p)
    BY <1>1, <1>7, <2>1
  <2>3. from[p] = SubSeq(Items(part), 1, L - p)
    <3> HIDE DEF end
    <3> QED BY <1>5, <2>1, <2>2
  <2> QED BY <2>3, <1>9
<1> QED BY <1>8, <1>9

\* An index into the second of two sequences put together.
LEMMA ShiftedIndex ==
  \A a, b \in Nat : \A k \in 1 .. b + 2 :
     a + k \in 1 .. a + (b + 2) /\ ~(a + k <= a) /\ (a + k) - a = k
OBVIOUS

\* The chunk after the first i, where it lies on the wire.
LEMMA Layout ==
  ASSUME NEW parts \in Seq(Seq(Nat) \ {<<>>}),
         NEW w, Flattens(w, FramedParts(parts), Len(parts), Bytes),
         NEW i \in 0 .. Len(parts), i < Len(parts)
  PROVE  /\ parts[i + 1] \in Seq(Nat) /\ parts[i + 1] # <<>>
         /\ Len(w[i + 1]) = (Len(w[i]) + 1) + Len(parts[i + 1]) + 1
         /\ Len(w[i + 1]) <= Len(w[Len(parts)])
         /\ PlacedAt(w[Len(parts)], Len(w[i]) + 1, parts[i + 1])
<1> DEFINE n == Len(parts)
           ss == FramedParts(parts)
           part == parts[i + 1]
           p == Len(w[i]) + 1
           x == w[i]
           y == Framed(part)
<1>1. n \in Nat /\ i + 1 \in 1 .. n /\ i + 1 \in 0 .. n /\ n \in 0 .. n /\ (i + 1) - 1 = i
  OBVIOUS
<1>2. \A k \in 1 .. n : parts[k] \in Seq(Nat) /\ parts[k] # <<>>
  OBVIOUS
<1>3. \A k \in 1 .. n : ss[k] = Framed(parts[k]) /\ ss[k] \in Seq(Bytes)
  <2>1. DOMAIN parts = 1 .. n
    OBVIOUS
  <2> QED BY <2>1, <1>2, FramedLayout DEF FramedParts
<1>0. Flattens(w, ss, n, Bytes)
  OBVIOUS
<1>4. \A k \in 0 .. n : w[k] \in Seq(Bytes) /\ Len(w[k]) \in Nat
  <2>1. \A k \in 0 .. n : w[k] \in Seq(Bytes)
    BY DEF Flattens
  <2> QED BY <2>1
<1>5. /\ y \in Seq(Bytes) /\ Len(y) = Len(part) + 2 /\ Len(part) \in Nat
      /\ y[1] = Byte("size", Len(part))
      /\ \A k \in 1 .. Len(part) : y[k + 1] = Items(part)[k]
      /\ y[Len(part) + 2] = Byte("eol", 0)
  <2>1. part \in Seq(Nat)
    BY <1>1, <1>2
  <2> HIDE DEF part
  <2> QED BY <2>1, FramedLayout
<1>6. w[i + 1] = x \o y /\ x \in Seq(Bytes) /\ Len(x) \in Nat
  <2>1. w[i + 1] = w[(i + 1) - 1] \o ss[i + 1]
    BY <1>1 DEF Flattens
  <2> QED BY <2>1, <1>1, <1>3, <1>4
<1>7. /\ Len(w[i + 1]) <= Len(w[n])
      /\ \A k \in 1 .. Len(w[i + 1]) : w[n][k] = w[i + 1][k]
  <2> HIDE DEF ss, n
  <2>1. \A k \in 1 .. n : ss[k] \in Seq(Bytes)
    BY <1>3
  <2>2. \A j \in 0 .. n : Begins(w[j], w[n])
    BY <1>0, <1>1, <2>1, FlattenPrefix
  <2> QED BY <1>1, <2>2 DEF Begins
<1>8. /\ Len(w[i + 1]) = Len(x) + (Len(part) + 2)
      /\ \A k \in 1 .. Len(x) + (Len(part) + 2) :
           w[i + 1][k] = IF k <= Len(x) THEN x[k] ELSE y[k - Len(x)]
  <2> HIDE DEF x, y
  <2>1. /\ Len(x \o y) = Len(x) + Len(y)
        /\ \A k \in 1 .. Len(x) + Len(y) :
             (x \o y)[k] = IF k <= Len(x) THEN x[k] ELSE y[k - Len(x)]
    BY <1>5, <1>6, ConcatProperties
  <2> QED BY <2>1, <1>5, <1>6
<1>9. \A k \in 1 .. Len(part) + 2 : w[n][Len(x) + k] = y[k]
  <2> HIDE DEF x, y, part, n
  <2>1. ASSUME NEW k \in 1 .. Len(part) + 2 PROVE w[n][Len(x) + k] = y[k]
    <3>1. /\ Len(x) + k \in 1 .. Len(x) + (Len(part) + 2)
          /\ ~(Len(x) + k <= Len(x)) /\ (Len(x) + k) - Len(x) = k
      BY <1>5, <1>6, ShiftedIndex
    <3> QED BY <3>1, <1>7, <1>8
  <2> QED BY <2>1
<1>10. /\ p = Len(x) + 1 /\ p + Len(part) + 1 = Len(x) + (Len(part) + 2)
       /\ \A k \in 1 .. Len(part) : p + k = Len(x) + (k + 1) /\ k + 1 \in 1 .. Len(part) + 2
       /\ 1 \in 1 .. Len(part) + 2 /\ Len(part) + 2 \in 1 .. Len(part) + 2
  <2>1. \A a, b \in Nat :
          /\ (a + 1) + b + 1 = a + (b + 2)
          /\ \A k \in 1 .. b : (a + 1) + k = a + (k + 1) /\ k + 1 \in 1 .. b + 2
          /\ 1 \in 1 .. b + 2 /\ b + 2 \in 1 .. b + 2
    OBVIOUS
  <2> HIDE DEF part
  <2> QED BY <2>1, <1>5, <1>6
<1>11. /\ w[n][p] = Byte("size", Len(part))
       /\ \A k \in 1 .. Len(part) : w[n][p + k] = Items(part)[k]
       /\ w[n][p + Len(part) + 1] = Byte("eol", 0)
  <2> HIDE DEF part, n, x, y, p
  <2> QED BY <1>5, <1>9, <1>10
<1>12. Len(w[i + 1]) = p + Len(part) + 1
  <2> HIDE DEF x, p, part
  <2> QED BY <1>8, <1>10
<1>13. part \in Seq(Nat) /\ part # <<>>
  BY <1>1, <1>2
<1>14. PlacedAt(w[n], p, part)
  BY <1>11 DEF PlacedAt
<1> QED BY <1>7, <1>12, <1>13, <1>14

-----------------------------------------------------------------------------
(***************************************************************************)
(* As many of them as have arrived, and the loop over those.               *)
(***************************************************************************)

\* What has arrived of the wire v and the one size line that ends it.
Arrived(rest, v) ==
  /\ rest \in Seq(Bytes) /\ Len(rest) <= Len(v) + 1
  /\ \A k \in 1 .. Len(rest) : k <= Len(v) => rest[k] = v[k]

\* The chunk at size line p of rest, for what the next two lemmas read of it.
ChunkAt(rest, p, part) ==
  /\ rest[p] = Byte("size", Len(part))
  /\ \A k \in 1 .. Len(part) : p + k <= Len(rest) => rest[p + k] = Items(part)[k]
  /\ p + Len(part) + 1 <= Len(rest) => rest[p + Len(part) + 1] = Byte("eol", 0)

\* However much of the wire has arrived, each chunk of it lies where it was put.
LEMMA ArrivedLayout ==
  ASSUME NEW parts \in Seq(Seq(Nat) \ {<<>>}),
         NEW w, Flattens(w, FramedParts(parts), Len(parts), Bytes),
         NEW rest, Arrived(rest, w[Len(parts)]),
         NEW i \in 0 .. Len(parts), i < Len(parts), Len(w[i]) < Len(rest)
  PROVE  /\ parts[i + 1] \in Seq(Nat) /\ parts[i + 1] # <<>>
         /\ Len(w[i]) + 1 \in 1 .. Len(rest)
         /\ Len(w[i + 1]) = (Len(w[i]) + 1) + Len(parts[i + 1]) + 1
         /\ ChunkAt(rest, Len(w[i]) + 1, parts[i + 1])
<1> DEFINE n == Len(parts)
           part == parts[i + 1]
           p == Len(w[i]) + 1
           v == w[n]
<1>0. /\ part \in Seq(Nat) /\ part # <<>>
      /\ Len(w[i + 1]) = p + Len(part) + 1 /\ Len(w[i + 1]) <= Len(v)
      /\ PlacedAt(v, p, part)
  BY Layout
<1>1. Len(part) \in Nat /\ Len(w[i]) \in Nat /\ Len(v) \in Nat /\ Len(rest) \in Nat
  <2>1. n \in Nat /\ n \in 0 .. n
    OBVIOUS
  <2>2. Len(w[i]) \in Nat /\ Len(v) \in Nat
    BY <2>1, FlattenTypes
  <2>3. rest \in Seq(Bytes)
    BY DEF Arrived
  <2>4. Len(part) \in Nat
    <3> HIDE DEF part, v, p
    <3> QED BY <1>0
  <2>5. Len(rest) \in Nat
    BY <2>3
  <2> QED BY <2>2, <2>4, <2>5
<1>2. p \in Nat /\ p >= 1 /\ p \in 1 .. Len(rest)
  <2>1. \A a, b \in Nat : a < b => a + 1 \in Nat /\ a + 1 >= 1 /\ a + 1 \in 1 .. b
    OBVIOUS
  <2>2. Len(w[i]) < Len(rest)
    OBVIOUS
  <2>3. Len(w[i]) \in Nat /\ Len(rest) \in Nat
    BY <1>1
  <2> HIDE DEF n, part, v
  <2> QED BY <2>1, <2>2, <2>3, Zenon
<1>3. p + Len(part) + 1 <= Len(v)
  BY <1>0
<1>4. \A k \in 1 .. Len(rest) : k <= Len(v) => rest[k] = v[k]
  BY DEF Arrived
<1>b. /\ v[p] = Byte("size", Len(part))
      /\ \A k \in 1 .. Len(part) : v[p + k] = Items(part)[k]
      /\ v[p + Len(part) + 1] = Byte("eol", 0)
  BY <1>0 DEF PlacedAt
<1> HIDE DEF n, part, p, v
<1>5. rest[p] = Byte("size", Len(part))
  <2>1. p <= Len(v)
    BY <1>1, <1>2, <1>3
  <2> QED BY <2>1, <1>2, <1>4, <1>b
<1>6. ASSUME NEW k \in 1 .. Len(part), p + k <= Len(rest)
      PROVE  rest[p + k] = Items(part)[k]
  <2>1. p + k <= Len(v) /\ p + k \in 1 .. Len(rest)
    BY <1>1, <1>2, <1>3, <1>6
  <2> QED BY <2>1, <1>4, <1>b
<1>7. ASSUME p + Len(part) + 1 <= Len(rest)
      PROVE  rest[p + Len(part) + 1] = Byte("eol", 0)
  <2>1. p + Len(part) + 1 \in 1 .. Len(rest)
    BY <1>1, <1>2, <1>7
  <2> QED BY <2>1, <1>3, <1>4, <1>b
<1>8. ChunkAt(rest, p, part)
  BY <1>5, <1>6, <1>7 DEF ChunkAt
<1> QED BY <1>0, <1>2, <1>8 DEF p, part

LEMMA BytesConcat ==
  \A r, s, t \in Seq(Bytes) : r \o (s \o t) = (r \o s) \o t
<1> TAKE r, s, t \in Seq(Bytes)
<1>1. (r \o s) \o t = r \o (s \o t)
  BY ConcatAssociative
<1> QED BY <1>1

\* A chunked answer: the content and the wire after each chunk, what arrived of
\* it, and the loop over that.
Framing(parts, n, c, w, rest, from) ==
  /\ parts \in Seq(Seq(Nat) \ {<<>>}) /\ n = Len(parts)
  /\ Flattens(c, parts, n, Nat)
  /\ Flattens(w, FramedParts(parts), n, Bytes)
  /\ Arrived(rest, w[n])
  /\ Decodes(from, rest, 1)

LEMMA FramingTypes ==
  ASSUME NEW parts, NEW n, NEW c, NEW w, NEW rest, NEW from,
         Framing(parts, n, c, w, rest, from)
  PROVE  /\ n \in Nat /\ c[0] = <<>> /\ Len(w[0]) = 0
         /\ rest \in Seq(Bytes) /\ Len(rest) \in Nat /\ Len(rest) <= Len(w[n]) + 1
         /\ \A i \in 0 .. n : c[i] \in Seq(Nat) /\ Len(w[i]) \in Nat
         /\ \A i \in 1 .. Len(rest) + 1 : from[i] \in Seq(Bytes)
<1>1. parts \in Seq(Seq(Nat) \ {<<>>}) /\ n = Len(parts)
  BY DEF Framing
<1>2. n \in Nat
  BY <1>1
<1>3. Flattens(c, parts, n, Nat) /\ Flattens(w, FramedParts(parts), n, Bytes)
  BY DEF Framing
<1>4. c[0] = <<>> /\ \A i \in 0 .. n : c[i] \in Seq(Nat)
  BY <1>3 DEF Flattens
<1>5. w[0] = <<>> /\ \A i \in 0 .. n : Len(w[i]) \in Nat
  <2>1. w[0] = <<>> /\ \A i \in 0 .. n : w[i] \in Seq(Bytes)
    BY <1>3 DEF Flattens
  <2> QED BY <2>1
<1>6. rest \in Seq(Bytes) /\ Len(rest) <= Len(w[n]) + 1
  BY DEF Framing, Arrived
<1>7. Len(rest) \in Nat
  BY <1>6
<1>8. \A i \in 1 .. Len(rest) + 1 : from[i] \in Seq(Bytes)
  BY DEF Framing, Decodes
<1> QED BY <1>2, <1>4, <1>5, <1>6, <1>7, <1>8

\* The chunk after the first i, in the content and on the wire.
Grows(parts, c, w, i) ==
  /\ parts[i + 1] \in Seq(Nat) /\ parts[i + 1] # <<>>
  /\ c[i + 1] = c[i] \o parts[i + 1]
  /\ Items(parts[i + 1]) \in Seq(Bytes) /\ Len(Items(parts[i + 1])) = Len(parts[i + 1])
  /\ Len(parts[i + 1]) \in Nat
  /\ Items(c[i]) \in Seq(Bytes)
  /\ Items(c[i + 1]) = Items(c[i]) \o Items(parts[i + 1])
  /\ Len(w[i + 1]) = Len(w[i]) + Len(parts[i + 1]) + 2

LEMMA ContentStep ==
  ASSUME NEW parts, NEW n, NEW c, NEW w, NEW rest, NEW from,
         Framing(parts, n, c, w, rest, from), NEW i \in 0 .. n, i < n
  PROVE  Grows(parts, c, w, i)
<1> DEFINE part == parts[i + 1]
<1>1. n \in Nat /\ i + 1 \in 1 .. n /\ (i + 1) - 1 = i /\ c[i] \in Seq(Nat)
      /\ Len(w[i]) \in Nat
  BY FramingTypes
<1>2. part \in Seq(Nat) /\ part # <<>>
  BY <1>1 DEF Framing
<1>3. c[i + 1] = c[(i + 1) - 1] \o parts[i + 1]
  BY <1>1 DEF Framing, Flattens
<1>4. Len(w[i + 1]) = (Len(w[i]) + 1) + Len(part) + 1
  <2>1. /\ parts \in Seq(Seq(Nat) \ {<<>>}) /\ n = Len(parts)
        /\ Flattens(w, FramedParts(parts), Len(parts), Bytes)
    BY DEF Framing
  <2> QED BY <2>1, Layout
<1> HIDE DEF part
<1>5. Len(part) \in Nat
  BY <1>2
<1>6. /\ Items(part) \in Seq(Bytes) /\ Len(Items(part)) = Len(part)
      /\ Items(c[i]) \in Seq(Bytes)
      /\ Items(c[i] \o part) = Items(c[i]) \o Items(part)
  BY <1>1, <1>2, ItemsConcat
<1>7. Len(w[i + 1]) = Len(w[i]) + Len(part) + 2
  BY <1>1, <1>4, <1>5
<1> QED BY <1>1, <1>2, <1>3, <1>5, <1>6, <1>7 DEF part, Grows

\* What the loop makes of the chunk after the first i: its items, and on; or
\* those that arrived.
ChunkOut(parts, w, rest, from, i) ==
  IF Len(w[i + 1]) <= Len(rest)
  THEN from[Len(w[i]) + 1] = Items(parts[i + 1]) \o from[Len(w[i + 1]) + 1]
  ELSE from[Len(w[i]) + 1]
         = SubSeq(Items(parts[i + 1]), 1, Len(rest) - (Len(w[i]) + 1))

LEMMA OneChunk ==
  ASSUME NEW parts, NEW n, NEW c, NEW w, NEW rest, NEW from,
         Framing(parts, n, c, w, rest, from),
         NEW i \in 0 .. n, i < n, Len(w[i]) < Len(rest)
  PROVE  ChunkOut(parts, w, rest, from, i)
<1> DEFINE part == parts[i + 1]
           p == Len(w[i]) + 1
<1>1. ChunkAt(rest, p, part) /\ p \in 1 .. Len(rest)
  <2>1. /\ parts \in Seq(Seq(Nat) \ {<<>>}) /\ n = Len(parts)
        /\ Flattens(w, FramedParts(parts), Len(parts), Bytes)
        /\ Arrived(rest, w[Len(parts)])
    BY DEF Framing
  <2> QED BY <2>1, ArrivedLayout
<1>2. rest \in Seq(Bytes) /\ Decodes(from, rest, 1) /\ Len(w[i]) \in Nat /\ Len(rest) \in Nat
  BY FramingTypes DEF Framing
<1>3. part \in Seq(Nat) /\ part # <<>> /\ Len(part) \in Nat
      /\ Len(w[i + 1]) = Len(w[i]) + Len(part) + 2
  <2>1. Grows(parts, c, w, i)
    BY ContentStep
  <2> QED BY <2>1 DEF Grows
<1> HIDE DEF part
<1>4. p + Len(part) + 1 = Len(w[i + 1]) /\ p + Len(part) + 2 = Len(w[i + 1]) + 1
  BY <1>2, <1>3
<1> HIDE DEF p
<1>5. IF p + Len(part) + 1 <= Len(rest)
      THEN from[p] = Items(part) \o from[p + Len(part) + 2]
      ELSE from[p] = SubSeq(Items(part), 1, Len(rest) - p)
  BY <1>1, <1>2, <1>3, ChunkRead DEF ChunkAt
<1> QED BY <1>4, <1>5 DEF p, part, ChunkOut

\* The loop, chunk by chunk: after the first i, their items are out.
OutAfter(c, w, from, i) == from[1] = Items(c[i]) \o from[Len(w[i]) + 1]

LEMMA ChunksRead ==
  ASSUME NEW parts, NEW n, NEW c, NEW w, NEW rest, NEW from,
         Framing(parts, n, c, w, rest, from),
         NEW last \in 0 .. n, Len(w[last]) <= Len(rest)
  PROVE  OutAfter(c, w, from, last)
<1> DEFINE Out(i) == from[1] = Items(c[i]) \o from[Len(w[i]) + 1]
           T == {i \in 0 .. n : Len(w[i]) <= Len(rest) => Out(i)}
<1>1. n \in Nat /\ 0 \in 0 .. n /\ Len(rest) \in Nat
  BY FramingTypes
<1>2. 0 \in T
  <2>1. c[0] = <<>> /\ Len(w[0]) + 1 = 1 /\ 1 \in 1 .. Len(rest) + 1
    BY <1>1, FramingTypes
  <2>2. Items(c[0]) = <<>>
    BY <2>1 DEF Items
  <2>3. from[1] \in Seq(Bytes)
    BY <2>1, FramingTypes
  <2>4. <<>> \o from[1] = from[1]
    BY <2>3, ConcatEmptySeq
  <2> QED BY <1>1, <2>1, <2>2, <2>4
<1>3. ASSUME NEW i \in 0 .. n, i < n, i \in T PROVE i + 1 \in T
  <2>1. i + 1 \in 0 .. n
    BY <1>1, <1>3
  <2>2. ASSUME Len(w[i + 1]) <= Len(rest) PROVE Out(i + 1)
    <3> DEFINE x == Items(c[i])
               y == Items(parts[i + 1])
               z == from[Len(w[i + 1]) + 1]
    <3>1. /\ x \in Seq(Bytes) /\ y \in Seq(Bytes) /\ Items(c[i + 1]) = x \o y
          /\ Len(parts[i + 1]) \in Nat /\ Len(w[i + 1]) = Len(w[i]) + Len(parts[i + 1]) + 2
      <4>1. Grows(parts, c, w, i)
        <5> HIDE DEF T, Out
        <5> QED BY <1>3, ContentStep
      <4> QED BY <4>1 DEF Grows
    <3>2. Len(w[i]) \in Nat /\ Len(w[i + 1]) \in Nat
      BY <2>1, FramingTypes
    <3>3. Len(w[i]) < Len(rest) /\ Len(w[i]) <= Len(rest)
          /\ Len(w[i + 1]) + 1 \in 1 .. Len(rest) + 1
      <4>1. \A a, b, l, r \in Nat :
              b = a + l + 2 /\ b <= r => a < r /\ a <= r /\ b + 1 \in 1 .. r + 1
        OBVIOUS
      <4> HIDE DEF T, Out, x, y
      <4> QED BY <4>1, <1>1, <2>2, <3>1, <3>2
    <3>4. z \in Seq(Bytes)
      BY <3>3, FramingTypes
    <3>5. from[Len(w[i]) + 1] = y \o z
      <4>1. ChunkOut(parts, w, rest, from, i)
        <5> HIDE DEF T, Out
        <5> QED BY <1>3, <3>3, OneChunk
      <4> QED BY <4>1, <2>2 DEF ChunkOut
    <3>6. from[1] = x \o from[Len(w[i]) + 1]
      BY <1>3, <3>3
    <3> HIDE DEF x, y, z
    <3>7. x \o (y \o z) = (x \o y) \o z
      <4>1. x \in Seq(Bytes) /\ y \in Seq(Bytes) /\ z \in Seq(Bytes)
        BY <3>1, <3>4
      <4>2. \A r, s, t \in Seq(Bytes) : r \o (s \o t) = (r \o s) \o t
        BY BytesConcat
      <4> QED BY <4>1, <4>2, Zenon
    <3> QED BY <3>1, <3>5, <3>6, <3>7 DEF z
  <2> HIDE DEF Out
  <2> QED BY <2>1, <2>2
<1> HIDE DEF T
<1>4. 0 .. n \subseteq T
  BY <1>1, <1>2, <1>3, UpTo
<1>5. last \in T
  BY <1>4
<1> QED BY <1>5 DEF T, OutAfter

LEMMA BeginsTransitive ==
  ASSUME NEW S, NEW s \in Seq(S), NEW t \in Seq(S), NEW u \in Seq(S),
         Begins(s, t), Begins(t, u)
  PROVE  Begins(s, u)
BY DEF Begins

LEMMA ItemsBegin ==
  ASSUME NEW x \in Seq(Nat), NEW y \in Seq(Nat), Begins(x, y)
  PROVE  Begins(Items(x), Items(y))
<1>1. /\ Len(Items(x)) = Len(x) /\ Len(Items(y)) = Len(y)
      /\ \A k \in 1 .. Len(x) : Items(x)[k] = Byte("item", x[k])
      /\ \A k \in 1 .. Len(y) : Items(y)[k] = Byte("item", y[k])
  BY ItemsConcat
<1>2. Len(x) <= Len(y) /\ Len(x) \in Nat /\ Len(y) \in Nat
  BY DEF Begins
<1>3. \A k \in 1 .. Len(x) : y[k] = x[k] /\ k \in 1 .. Len(y)
  BY <1>2 DEF Begins
<1> QED BY <1>1, <1>2, <1>3 DEF Begins

\* A piece that was cut off is a beginning of the whole.
LEMMA CutShort ==
  ASSUME NEW x \in Seq(Bytes), NEW y \in Seq(Bytes), NEW k \in 0 .. Len(y)
  PROVE  /\ x \o SubSeq(y, 1, k) \in Seq(Bytes)
         /\ Begins(x \o SubSeq(y, 1, k), x \o y)
<1> DEFINE z == SubSeq(y, 1, k)
<1>1. z \in Seq(Bytes) /\ Len(z) = k /\ \A j \in 1 .. k : z[j] = y[j]
  OBVIOUS
<1> HIDE DEF z
<1>2. /\ x \o z \in Seq(Bytes) /\ Len(x \o z) = Len(x) + k
      /\ \A j \in 1 .. Len(x) + k : (x \o z)[j] = IF j <= Len(x) THEN x[j] ELSE z[j - Len(x)]
  BY <1>1, ConcatProperties
<1>3. /\ Len(x \o y) = Len(x) + Len(y)
      /\ \A j \in 1 .. Len(x) + Len(y) :
           (x \o y)[j] = IF j <= Len(x) THEN x[j] ELSE y[j - Len(x)]
  BY ConcatProperties
<1>4. Len(x) \in Nat /\ Len(y) \in Nat
  OBVIOUS
<1>5. ASSUME NEW j \in 1 .. Len(x) + k PROVE (x \o y)[j] = (x \o z)[j]
  <2>1. j \in 1 .. Len(x) + Len(y) /\ (j <= Len(x) \/ j - Len(x) \in 1 .. k)
    BY <1>4
  <2> QED BY <2>1, <1>1, <1>2, <1>3
<1>6. Len(x \o z) <= Len(x \o y)
  BY <1>2, <1>3, <1>4
<1>7. Begins(x \o z, x \o y)
  BY <1>2, <1>5, <1>6 DEF Begins
<1> QED BY <1>2, <1>7 DEF z

\* All the content up to a chunk is the beginning of all the content.
LEMMA ContentBegins ==
  ASSUME NEW parts, NEW n, NEW c, NEW w, NEW rest, NEW from,
         Framing(parts, n, c, w, rest, from), NEW i \in 0 .. n
  PROVE  /\ Items(c[i]) \in Seq(Bytes) /\ Items(c[n]) \in Seq(Bytes)
         /\ Begins(Items(c[i]), Items(c[n]))
<1>1. /\ parts \in Seq(Seq(Nat) \ {<<>>}) /\ n = Len(parts) /\ Flattens(c, parts, n, Nat)
  BY DEF Framing
<1>2. n \in Nat /\ n \in 0 .. n /\ c[i] \in Seq(Nat) /\ c[n] \in Seq(Nat)
  <2>1. n \in Nat /\ \A k \in 0 .. n : c[k] \in Seq(Nat)
    BY FramingTypes
  <2> QED BY <2>1
<1>3. \A k \in 1 .. n : parts[k] \in Seq(Nat)
  BY <1>1
<1>4. Begins(c[i], c[n])
  <2>1. Flattens(c, parts, n, Nat)
    BY <1>1
  <2> QED BY <2>1, <1>2, <1>3, FlattenPrefix
<1> QED BY <1>2, <1>4, ItemsBegin, ItemsConcat

\* Past what has arrived, and at a line that ends the body, the loop adds nothing.
LEMMA LoopEnds ==
  ASSUME NEW rest \in Seq(Bytes), NEW from, Decodes(from, rest, 1),
         NEW i \in 1 .. Len(rest) + 1,
         i <= Len(rest) => rest[i].is # "size" \/ rest[i].n = 0
  PROVE  from[i] = <<>>
<1>1. from[i] = AtLine(from, rest, i)
  BY DEF Decodes
<1>2. i > Len(rest) \/ rest[i].is # "size" \/ rest[i].n = 0
  OBVIOUS
<1> QED BY <1>1, <1>2 DEF AtLine

\* Of the chunks, the last one that has arrived whole decides what the loop gives:
\* what arrived of the next one comes after it, or the line that ends the body.
LEMMA LoopFaithful ==
  ASSUME NEW parts, NEW n, NEW c, NEW w, NEW rest, NEW from,
         Framing(parts, n, c, w, rest, from),
         Len(rest) = Len(w[n]) + 1 =>
           rest[Len(rest)].is # "size" \/ rest[Len(rest)].n = 0
  PROVE  /\ IsPrefix(from[1], Items(c[n]))
         /\ Len(rest) = Len(w[n]) + 1 => from[1] = Items(c[n])
<1> DEFINE L == Len(rest)
           T == {i \in 0 .. n : Len(w[i]) <= L}
<1>1. /\ n \in Nat /\ 0 \in 0 .. n /\ n \in 0 .. n /\ L \in Nat /\ L <= Len(w[n]) + 1
      /\ Len(w[0]) = 0 /\ rest \in Seq(Bytes)
  BY FramingTypes
<1>2. \A i \in 0 .. n : Len(w[i]) \in Nat
  BY FramingTypes
<1>3. PICK i \in T : \A j \in T : j <= i
  <2>1. T \in SUBSET Nat /\ 0 \in T /\ \A y \in T : y <= n
    BY <1>1
  <2> HIDE DEF T
  <2> QED BY <1>1, <2>1, LargestOf
<1>4. i \in 0 .. n /\ Len(w[i]) <= L /\ Len(w[i]) \in Nat /\ Len(w[n]) \in Nat
  BY <1>1, <1>2, <1>3
<1>5. from[1] = Items(c[i]) \o from[Len(w[i]) + 1]
  <2>1. i \in 0 .. n /\ Len(w[i]) <= Len(rest)
    BY <1>4
  <2>2. OutAfter(c, w, from, i)
    <3> HIDE DEF T, L
    <3> QED BY <2>1, ChunksRead
  <2> QED BY <2>2 DEF OutAfter
<1>6. /\ Items(c[i]) \in Seq(Bytes) /\ Items(c[n]) \in Seq(Bytes)
      /\ Begins(Items(c[i]), Items(c[n]))
  BY <1>4, ContentBegins
<1>7. ASSUME from[Len(w[i]) + 1] = <<>> PROVE from[1] = Items(c[i])
  BY <1>5, <1>6, <1>7, ConcatEmptySeq
<1>8. ASSUME NEW s \in Seq(Bytes), from[1] = s, Begins(s, Items(c[n]))
      PROVE  IsPrefix(from[1], Items(c[n]))
  <2>1. Len(s) <= Len(Items(c[n])) /\ \A k \in 1 .. Len(s) : s[k] = Items(c[n])[k]
    BY <1>8 DEF Begins
  <2>2. IsPrefix(s, Items(c[n]))
    BY <2>1, <1>6, PrefixPointwise
  <2> QED BY <2>2, <1>8
<1>9. Decodes(from, rest, 1)
  BY DEF Framing
<1>10. CASE i = n
  <2>1. /\ Len(w[i]) + 1 \in 1 .. Len(rest) + 1
        /\ Len(w[i]) + 1 <= Len(rest) => Len(rest) = Len(w[n]) + 1 /\ Len(w[i]) + 1 = Len(rest)
    BY <1>1, <1>4, <1>10
  <2>2. Len(w[i]) + 1 <= Len(rest) =>
          rest[Len(w[i]) + 1].is # "size" \/ rest[Len(w[i]) + 1].n = 0
    BY <2>1
  <2>3. from[Len(w[i]) + 1] = <<>>
    BY <2>1, <2>2, <1>1, <1>9, LoopEnds
  <2>4. from[1] = Items(c[n])
    BY <2>3, <1>7, <1>10
  <2>5. IsPrefix(from[1], Items(c[n]))
    BY <2>4, <1>6, <1>8, <1>10
  <2> QED BY <2>4, <2>5
<1>11. CASE i # n
  <2>1. i < n /\ i + 1 \in 0 .. n /\ ~(i + 1 <= i)
    BY <1>1, <1>4, <1>11
  <2>2. Len(w[i + 1]) \in Nat /\ Len(w[i + 1]) > L
    <3>1. i + 1 \notin T
      BY <1>3, <2>1
    <3>2. Len(w[i + 1]) \in Nat
      BY <2>1, <1>2
    <3> QED BY <3>1, <3>2, <2>1, <1>1
  <2>3. Len(w[i + 1]) <= Len(w[n])
    <3>1. /\ parts \in Seq(Seq(Nat) \ {<<>>}) /\ n = Len(parts)
          /\ Flattens(w, FramedParts(parts), Len(parts), Bytes)
      BY DEF Framing
    <3> QED BY <3>1, <2>1, <1>4, Layout
  <2>4. L # Len(w[n]) + 1
    BY <2>2, <2>3, <1>1, <1>4
  <2>5. Grows(parts, c, w, i)
    BY <2>1, <1>4, ContentStep
  <2>6. /\ Items(parts[i + 1]) \in Seq(Bytes)
        /\ Len(Items(parts[i + 1])) = Len(parts[i + 1]) /\ Len(parts[i + 1]) \in Nat
        /\ Items(c[i + 1]) = Items(c[i]) \o Items(parts[i + 1])
        /\ Len(w[i + 1]) = Len(w[i]) + Len(parts[i + 1]) + 2
    BY <2>5 DEF Grows
  <2>7. CASE Len(w[i]) = L
    <3>1. Len(w[i]) + 1 \in 1 .. Len(rest) + 1 /\ ~(Len(w[i]) + 1 <= Len(rest))
      BY <2>7, <1>1
    <3>2. from[Len(w[i]) + 1] = <<>>
      BY <3>1, <1>1, <1>9, LoopEnds
    <3>3. IsPrefix(from[1], Items(c[n]))
      BY <3>2, <1>6, <1>7, <1>8
    <3> QED BY <3>3, <2>4
  <2>8. CASE Len(w[i]) < L
    <3> DEFINE x == Items(c[i])
               y == Items(parts[i + 1])
               k == L - (Len(w[i]) + 1)
    <3>1. ChunkOut(parts, w, rest, from, i)
      BY <2>1, <2>8, <1>4, OneChunk
    <3>2. from[Len(w[i]) + 1] = SubSeq(y, 1, k)
      <4>1. ~(Len(w[i + 1]) <= Len(rest))
        BY <2>2, <1>1
      <4> QED BY <3>1, <4>1 DEF ChunkOut
    <3>3. k \in 0 .. Len(y)
      <4>1. \A a, l, r, b \in Nat :
              b = a + l + 2 /\ b > r /\ a < r => r - (a + 1) \in 0 .. l
        OBVIOUS
      <4>2. /\ Len(w[i]) \in Nat /\ Len(parts[i + 1]) \in Nat
            /\ Len(w[i + 1]) \in Nat /\ L \in Nat
        BY <2>2, <2>6, <1>1, <1>4
      <4> HIDE DEF x, T, L
      <4>3. L - (Len(w[i]) + 1) \in 0 .. Len(parts[i + 1])
        BY <4>1, <4>2, <2>2, <2>6, <2>8
      <4> QED BY <4>3, <2>6
    <3>4. from[1] = x \o SubSeq(y, 1, k) /\ x \o y = Items(c[i + 1])
      BY <3>2, <2>6, <1>5
    <3>5. x \in Seq(Bytes) /\ y \in Seq(Bytes)
      BY <2>6, <1>6
    <3> HIDE DEF x, y, k
    <3>6. /\ x \o SubSeq(y, 1, k) \in Seq(Bytes)
          /\ Begins(x \o SubSeq(y, 1, k), Items(c[i + 1]))
      BY <3>3, <3>4, <3>5, CutShort
    <3>7. Items(c[i + 1]) \in Seq(Bytes) /\ Begins(Items(c[i + 1]), Items(c[n]))
      BY <2>1, ContentBegins
    <3>8. Begins(x \o SubSeq(y, 1, k), Items(c[n]))
      BY <3>6, <3>7, <1>6, BeginsTransitive
    <3>9. IsPrefix(from[1], Items(c[n]))
      BY <3>4, <3>6, <3>8, <1>8
    <3> QED BY <3>9, <2>4
  <2> QED BY <2>7, <2>8, <1>1, <1>4
<1> QED BY <1>10, <1>11

-----------------------------------------------------------------------------
(***************************************************************************)
(* The whole answer, its head first.                                       *)
(***************************************************************************)

\* The first n of a sequence.
LEMMA FirstOf ==
  ASSUME NEW S, NEW s \in Seq(S), NEW n \in Nat
  PROVE  /\ First(n, s) \in Seq(S) /\ Len(First(n, s)) = Least(n, Len(s))
         /\ \A k \in 1 .. Len(First(n, s)) : First(n, s)[k] = s[k]
         /\ Begins(First(n, s), s)
         /\ n >= Len(s) => First(n, s) = s
<1>1. Least(n, Len(s)) \in 0 .. Len(s) /\ Len(s) \in Nat
  BY DEF Least
<1>2. /\ First(n, s) \in Seq(S) /\ Len(First(n, s)) = Least(n, Len(s))
      /\ \A k \in 1 .. Len(First(n, s)) : First(n, s)[k] = s[k]
  BY <1>1 DEF First
<1>3. Begins(First(n, s), s)
  BY <1>1, <1>2 DEF Begins
<1>4. n >= Len(s) => First(n, s) = s
  <2>1. SUFFICES ASSUME n >= Len(s) PROVE First(n, s) = s
    OBVIOUS
  <2>2. Len(First(n, s)) = Len(s)
    BY <1>1, <1>2, <2>1 DEF Least
  <2> QED BY <1>2, <2>2, SeqEqual
<1> QED BY <1>2, <1>3, <1>4

\* The head is one byte here, and the body follows.
Headed(wire, body) == body \in Seq(Bytes) /\ wire = <<Byte("head", 0)>> \o body

LEMMA BehindHead ==
  ASSUME NEW wire, NEW body, Headed(wire, body), NEW g \in Nat, First(g, wire) # <<>>
  PROVE  /\ g > 0 /\ Tail(First(g, wire)) = First(g - 1, body)
         /\ Len(wire) = Len(body) + 1
<1> DEFINE x == Byte("head", 0)
           v == <<x>> \o body
           raw == First(g, v)
<1>0. wire = v /\ raw # <<>> /\ body \in Seq(Bytes) /\ x \in Bytes
  BY DEF Headed, Byte, Bytes
<1> HIDE DEF x
<1>1. /\ v \in Seq(Bytes) /\ Len(v) = Len(body) + 1 /\ Len(body) \in Nat
      /\ \A k \in 1 .. Len(body) : v[k + 1] = body[k]
  <2>1. <<x>> \in Seq(Bytes) /\ Len(<<x>>) = 1
    BY <1>0
  <2> QED BY <2>1, <1>0
<1> HIDE DEF v
<1>2. /\ raw \in Seq(Bytes) /\ Len(raw) = Least(g, Len(v))
      /\ \A k \in 1 .. Len(raw) : raw[k] = v[k]
  BY <1>1, FirstOf
<1> HIDE DEF raw
<1>3. g > 0 /\ Tail(raw) = First(g - 1, body)
  <2>1. Len(raw) > 0 /\ g > 0
    BY <1>0, <1>1, <1>2 DEF Least
  <2>2. /\ Tail(raw) \in Seq(Bytes) /\ Len(Tail(raw)) = Len(raw) - 1
        /\ \A k \in 1 .. Len(raw) - 1 : Tail(raw)[k] = raw[k + 1]
    BY <1>2, <2>1
  <2>3. /\ First(g - 1, body) \in Seq(Bytes)
        /\ Len(First(g - 1, body)) = Least(g - 1, Len(body))
        /\ \A k \in 1 .. Len(First(g - 1, body)) : First(g - 1, body)[k] = body[k]
    <3>1. g - 1 \in Nat
      BY <2>1
    <3> QED BY <3>1, <1>0, FirstOf
  <2>4. Len(raw) - 1 = Least(g - 1, Len(body)) /\ Len(raw) - 1 <= Len(body)
        /\ Len(raw) \in Nat
    BY <1>1, <1>2, <2>1 DEF Least
  <2>5. ASSUME NEW k \in 1 .. Len(raw) - 1 PROVE Tail(raw)[k] = First(g - 1, body)[k]
    <3>1. k \in 1 .. Len(body) /\ k + 1 \in 1 .. Len(raw)
      BY <1>1, <2>4
    <3>2. Tail(raw)[k] = raw[k + 1] /\ raw[k + 1] = v[k + 1] /\ v[k + 1] = body[k]
      BY <3>1, <1>1, <1>2, <2>2
    <3>3. First(g - 1, body)[k] = body[k]
      BY <2>3, <2>4
    <3> QED BY <3>2, <3>3
  <2>6. Tail(raw) = First(g - 1, body)
    BY <2>2, <2>3, <2>4, <2>5, SeqEqual
  <2> QED BY <2>1, <2>6
<1> QED BY <1>0, <1>1, <1>3 DEF raw

\* The loop over as much as has arrived of a chunked body.
LEMMA DechunkFaithful ==
  ASSUME NEW parts \in Seq(Seq(Nat) \ {<<>>}), NEW last \in Bytes,
         last.is # "size" \/ last.n = 0, NEW m \in Nat
  PROVE  LET body == FlattenSeq(FramedParts(parts)) \o <<last>>
             all  == Items(FlattenSeq(parts))
         IN  /\ body \in Seq(Bytes)
             /\ IsPrefix(dechunk(First(m, body)), all)
             /\ m = Len(body) => dechunk(First(m, body)) = all
<1> DEFINE n == Len(parts)
           ss == FramedParts(parts)
<1>1. n \in Nat /\ parts \in Seq(Seq(Nat)) /\ DOMAIN parts = 1 .. n
  OBVIOUS
<1>2. ss \in Seq(Seq(Bytes)) /\ Len(ss) = n
  <2>1. ss = [k \in 1 .. n |-> Framed(parts[k])]
    BY <1>1 DEF FramedParts
  <2>2. \A k \in 1 .. n : Framed(parts[k]) \in Seq(Bytes)
    BY <1>1, FramedLayout
  <2> HIDE DEF n, ss
  <2>3. ss \in Seq(Seq(Bytes))
    BY <2>1, <2>2, <1>1, IsASeq
  <2>4. Len(ss) = n
    BY <2>1, <1>1
  <2> QED BY <2>3, <2>4
<1>3. PICK c : Flattens(c, parts, n, Nat)
  BY <1>1, FlattenExists
<1>4. FlattenSeq(parts) = c[n]
  BY <1>1, <1>3, FlattenUnfolds
<1> HIDE DEF n, ss
<1>5. PICK w : Flattens(w, ss, n, Bytes)
  <2>1. \E f : Flattens(f, ss, Len(ss), Bytes)
    BY <1>2, FlattenExists
  <2> QED BY <2>1, <1>2
<1>6. FlattenSeq(ss) = w[n]
  <2>1. Flattens(w, ss, Len(ss), Bytes)
    BY <1>2, <1>5
  <2>2. FlattenSeq(ss) = w[Len(ss)]
    BY <2>1, <1>2, FlattenUnfolds
  <2> QED BY <2>2, <1>2
<1>7. w[n] \in Seq(Bytes) /\ Len(w[n]) \in Nat
  <2>1. w[n] \in Seq(Bytes)
    BY <1>1, <1>5 DEF Flattens
  <2> QED BY <2>1
<1> DEFINE body == w[n] \o <<last>>
           rest == First(m, body)
<1>8. /\ body \in Seq(Bytes) /\ Len(body) = Len(w[n]) + 1
      /\ \A k \in 1 .. Len(w[n]) : body[k] = w[n][k]
      /\ body[Len(w[n]) + 1] = last
  <2>1. <<last>> \in Seq(Bytes) /\ Len(<<last>>) = 1 /\ <<last>>[1] = last
    OBVIOUS
  <2> QED BY <2>1, <1>7
<1> HIDE DEF body
<1>9. /\ rest \in Seq(Bytes) /\ Len(rest) = Least(m, Len(body))
      /\ \A k \in 1 .. Len(rest) : rest[k] = body[k]
  BY <1>8, FirstOf
<1> HIDE DEF rest
<1>10. Len(rest) \in Nat /\ Len(rest) <= Len(w[n]) + 1
       /\ (m = Len(body) => Len(rest) = Len(w[n]) + 1)
  BY <1>7, <1>8, <1>9 DEF Least
<1>11. Arrived(rest, w[n])
  <2>1. \A k \in 1 .. Len(rest) : k <= Len(w[n]) => k \in 1 .. Len(w[n])
    BY <1>7, <1>10
  <2> QED BY <2>1, <1>8, <1>9, <1>10 DEF Arrived
<1>12. Len(rest) = Len(w[n]) + 1 => rest[Len(rest)].is # "size" \/ rest[Len(rest)].n = 0
  <2>1. ASSUME Len(rest) = Len(w[n]) + 1 PROVE rest[Len(rest)] = last
    <3>1. Len(rest) \in 1 .. Len(rest)
      BY <2>1, <1>7, <1>10
    <3>2. rest[Len(rest)] = body[Len(rest)]
      BY <3>1, <1>9
    <3> QED BY <3>2, <2>1, <1>8
  <2> QED BY <2>1
<1>13. PICK from : Decodes(from, rest, 1) /\ dechunk(rest) = from[1]
  BY <1>9, DechunkUnfolds
<1>14. Framing(parts, n, c, w, rest, from)
  BY <1>3, <1>5, <1>11, <1>13 DEF Framing, n, ss
<1>15. /\ IsPrefix(from[1], Items(c[n]))
       /\ Len(rest) = Len(w[n]) + 1 => from[1] = Items(c[n])
  <2>1. Framing(parts, n, c, w, rest, from)
    BY <1>14
  <2> QED BY <2>1, <1>12, LoopFaithful
<1>16. FlattenSeq(FramedParts(parts)) \o <<last>> = body
  BY <1>6 DEF body, ss
<1> QED BY <1>4, <1>8, <1>10, <1>13, <1>15, <1>16 DEF rest

\* What parse_response makes of the bytes that arrived.
LEMMA ParseFaithful ==
  ASSUME HttpAssumption, NEW r \in Responses, NEW g \in Nat,
         parse_response(First(g, Wire(r)), r) # Malformed
  PROVE  LET whole == IF r.chunked THEN Content(r) ELSE First(r.length, Content(r))
             read  == parse_response(First(g, Wire(r)), r)
         IN  IsPrefix(read, whole) /\ (g = Len(Wire(r)) => read = whole)
<1> DEFINE parts == r.parts
           last == Byte(IF r.whole THEN "size" ELSE "garbled", 0)
           raw == First(g, Wire(r))
           all == Items(FlattenSeq(parts))
<1>1. /\ r \in [chunked : BOOLEAN, length : Nat,
                parts : Seq(Seq(Nat) \ {<<>>}), whole : BOOLEAN]
  BY DEF HttpAssumption
<1>2. parts \in Seq(Seq(Nat) \ {<<>>}) /\ r.length \in Nat /\ r.chunked \in BOOLEAN
  BY <1>1
<1>3. last \in Bytes /\ (last.is # "size" \/ last.n = 0) /\ Byte("head", 0) \in Bytes
  BY DEF Byte, Bytes
<1>4. raw # <<>>
  BY DEF parse_response
<1>5. Content(r) = all
  BY DEF Content
<1> HIDE DEF parts, last
<1>6. all \in Seq(Bytes)
  <2>1. parts \in Seq(Seq(Nat))
    BY <1>2
  <2>2. PICK c : Flattens(c, parts, Len(parts), Nat)
    BY <2>1, FlattenExists
  <2>3. FlattenSeq(parts) = c[Len(parts)]
    BY <2>1, <2>2, FlattenUnfolds
  <2>4. Len(parts) \in Nat /\ Len(parts) \in 0 .. Len(parts)
    BY <2>1
  <2>5. c[Len(parts)] \in Seq(Nat)
    BY <2>2, <2>4 DEF Flattens
  <2> QED BY <2>3, <2>5, ItemsConcat
<1> HIDE DEF all
<1>7. CASE r.chunked
  <2> DEFINE body == FlattenSeq(FramedParts(parts)) \o <<last>>
  <2>1. /\ body \in Seq(Bytes)
        /\ \A m \in Nat : /\ IsPrefix(dechunk(First(m, body)), all)
                          /\ m = Len(body) => dechunk(First(m, body)) = all
    BY <1>2, <1>3, DechunkFaithful DEF all
  <2>2. Wire(r) = <<Byte("head", 0)>> \o body
    BY <1>7 DEF Wire, FramedParts, parts, last
  <2> HIDE DEF body
  <2>3. g > 0 /\ Tail(raw) = First(g - 1, body) /\ Len(Wire(r)) = Len(body) + 1
    <3>1. First(g, Wire(r)) # <<>>
      BY <1>4
    <3>2. Headed(Wire(r), body)
      BY <2>1, <2>2 DEF Headed
    <3> HIDE DEF raw
    <3> QED BY <3>1, <3>2, BehindHead DEF raw
  <2>4. parse_response(raw, r) = dechunk(First(g - 1, body))
    BY <1>4, <1>7, <2>3 DEF parse_response
  <2>5. g - 1 \in Nat /\ (g = Len(Wire(r)) => g - 1 = Len(body))
    BY <2>1, <2>3
  <2> QED BY <1>5, <1>7, <2>1, <2>4, <2>5
<1>8. CASE ~r.chunked
  <2>2. Wire(r) = <<Byte("head", 0)>> \o all
    BY <1>5, <1>8 DEF Wire
  <2>3. g > 0 /\ Tail(raw) = First(g - 1, all) /\ Len(Wire(r)) = Len(all) + 1
    <3>1. First(g, Wire(r)) # <<>>
      BY <1>4
    <3>2. Headed(Wire(r), all)
      BY <1>6, <2>2 DEF Headed
    <3> HIDE DEF raw
    <3> QED BY <3>1, <3>2, BehindHead DEF raw
  <2>4. parse_response(raw, r) = First(r.length, First(g - 1, all))
    BY <1>4, <1>8, <2>3 DEF parse_response
  <2> DEFINE s == First(g - 1, all)
             t == First(r.length, s)
             u == First(r.length, all)
  <2>5. /\ g - 1 \in Nat /\ Len(all) \in Nat
        /\ (g = Len(Wire(r)) => g - 1 >= Len(all))
    BY <1>6, <2>3
  <2>6. /\ s \in Seq(Bytes) /\ Len(s) = Least(g - 1, Len(all))
        /\ \A k \in 1 .. Len(s) : s[k] = all[k]
        /\ g - 1 >= Len(all) => s = all
    BY <1>6, <2>5, FirstOf
  <2>7. /\ u \in Seq(Bytes) /\ Len(u) = Least(r.length, Len(all))
        /\ \A k \in 1 .. Len(u) : u[k] = all[k]
    BY <1>2, <1>6, FirstOf
  <2> HIDE DEF s, u
  <2>8. /\ t \in Seq(Bytes) /\ Len(t) = Least(r.length, Len(s))
        /\ \A k \in 1 .. Len(t) : t[k] = s[k]
    BY <1>2, <2>6, FirstOf
  <2> HIDE DEF t
  <2>9. Len(t) <= Len(u) /\ Len(t) <= Len(s) /\ Len(t) \in Nat
    <3>1. \A a, b, c \in Nat : /\ Least(a, Least(b, c)) <= Least(a, c)
                              /\ Least(a, Least(b, c)) <= Least(b, c)
                              /\ Least(b, c) \in Nat /\ Least(a, Least(b, c)) \in Nat
      BY DEF Least
    <3>2. r.length \in Nat /\ g - 1 \in Nat /\ Len(all) \in Nat
      BY <1>2, <2>5
    <3>3. /\ Len(s) = Least(g - 1, Len(all)) /\ Len(u) = Least(r.length, Len(all))
          /\ Len(t) = Least(r.length, Len(s))
      BY <2>6, <2>7, <2>8
    <3> HIDE DEF all, Least
    <3>4. LET least == Least(r.length, Least(g - 1, Len(all))) IN
            /\ least <= Least(r.length, Len(all)) /\ least <= Least(g - 1, Len(all))
            /\ least \in Nat
      BY <3>1, <3>2
    <3> QED BY <3>3, <3>4
  <2>10. \A k \in 1 .. Len(t) : t[k] = u[k]
    <3> HIDE DEF all
    <3>1. \A a, b, c \in Nat : a <= b /\ a <= c =>
             \A k \in 1 .. a : k \in 1 .. b /\ k \in 1 .. c
      OBVIOUS
    <3>2. Len(t) \in Nat /\ Len(s) \in Nat /\ Len(u) \in Nat
      BY <2>6, <2>7, <2>8
    <3>3. \A k \in 1 .. Len(t) : k \in 1 .. Len(s) /\ k \in 1 .. Len(u)
      BY <3>1, <3>2, <2>9, Zenon
    <3> QED BY <3>3, <2>6, <2>7, <2>8
  <2>11. IsPrefix(t, u)
    BY <2>7, <2>8, <2>9, <2>10, PrefixPointwise
  <2>12. g = Len(Wire(r)) => t = u
    BY <2>5, <2>6 DEF t, u
  <2>13. parse_response(raw, r) = t
    BY <2>4 DEF t, s
  <2> QED BY <1>5, <1>8, <2>11, <2>12, <2>13 DEF u
<1> QED BY <1>2, <1>7, <1>8

\* What the caller has was made of the bytes that had arrived.
ReturnsWhatWasRead == step = "returned" => result = Handed \/ result = "error"

LEMMA ReturnKept ==
  ASSUME HttpAssumption, RequestTypeOK, ReturnsWhatWasRead, [RequestNext]_requestVars
  PROVE  ReturnsWhatWasRead'
<1>1. UNCHANGED inputs
  BY RequestTyped
<1>2. ASSUME UNCHANGED got PROVE Handed' = Handed
  BY <1>1, <1>2 DEF Handed, Raw, inputs
<1>3. CASE step' # "returned"
  BY <1>3 DEF ReturnsWhatWasRead
<1>4. CASE result' = "error"
  BY <1>4 DEF ReturnsWhatWasRead
<1>5. CASE UNCHANGED <<step, result, got>>
  BY <1>5, <1>2 DEF ReturnsWhatWasRead
<1>6. CASE ReadEnds
  BY <1>6, <1>2 DEF ReadEnds, Return, ReturnsWhatWasRead
<1>7. RequestNext => step' # "returned" \/ result' = "error"
                     \/ UNCHANGED <<step, result, got>> \/ ReadEnds
  BY DEF RequestNext, Literal, Spawn, Resolved, Abandon, LateAnswer, Connect,
         NoAddress, Handshake, Write, RecordRead, Read, Reading, Return
<1>8. UNCHANGED requestVars => UNCHANGED <<step, result, got>>
  BY DEF requestVars
<1> QED BY <1>3, <1>4, <1>5, <1>6, <1>7, <1>8

\* net.rs get, parse_response and dechunk: what a caller gets is the content as far
\* as it arrived, in order and without framing, and all of it if all arrived, for
\* every content, however the server cuts it up and wherever the connection ends.
THEOREM BodiesFaithful == RequestSpec => []BodyFaithful
<1>1. RequestInit => RequestTypeOK /\ ReturnsWhatWasRead
  BY HttpAssumption, RequestStarts DEF RequestInit, RequestIInv, ReturnsWhatWasRead
<1>2. RequestTypeOK /\ ReturnsWhatWasRead /\ [RequestNext]_requestVars
        => RequestTypeOK' /\ ReturnsWhatWasRead'
  BY HttpAssumption, RequestTyped, ReturnKept
<1>3. RequestTypeOK /\ ReturnsWhatWasRead => BodyFaithful
  <2> SUFFICES ASSUME RequestTypeOK, ReturnsWhatWasRead, step = "returned",
                      call.method = "GET", result # "error"
               PROVE  /\ IsPrefix(result, Announced)
                      /\ got = Len(Wire(response)) => result = Announced
    BY DEF BodyFaithful
  <2> DEFINE read == parse_response(First(got, Wire(response)), response)
  <2>1. result = read /\ read # Malformed
    BY DEF ReturnsWhatWasRead, Handed, Raw
  <2>2. response \in Responses /\ got \in Nat
    BY DEF RequestTypeOK
  <2>3. IsPrefix(read, Announced) /\ (got = Len(Wire(response)) => read = Announced)
    BY <2>1, <2>2, HttpAssumption, ParseFaithful DEF Announced
  <2> QED BY <2>1, <2>3
<1> QED BY <1>1, <1>2, <1>3, PTL DEF RequestSpec
=============================================================================
