----------------------------- MODULE Preferences -----------------------------
(***************************************************************************)
(* The install-wide preferences (config.rs): one file, a copy of it cached *)
(* in every process from its first read to its end, and a save that writes *)
(* the whole copy to one temporary name and renames it.  The config lock   *)
(* is held from a mutation to the end of its save, so in one process these *)
(* do not overlap; between processes nothing is locked.                    *)
(***************************************************************************)
EXTENDS Naturals

CONSTANTS
  Processes,     \* hosts that load the plugin
  MaxVersion,    \* versions are 1 .. MaxVersion; 0 stands for none
  NoFile, Half   \* a file that is not there; one that does not parse

ASSUME PreferencesAssumption == MaxVersion \in Nat \ {0} /\ NoFile # Half

Answers  == {"unasked", "granted", "declined"}
Versions == 0 .. MaxVersion

Config == [analytics : Answers, device_id : BOOLEAN, updates : Answers,
           last_check : {"never", "ok", "failed"}, latest_seen : Versions,
           skipped : Versions, last_version : Versions]

Default == [analytics |-> "unasked", device_id |-> FALSE, updates |-> "unasked",
            last_check |-> "never", latest_seen |-> 0, skipped |-> 0, last_version |-> 0]

ASSUME FilesAssumption == {NoFile, Half} \cap Config = {}

VARIABLES
  running,      \* processes that are up
  cache,        \* config(): each running process's copy
  file, tmp,    \* analytics.json and analytics.json.tmp
  saving,       \* per process: how far its save has got
  said          \* history: the last analytics answer the user gave anywhere

prefVars == <<running, cache, file, tmp, saving, said>>

Saving == {"no", "open", "orphan", "full"}

PrefTypeOK ==
  /\ running \subseteq Processes
  /\ cache \in [Processes -> Config]
  /\ file \in Config \cup {NoFile, Half} /\ tmp \in Config \cup {NoFile, Half}
  /\ saving \in [Processes -> Saving]
  /\ said \in Answers

\* No process is up, and the last save is over.
PrefOpen ==
  /\ running = {} /\ cache = [p \in Processes |-> Default]
  /\ tmp = NoFile /\ saving = [p \in Processes |-> "no"]

PrefInit == PrefOpen /\ file = NoFile /\ said = "unasked"

-----------------------------------------------------------------------------
(***************************************************************************)
(* What the operations read and write.  The time since the last check is   *)
(* an input: the clock went back, or 6 hours, a day, or neither have gone. *)
(***************************************************************************)
load_from(f) == IF f \in {NoFile, Half} THEN Default ELSE f

enabled(c)       == c.analytics = "granted"
needs_prompt(c)  == c.analytics = "unasked" \/ c.updates = "unasked"

Elapsed == {"backwards", "short", "retry", "day"}
should_check(c, elapsed) ==
  \/ c.last_check = "never"
  \/ elapsed \in {"backwards", "day"}
  \/ elapsed = "retry" /\ c.last_check = "failed"

\* Mutant: a decline that keeps the identifier for the next grant.
MutSetAnalytics(c, granted) ==
  [c EXCEPT !.analytics = IF granted THEN "granted" ELSE "declined", !.device_id = @ \/ granted]

set_analytics_consent(c, granted) ==
  [c EXCEPT !.analytics = IF granted THEN "granted" ELSE "declined", !.device_id = granted]

set_update_consent(c, granted) ==
  [c EXCEPT !.updates = IF granted THEN "granted" ELSE "declined"]

\* latest = 0: the fetch failed.
record_update_check(c, latest) ==
  [c EXCEPT !.last_check = IF latest = 0 THEN "failed" ELSE "ok",
            !.latest_seen = IF latest = 0 THEN @ ELSE latest]

set_update_skipped(c, version) == [c EXCEPT !.skipped = version]

pending_upgrade_from(c, version) == IF c.last_version = version THEN 0 ELSE c.last_version

apply_running_version(c, version) == [c EXCEPT !.last_version = version]

-----------------------------------------------------------------------------
\* The config lock of a running process is free.
Unlocked(p) == p \in running /\ saving[p] = "no"

\* The cache is filled once per process, at its first read.
Launch(p) ==
  /\ p \notin running
  /\ running' = running \cup {p}
  /\ cache' = [cache EXCEPT ![p] = load_from(file)]
  /\ UNCHANGED <<file, tmp, saving, said>>

\* mutate(): the copy changes and save_to opens, and empties, the temporary file.
Mutate(p, c) ==
  /\ Unlocked(p)
  /\ cache' = [cache EXCEPT ![p] = c]
  /\ saving' = [saving EXCEPT ![p] = "open"] /\ tmp' = Half
  /\ UNCHANGED <<running, file>>

(***************************************************************************)
(* The write lands in the temporary file, or in the preferences file when  *)
(* another process renamed it meanwhile.  Over another process's text it   *)
(* may leave that text's tail.                                             *)
(***************************************************************************)
Outcomes(p, there) == IF there = Half THEN {cache[p]} ELSE {cache[p], Half}

WriteTmp(p) ==
  /\ \/ /\ saving[p] = "open" /\ tmp' \in Outcomes(p, tmp)
        /\ UNCHANGED file
     \/ /\ saving[p] = "orphan" /\ file' \in Outcomes(p, file)
        /\ UNCHANGED tmp
  /\ saving' = [saving EXCEPT ![p] = "full"]
  /\ UNCHANGED <<running, cache, said>>

\* A rename that finds no temporary file fails, and is only logged.
Rename(p) ==
  /\ saving[p] = "full"
  /\ IF tmp = NoFile THEN UNCHANGED <<file, tmp>> ELSE file' = tmp /\ tmp' = NoFile
  /\ saving' = [q \in Processes |->
       CASE q = p -> "no"
         [] q # p /\ saving[q] = "open" /\ tmp # NoFile -> "orphan"
         [] OTHER -> saving[q]]
  /\ UNCHANGED <<running, cache, said>>

SaveStep(p) == WriteTmp(p) \/ Rename(p)

\* The process ends, or is killed in the middle of a save and its answer with it.
Stop(p) ==
  /\ p \in running
  /\ running' = running \ {p} /\ cache' = [cache EXCEPT ![p] = Default]
  /\ saving' = [saving EXCEPT ![p] = "no"]
  /\ said' = IF saving[p] = "no" THEN said ELSE "unasked"
  /\ UNCHANGED <<file, tmp>>

Answer(p, granted) ==
  /\ Mutate(p, set_analytics_consent(cache[p], granted))
  /\ said' = IF granted THEN "granted" ELSE "declined"

AnswerUpdates(p, granted) == Mutate(p, set_update_consent(cache[p], granted)) /\ UNCHANGED said

\* Only a release that is on offer can be skipped.
Skip(p) ==
  /\ cache[p].latest_seen # 0
  /\ Mutate(p, set_update_skipped(cache[p], cache[p].latest_seen)) /\ UNCHANGED said

RecordCheck(p, latest) == Mutate(p, record_update_check(cache[p], latest)) /\ UNCHANGED said

\* Saves only when the version changed.
CommitVersion(p, version) ==
  IF cache[p].last_version = version
  THEN Unlocked(p) /\ UNCHANGED prefVars
  ELSE Mutate(p, apply_running_version(cache[p], version)) /\ UNCHANGED said

PrefNext == \E p \in Processes :
  \/ Launch(p) \/ SaveStep(p) \/ Stop(p) \/ Skip(p)
  \/ \E granted \in BOOLEAN : Answer(p, granted) \/ AnswerUpdates(p, granted)
  \/ \E v \in 0 .. MaxVersion : RecordCheck(p, v)
  \/ \E v \in 1 .. MaxVersion : CommitVersion(p, v)

PrefSpec == PrefInit /\ [][PrefNext]_prefVars

-----------------------------------------------------------------------------
Readable(f) == f \in Config

\* An identifier exists only beside a granted answer, in every copy and on
\* disk, whatever the processes overwrite of each other's.
NoIdWithoutConsent ==
  /\ \A p \in Processes : cache[p].device_id => enabled(cache[p])
  /\ \A f \in {file, tmp} : Readable(f) /\ f.device_id => enabled(f)

\* config.rs, module comment: a user who says no in one project has said no
\* everywhere.  Once saves are over, the file holds the last answer given.
LastAnswerHolds ==
  said # "unasked" /\ (\A p \in Processes : saving[p] = "no") =>
    Readable(file) /\ file.analytics = said
=============================================================================
