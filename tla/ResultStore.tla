----------------------------- MODULE ResultStore -----------------------------
(***************************************************************************)
(* Where the results of analyses are kept, and who shows them: the         *)
(* database (db/service.py), the file reports/full_result.json that every  *)
(* job of the in-memory service overwrites in place                        *)
(* (api/services/analysis_pipeline.py), the readers that fall back from    *)
(* one to the other (dashboard_queries.py, report_generation.py,           *)
(* red_blue_summary.py), and the restart of the server by start.py, which  *)
(* saves what the file holds into the database.                            *)
(*                                                                         *)
(* A job of a Celery worker saves to the database only, and outlives the   *)
(* server.  Nothing is locked: two jobs may have the file open for writing *)
(* at the same time, each with an offset of its own.                       *)
(***************************************************************************)
EXTENDS Integers, Sequences, FiniteSets

CONSTANTS
    Memory,         \* sessions that the in-memory service analyses
    Celery,         \* sessions that Celery workers analyse
    MaxBlocks,      \* blocks that the writing of a document is flushed in
    MaxCrashes,     \* bound of the model: crashes of the server
    NoSession

Session == Memory \cup Celery

ASSUME ResultAssumption ==
    /\ Memory \cap Celery = {} /\ NoSession \notin Session
    /\ MaxBlocks \in Nat \ {0} /\ MaxCrashes \in Nat

VARIABLES
    run,            \* run[s]: AnalysisRun.id of s in the database, 0 if it has none
    nextId,         \* the id that the next AnalysisRun gets
    file,           \* full_result.json
    job,            \* job[s]: where the job of s stands
    size,           \* size[s]: blocks of the document of s
    offset,         \* offset[s]: blocks of it that the job has written
    clean,          \* sessions without a vulnerability
    server,         \* where start.py and the server it runs stand
    seed,           \* the session that seed_sample_data saves again
    crashes,
    saved,          \* history: saved[s]: the id with which s was first saved
    lone            \* history: the last session to begin, if it runs undisturbed

dbVars   == <<run, nextId, saved>>
jobVars  == <<job, size, offset, clean>>
bootVars == <<server, seed, crashes>>
vars     == <<dbVars, file, jobVars, bootVars, lone>>

\* A block of the document of session s, or nothing where a writer skipped.
Block == (Session \X (1..MaxBlocks)) \cup {NoSession}
File  == [exists: BOOLEAN, blocks: UNION {[1..n -> Block] : n \in 0..MaxBlocks}]

TypeOK ==
    /\ run \in [Session -> Nat] /\ saved \in [Session -> Nat]
    /\ nextId \in Nat \ {0}
    /\ \A s \in Session : saved[s] < nextId /\ run[s] < nextId
    /\ file \in File
    /\ job \in [Session -> {"none", "running", "saved", "writing",
                            "done", "failed", "killed"}]
    /\ size \in [Session -> 0..MaxBlocks]
    /\ offset \in [Session -> 0..MaxBlocks]
    /\ clean \subseteq Session
    /\ server \in {"down", "seeding", "inserting", "refused", "up"}
    /\ seed \in Memory \cup {NoSession}
    /\ crashes \in 0..MaxCrashes
    /\ lone \in Session \cup {NoSession}

Init ==
    /\ run = [s \in Session |-> 0] /\ saved = [s \in Session |-> 0]
    /\ nextId = 1
    /\ file = [exists |-> FALSE, blocks |-> <<>>]
    /\ job = [s \in Session |-> "none"]
    /\ size = [s \in Session |-> 0] /\ offset = [s \in Session |-> 0]
    /\ clean = {}
    /\ server = "down" /\ seed = NoSession /\ crashes = 0
    /\ lone = NoSession

-----------------------------------------------------------------------------
(* What the readers find                                                   *)

\* The newest run: AnalysisRun ordered by id, descending.
Latest == IF \A s \in Session : run[s] = 0 THEN NoSession
          ELSE CHOOSE s \in Session : \A t \in Session : run[t] <= run[s]

\* json.load of the file: whose document it holds, if it is whole.
Document(s) == [k \in 1..size[s] |-> <<s, k>>]

FullResult ==
    IF file.exists /\ \E s \in Memory : size[s] > 0 /\ file.blocks = Document(s)
    THEN CHOOSE s \in Memory : size[s] > 0 /\ file.blocks = Document(s)
    ELSE NoSession

\* get_stats: the database, unless the newest run has no issue.  NoSession
\* stands for the fall-back to bandit_report.json.
StatsOf == IF Latest # NoSession /\ Latest \notin clean THEN Latest ELSE FullResult

\* get_vulnerabilities: the file, unless it lists none.
ListOf == IF FullResult \in clean THEN NoSession ELSE FullResult

\* load_report_data, and get_latest_analysis behind it, without a session_id.
ReportOf == IF Latest # NoSession THEN Latest ELSE FullResult

-----------------------------------------------------------------------------
(* A job                                                                   *)

InProgress(s) == job[s] \in {"running", "saved", "writing"}

\* The pipeline has analysed s: whether it found anything, and how long the
\* document is, is its result.
Begin(s) ==
    /\ job[s] = "none"
    /\ s \in Memory => server = "up"
    /\ job' = [job EXCEPT ![s] = "running"]
    /\ \E n \in 1..MaxBlocks : size' = [size EXCEPT ![s] = IF s \in Memory THEN n ELSE 0]
    /\ clean' \in {clean, clean \cup {s}}
    /\ lone' = IF \E t \in Session : InProgress(t) THEN NoSession ELSE s
    /\ UNCHANGED <<dbVars, file, offset, bootVars>>

\* Mutant of InsertRun: the run that is inserted replaces all others.
InsertAlone(s) ==
    /\ run' = [t \in Session |-> IF t = s THEN nextId ELSE 0]
    /\ nextId' = nextId + 1
    /\ saved' = IF saved[s] = 0 THEN [saved EXCEPT ![s] = nextId] ELSE saved

\* The second commit of save_analysis: the run and all that belongs to it.
InsertRun(s) ==
    /\ run' = [run EXCEPT ![s] = nextId]
    /\ nextId' = nextId + 1
    /\ saved' = IF saved[s] = 0 THEN [saved EXCEPT ![s] = nextId] ELSE saved

\* _persist_to_db: a session that is new has nothing to delete.  A failure is
\* absorbed into db_error.
SaveRun(s) ==
    /\ job[s] = "running"
    /\ job' = [job EXCEPT ![s] = IF s \in Memory THEN "saved" ELSE "done"]
    /\ \/ InsertRun(s) /\ UNCHANGED lone
       \/ UNCHANGED dbVars /\ lone' = NoSession
    /\ UNCHANGED <<file, size, offset, clean, bootVars>>

\* The job fails although its run is saved: its entry was dropped (on_progress
\* raises), or the file cannot be opened or written.
FailJob(s) ==
    /\ job[s] \in {"saved", "writing"}
    /\ job' = [job EXCEPT ![s] = "failed"]
    /\ UNCHANGED <<dbVars, file, size, offset, clean, bootVars, lone>>

\* Mutant of OpenFile: the file is opened for update, and keeps what it holds.
OpenForUpdate(s) ==
    /\ job[s] = "saved"
    /\ job' = [job EXCEPT ![s] = "writing"]
    /\ file' = [file EXCEPT !.exists = TRUE]
    /\ UNCHANGED <<dbVars, size, offset, clean, bootVars, lone>>

\* open(full_result.json, "w") truncates the file.
OpenFile(s) ==
    /\ job[s] = "saved"
    /\ job' = [job EXCEPT ![s] = "writing"]
    /\ file' = [exists |-> TRUE, blocks |-> <<>>]
    /\ UNCHANGED <<dbVars, size, offset, clean, bootVars, lone>>

\* The blocks after block k of session s was written at its offset.
Written(blocks, s, k) ==
    [i \in 1..(IF Len(blocks) < k THEN k ELSE Len(blocks)) |->
        IF i = k THEN <<s, k>>
        ELSE IF i <= Len(blocks) THEN blocks[i] ELSE NoSession]

\* json.dump flushes the next block; after the last one the file is closed.
WriteBlock(s) ==
    /\ job[s] = "writing"
    /\ file' = [file EXCEPT !.blocks = Written(@, s, offset[s] + 1)]
    /\ offset' = [offset EXCEPT ![s] = @ + 1]
    /\ job' = [job EXCEPT ![s] = IF offset[s] + 1 = size[s] THEN "done" ELSE @]
    /\ UNCHANGED <<dbVars, size, clean, bootVars, lone>>

-----------------------------------------------------------------------------
(* The server                                                              *)

\* The server or start.py is killed, and the jobs of the server with it.
Crash ==
    /\ server # "down" /\ crashes < MaxCrashes
    /\ server' = "down" /\ seed' = NoSession
    /\ crashes' = crashes + 1
    /\ job' = [s \in Session |-> IF s \in Memory /\ InProgress(s) THEN "killed" ELSE job[s]]
    /\ lone' = NoSession
    /\ UNCHANGED <<dbVars, file, size, offset, clean>>

\* start.py: seed_sample_data reads the file if there is one.  json.load
\* raises on a damaged file, and nothing catches that.
Start ==
    /\ server \in {"down", "refused"}
    /\ \/ ~file.exists /\ server' = "up" /\ UNCHANGED seed
       \/ FullResult # NoSession /\ server' = "seeding" /\ seed' = FullResult
       \/ file.exists /\ FullResult = NoSession /\ server' = "refused" /\ UNCHANGED seed
    /\ UNCHANGED <<dbVars, file, jobVars, crashes, lone>>

\* Mutant of SeedDelete: the runs of all sessions are deleted, not only those of
\* the session of the document.
SeedClear ==
    /\ server = "seeding"
    /\ run' = [s \in Session |-> 0]
    /\ server' = "inserting"
    /\ UNCHANGED <<nextId, saved, file, jobVars, seed, crashes, lone>>

\* save_analysis of the document: the first commit deletes the run of the same
\* session_id, if there is one ...
SeedDelete ==
    /\ server = "seeding"
    /\ run' = [run EXCEPT ![seed] = 0]
    /\ server' = "inserting"
    /\ UNCHANGED <<nextId, saved, file, jobVars, seed, crashes, lone>>

\* ... and the second one inserts it anew, with a new id.
SeedInsert ==
    /\ server = "inserting"
    /\ InsertRun(seed)
    /\ server' = "up" /\ seed' = NoSession
    /\ UNCHANGED <<file, jobVars, crashes, lone>>

\* Either commit may fail, and start.py with it.
SeedFails ==
    /\ server \in {"seeding", "inserting"}
    /\ server' = "refused" /\ seed' = NoSession
    /\ UNCHANGED <<dbVars, file, jobVars, crashes, lone>>

-----------------------------------------------------------------------------

Next ==
    \/ Crash \/ Start \/ SeedDelete \/ SeedInsert \/ SeedFails
    \/ \E s \in Session :
         Begin(s) \/ SaveRun(s) \/ FailJob(s) \/ OpenFile(s) \/ WriteBlock(s)

Spec == Init /\ [][Next]_vars

-----------------------------------------------------------------------------

\* What was once saved is never lost: while the server is up its run is in the
\* database, and when a crash or a failure falls between the two commits of
\* the restart, the file still has the whole document for the next restart.
SavedSurvives ==
    \A s \in Session :
        saved[s] > 0 => \/ run[s] > 0
                        \/ server # "up" /\ FullResult = s

\* A job that ran undisturbed is what the dashboard shows when it is done:
\* statistics, list and report come from different places (newest run, file,
\* newest run), and agree.
ShowsLoneResult ==
    lone \in Memory /\ job[lone] = "done" =>
        /\ StatsOf = lone /\ ReportOf = lone /\ FullResult = lone
        /\ lone \notin clean => ListOf = lone

\* A run that the API has shown never disappears under it: the gap between the
\* two commits of save_analysis is not to be seen while the server answers.
NoGapWhileUp ==
    [][server = "up" => \A s \in Session : run[s] > 0 => run'[s] > 0]_vars

\* "The most recent analysis" is the one that was saved last.
LatestIsMostRecent ==
    server = "up" /\ Latest # NoSession =>
        \A s \in Session : saved[s] <= saved[Latest]

=============================================================================
