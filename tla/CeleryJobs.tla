----------------------------- MODULE CeleryJobs -----------------------------
(***************************************************************************)
(* The Celery job service: start_analysis and the two status handlers of   *)
(* api/routers/analyze.py with _USE_CELERY = True, the task of             *)
(* api/tasks.py, and around them the broker, the workers and the result    *)
(* backend as api/celery_app.py configures them (external).                *)
(*                                                                         *)
(* AsyncResult fetches the record of the task from the backend anew every  *)
(* time a handler reads .state or .info, until it has seen a ready state:  *)
(* that record it keeps.  One answer may thus be put together from several *)
(* records, while the worker goes on.                                      *)
(*                                                                         *)
(* A task is acknowledged when a worker takes it (task_acks_late is unset) *)
(* so it runs at most once; a redelivery of messages that wait longer than *)
(* the visibility timeout of the broker is left out.                       *)
(***************************************************************************)
EXTENDS Naturals, FiniteSets

CONSTANTS
    Job,            \* task ids
    Reader,         \* threads that run status handlers
    Concurrency,    \* worker_concurrency
    MaxCrashes,     \* bound of the model: crashes of the worker's host
    NoJob

ASSUME CeleryAssumption ==
    /\ Concurrency \in Nat \ {0}
    /\ MaxCrashes \in Nat
    /\ NoJob \notin Job

VARIABLES
    stage,          \* stage[j]: how far the task j has come
    alive,          \* the tasks that a worker executes
    record,         \* record[j]: what the result backend has of j
    reader,         \* reader[r]: where a status handler stands
    view,           \* view[j]: what the client that submitted j shows
    crashes

taskVars == <<stage, alive, crashes>>
vars     == <<stage, alive, record, reader, view, crashes>>

Verdict == {"completed", "failed"}
Ready   == {"SUCCESS", "FAILURE"}
Raw     == {"PENDING", "STARTED", "PROGRESS"} \cup Ready

\* The state of a record, and the status in the dict that the task returned.
Record  == [state: Raw, returned: {"none"} \cup Verdict]
NoRecord == [state |-> "PENDING", returned |-> "none"]

\* What a handler has put together: the status, raw (in the case of the
\* backend or lower) or a verdict, and whether there is a result, an error.
Answer == [status: {"none"} \cup Raw \cup Verdict, result: BOOLEAN, error: BOOLEAN]
NoAnswer == [status |-> "none", result |-> FALSE, error |-> FALSE]

ReaderPc == {"idle", "known", "name", "step", "progress", "info", "success",
             "failure", "respond"}
Handler  == {"get_analysis_status", "get_celery_task_status"}

TypeOK ==
    /\ stage \in [Job -> {"none", "queued", "running"} \cup Verdict]
    /\ alive \subseteq {j \in Job : stage[j] = "running"}
    /\ record \in [Job -> Record]
    /\ reader \in [Reader -> [pc: ReaderPc, handler: Handler, job: Job \cup {NoJob},
                              seen: Record, answer: Answer]]
    /\ view \in [Job -> {"idle", "polling"} \cup Verdict]
    /\ crashes \in 0..MaxCrashes

IdleReader == [pc |-> "idle", handler |-> "get_analysis_status", job |-> NoJob,
               seen |-> NoRecord, answer |-> NoAnswer]

Init ==
    /\ stage = [j \in Job |-> "none"]
    /\ alive = {}
    /\ record = [j \in Job |-> NoRecord]
    /\ reader = [r \in Reader |-> IdleReader]
    /\ view = [j \in Job |-> "idle"]
    /\ crashes = 0

-----------------------------------------------------------------------------
(* Submission and execution                                                *)

\* run_analysis_task.delay(...)
Submit(j) ==
    /\ stage[j] = "none"
    /\ stage' = [stage EXCEPT ![j] = "queued"]
    /\ UNCHANGED <<alive, record, reader, view, crashes>>

\* The answer of start_analysis carries the task id to the client.
Reply(j) ==
    /\ stage[j] # "none" /\ view[j] = "idle"
    /\ view' = [view EXCEPT ![j] = "polling"]
    /\ UNCHANGED <<taskVars, record, reader>>

\* A worker process takes the message and acknowledges it.
Take(j) ==
    /\ stage[j] = "queued"
    /\ Cardinality(alive) < Concurrency
    /\ stage' = [stage EXCEPT ![j] = "running"]
    /\ alive' = alive \cup {j}
    /\ UNCHANGED <<record, reader, view, crashes>>

\* The backend ignores an update of a record that says SUCCESS.
Store(j, state, returned) ==
    record' = IF record[j].state = "SUCCESS" THEN record
              ELSE [record EXCEPT ![j] = [state |-> state, returned |-> returned]]

\* task_track_started.
TrackStarted(j) ==
    /\ j \in alive /\ record[j].state = "PENDING"
    /\ Store(j, "STARTED", "none")
    /\ UNCHANGED <<taskVars, reader, view>>

\* on_progress, called by the pipeline at each of its steps.
Progress(j) ==
    /\ j \in alive /\ record[j].state \in {"STARTED", "PROGRESS"}
    /\ Store(j, "PROGRESS", "none")
    /\ UNCHANGED <<taskVars, reader, view>>

Finish(j, verdict) ==
    /\ stage' = [stage EXCEPT ![j] = verdict]
    /\ alive' = alive \ {j}
    /\ UNCHANGED <<reader, view, crashes>>

\* Mutant of Return: what the task catches becomes the state of the task, as
\* if it raised, and the dict it returns is recorded as well.
ReturnTwice(j) ==
    /\ j \in alive /\ record[j].state \in {"STARTED", "PROGRESS"}
    /\ \E v \in Verdict : Finish(j, v)
    /\ Store(j, "SUCCESS", "completed")

\* The task returns a dict whatever happened inside its try block, so that
\* Celery calls it a success: the verdict is in the dict.
Return(j) ==
    /\ j \in alive /\ record[j].state \in {"STARTED", "PROGRESS"}
    /\ \E v \in Verdict : Finish(j, v) /\ Store(j, "SUCCESS", v)

\* Celery itself reports a failure: an import outside the try block raises, the
\* dict cannot be serialised, or the process of the task was lost.
Fail(j) ==
    /\ j \in alive
    /\ Finish(j, "failed")
    /\ Store(j, "FAILURE", "none")

\* The host of the workers goes down: nobody reports what it ran.
Crash ==
    /\ crashes < MaxCrashes
    /\ crashes' = crashes + 1
    /\ alive' = {}
    /\ UNCHANGED <<stage, record, reader, view>>

\* result_expires: a record that nobody updates is dropped after a day.
Expire(j) ==
    /\ j \notin alive /\ record[j].state # "PENDING"
    /\ record' = [record EXCEPT ![j] = NoRecord]
    /\ UNCHANGED <<taskVars, reader, view>>

-----------------------------------------------------------------------------
(* The status handlers                                                     *)

\* The record that AsyncResult looks at when handler r reads .state or .info.
Seen(r) == IF reader[r].seen.state \in Ready THEN reader[r].seen
                                             ELSE record[reader[r].job]

\* Handler r, at l, reads .state, and goes on to `next` with its answer changed
\* to `answer`.
Read(r, l, next, answer) ==
    /\ reader[r].pc = l
    /\ reader' = [reader EXCEPT ![r] =
                    [reader[r] EXCEPT !.pc = next, !.answer = answer,
                       !.seen = IF Seen(r).state \in Ready THEN Seen(r) ELSE reader[r].seen]]
    /\ UNCHANGED <<taskVars, record, view>>

\* The request fails, or is answered with {"error": "Job not found"}: the
\* client polls again.
Abandon(r) == reader' = [reader EXCEPT ![r] = IdleReader]

Ask(r, h, j) ==
    /\ reader[r].pc = "idle" /\ stage[j] # "none"
    /\ h = "get_analysis_status" => view[j] = "polling"
    /\ reader' = [reader EXCEPT ![r] =
                    [IdleReader EXCEPT !.handler = h, !.job = j,
                       !.pc = IF h = "get_analysis_status" THEN "known" ELSE "name"]]
    /\ UNCHANGED <<taskVars, record, view>>

\* if result.state != "PENDING": a job that still waits is "not found".
CheckKnown(r) ==
    /\ reader[r].pc = "known"
    /\ IF Seen(r).state # "PENDING"
       THEN Read(r, "known", "name", NoAnswer)
       ELSE Abandon(r) /\ UNCHANGED <<taskVars, record, view>>

\* "status": result.state(.lower())
NameStatus(r) ==
    Read(r, "name",
         IF reader[r].handler = "get_analysis_status" THEN "step" ELSE "progress",
         [NoAnswer EXCEPT !.status = Seen(r).state])

\* "step": "..." if result.state == "SUCCESS" else result.state
NameStep(r) == Read(r, "step", "progress", reader[r].answer)

TestProgress(r) ==
    Read(r, "progress", IF Seen(r).state = "PROGRESS" THEN "info" ELSE "success",
         reader[r].answer)

\* response.update(result.info or {}): by now the record may be that of a task
\* that has ended.  Its dict fits; an exception does not, and the request fails.
MergeInfo(r) ==
    /\ reader[r].pc = "info"
    /\ IF Seen(r).state = "FAILURE"
       THEN Abandon(r) /\ UNCHANGED <<taskVars, record, view>>
       ELSE Read(r, "info", "respond",
                 IF Seen(r).state = "SUCCESS"
                 THEN [status |-> Seen(r).returned,
                       result |-> Seen(r).returned = "completed",
                       error  |-> Seen(r).returned = "failed"]
                 ELSE reader[r].answer)

\* Mutant of TestSuccess: the status that the task returned is not looked at.
TestSuccessOnly(r) ==
    Read(r, "success", IF Seen(r).state = "SUCCESS" THEN "respond" ELSE "failure",
         IF Seen(r).state = "SUCCESS"
         THEN [reader[r].answer EXCEPT !.status = "completed",
                                       !.result = Seen(r).returned = "completed"]
         ELSE reader[r].answer)

\* elif result.state == "SUCCESS".  get_analysis_status unpacks the dict of the
\* task, and forwards no error; get_celery_task_status passes it on.
TestSuccess(r) ==
    Read(r, "success", IF Seen(r).state = "SUCCESS" THEN "respond" ELSE "failure",
         IF Seen(r).state # "SUCCESS" THEN reader[r].answer
         ELSE IF reader[r].handler = "get_analysis_status"
              THEN [reader[r].answer EXCEPT !.status = Seen(r).returned,
                                            !.result = Seen(r).returned = "completed"]
              ELSE [reader[r].answer EXCEPT !.result = TRUE])

\* Mutant of TestFailure: the status stays the lower-cased state.
TestFailureRaw(r) ==
    Read(r, "failure", "respond",
         IF Seen(r).state # "FAILURE" THEN reader[r].answer
         ELSE [reader[r].answer EXCEPT !.error = TRUE])

\* elif result.state == "FAILURE".
TestFailure(r) ==
    Read(r, "failure", "respond",
         IF Seen(r).state # "FAILURE" THEN reader[r].answer
         ELSE IF reader[r].handler = "get_analysis_status"
              THEN [reader[r].answer EXCEPT !.status = "failed", !.error = TRUE]
              ELSE [reader[r].answer EXCEPT !.error = TRUE])

\* The client of a job stops polling on a verdict.
Respond(r) ==
    /\ reader[r].pc = "respond"
    /\ view' = IF /\ reader[r].handler = "get_analysis_status"
                  /\ reader[r].answer.status \in Verdict
               THEN [view EXCEPT ![reader[r].job] = reader[r].answer.status]
               ELSE view
    /\ Abandon(r)
    /\ UNCHANGED <<taskVars, record>>

-----------------------------------------------------------------------------

Execute(j) == TrackStarted(j) \/ Return(j) \/ Fail(j)

Handle(r) ==
    \/ CheckKnown(r) \/ NameStatus(r) \/ NameStep(r) \/ TestProgress(r)
    \/ MergeInfo(r) \/ TestSuccess(r) \/ TestFailure(r) \/ Respond(r)

Next ==
    \/ Crash
    \/ \E j \in Job : Submit(j) \/ Reply(j) \/ Take(j) \/ Execute(j) \/ Progress(j) \/ Expire(j)
    \/ \E r \in Reader : Handle(r) \/ \E h \in Handler, j \in Job : Ask(r, h, j)

Spec == Init /\ [][Next]_vars

\* Workers that are there work, the broker serves a message that waits when
\* there is a free process again and again, and handlers run to their end.
\* Nobody has to submit anything, the clients that poll do so again and again,
\* and nothing but the calendar makes a record expire.
Fairness ==
    /\ \A j \in Job : SF_vars(Take(j)) /\ WF_vars(Execute(j))
    /\ \A r \in Reader : WF_vars(Handle(r))
    /\ \A j \in Job : SF_vars(\E r \in Reader : Ask(r, "get_analysis_status", j))

FairSpec == Spec /\ Fairness

-----------------------------------------------------------------------------

\* The Celery backend keeps the same promise as the in-memory one: a client is
\* shown the verdict of its task and no other, although an answer is put
\* together from several reads and Celery calls a failed analysis a SUCCESS.
Lifecycle == INSTANCE JobLifecycle
                 WITH phase <- [j \in Job |->
                                  CASE stage[j] = "none"    -> "absent"
                                    [] stage[j] = "queued"  -> "queued"
                                    [] stage[j] = "running" -> "analyzing"
                                    [] OTHER                -> stage[j]],
                      kept  <- {j \in Job : \/ stage[j] = "queued"
                                            \/ j \in alive
                                            \/ record[j].state # "PENDING"}

ImplementsLifecycle == Lifecycle!LifecycleSpec

\* An answer never mixes two records in a way that a client would wait on for
\* ever or show without content: one that names a final state, or a verdict,
\* has what goes with it, and get_analysis_status lets no final state of Celery
\* through that its client does not know.
AnswersAreWhole ==
    \A r \in Reader :
        LET a == reader[r].answer
        IN  reader[r].pc = "respond" =>
              /\ a.status \in {"completed", "SUCCESS"} => a.result
              /\ a.status = "FAILURE" => a.error
              /\ reader[r].handler = "get_analysis_status" => a.status \notin Ready

\* A polling client learns the verdict, unless the host of its task went down
\* or the record expired first.
PollingEnds ==
    \A j \in Job :
        view[j] = "polling" ~>
            \/ view[j] \in Verdict
            \/ stage[j] = "running" /\ j \notin alive
            \/ stage[j] \in Verdict /\ record[j].state = "PENDING"

=============================================================================
