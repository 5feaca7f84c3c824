---------------------------- MODULE AnalysisJobs ----------------------------
(***************************************************************************)
(* The in-memory job service of the API server: the store of JobStore with *)
(* the handlers of api/routers/analyze.py, the worker of                   *)
(* api/services/analysis_pipeline.py (execute_analysis_job), the thread    *)
(* pool they share, and as the client the polling loop of the dashboard    *)
(* (AnalyzeView.jsx).  Celery is unavailable (_USE_CELERY = False), the    *)
(* case in which the dict holds the jobs.                                  *)
(*                                                                         *)
(* `def` handlers and background tasks run in the thread pool, an `async   *)
(* def` handler and the encoding of every response on the event loop, an   *)
(* uploaded file's analysis in a thread of its own.  All of them read and  *)
(* write the dict with no lock.                                            *)
(*                                                                         *)
(* `stored` has the keys of the dict and `meta` the dict object of each    *)
(* job: one that is popped keeps its last value, from which a response     *)
(* that fetched it before is still encoded.                                *)
(***************************************************************************)
EXTENDS JobStore

CONSTANT PoolSize               \* threads of the server's thread pool

ASSUME PoolAssumption == PoolSize \in Nat \ {0}

VARIABLES
    meta,           \* meta[j]: the dict object of job j
    worker,         \* worker[j]: where execute_analysis_job(j) stands
    borrowed,       \* jobs whose worker occupies a thread of the pool
    request,        \* request[r]: what request r does after its clean-up
    view            \* view[j]: what the client that submitted j shows

jobVars == <<meta, worker, borrowed, request, view>>
vars    == <<clock, stored, created, cleaner, meta, worker, borrowed, request, view>>

Verdict == {"completed", "failed"}
Status  == {"absent", "queued", "analyzing"} \cup Verdict
View    == {"idle", "polling"} \cup Verdict
Payload == {"none", "result", "error"}

\* `keys`: how many times a worker has added optional keys to the dict object.
Meta == [status: Status, payload: Payload, keys: 0..2]

Running  == {"pipeline", "report", "complete", "result", "fail", "error"}
WorkerPc == {"none", "pending", "ready", "done", "dead"} \cup Running

RequestState ==
    [pc: {"idle", "dispatch", "respond", "encode"},
     handler: Handler, job: Job \cup {NoJob}, seen: Status, keys: 0..2]

TypeOK ==
    /\ StoreTypeOK
    /\ meta \in [Job -> Meta]
    /\ worker \in [Job -> WorkerPc]
    /\ borrowed \subseteq Job
    /\ request \in [Request -> RequestState]
    /\ view \in [Job -> View]

IdleRequest == [pc |-> "idle", handler |-> "get_analysis_status", job |-> NoJob,
                seen |-> "absent", keys |-> 0]

BlankMeta == [status |-> "absent", payload |-> "none", keys |-> 0]

Init ==
    /\ StoreInit
    /\ meta = [j \in Job |-> BlankMeta]
    /\ worker = [j \in Job |-> "none"]
    /\ borrowed = {}
    /\ request = [r \in Request |-> IdleRequest]
    /\ view = [j \in Job |-> "idle"]

-----------------------------------------------------------------------------
(* Where a request runs                                                    *)

Idle(r) == cleaner[r].pc = "idle" /\ request[r].pc = "idle"

\* The handler of request r, while it runs ("" after it has returned).
Runs(r, h) == \/ cleaner[r].pc # "idle" /\ cleaner[r].handler = h
              \/ request[r].pc = "dispatch" /\ request[r].handler = h

InPool(r) == Runs(r, "start_analysis") \/ Runs(r, "get_analysis_status")

FreeThread ==
    Cardinality({r \in Request : InPool(r)}) + Cardinality(borrowed) < PoolSize

\* The loop runs one handler without an await, or encodes one response.
FreeLoop == \A r \in Request : ~Runs(r, "analyze_file") /\ request[r].pc # "encode"

-----------------------------------------------------------------------------
(* A request arrives, and its handler begins with the clean-up.            *)

\* Mutant of Fresh: ids have the granularity of the clock.
UnusedId(j) == meta[j].status = "absent"

\* make_job_id: no job has the id and no handler is about to insert it.
Fresh(j) == /\ meta[j].status = "absent"
            /\ \A r \in Request : cleaner[r].own # j

StartAnalysis(r) ==
    /\ Idle(r) /\ FreeThread
    /\ \E j \in Job : Fresh(j) /\ CleanupTtl(r, "start_analysis", j)
    /\ UNCHANGED jobVars

AnalyzeFile(r) ==
    /\ Idle(r) /\ FreeLoop
    /\ \E j \in Job : Fresh(j) /\ CleanupTtl(r, "analyze_file", j)
    /\ UNCHANGED jobVars

\* Once a second for as long as the client polls; polls may overlap.
PollStatus(r, j) ==
    /\ Idle(r) /\ FreeThread
    /\ view[j] = "polling"
    /\ CleanupTtl(r, "get_analysis_status", j)
    /\ UNCHANGED jobVars

CleanUp(r) == Clean(r) /\ UNCHANGED jobVars

-----------------------------------------------------------------------------
(* The rest of start_analysis and analyze_file                             *)

StampJob(r) == Stamp(r) /\ UNCHANGED jobVars

InsertJob(r) ==
    /\ Insert(r)
    /\ meta' = [meta EXCEPT ![cleaner[r].own] = [BlankMeta EXCEPT !.status = "queued"]]
    /\ request' = [request EXCEPT ![r] =
                     [IdleRequest EXCEPT !.pc = "dispatch",
                                         !.handler = cleaner[r].handler,
                                         !.job = cleaner[r].own]]
    /\ UNCHANGED <<worker, borrowed, view>>

\* background_tasks.add_task or Thread.start, and the response to the client.
DispatchJob(r) ==
    /\ request[r].pc = "dispatch"
    /\ worker' = [worker EXCEPT ![request[r].job] =
                    IF request[r].handler = "start_analysis" THEN "pending"
                                                             ELSE "ready"]
    /\ view' = [view EXCEPT ![request[r].job] = "polling"]
    /\ request' = [request EXCEPT ![r] = IdleRequest]
    /\ UNCHANGED <<storeVars, meta, borrowed>>

-----------------------------------------------------------------------------
(* The rest of get_analysis_status                                         *)

\* analysis_jobs.get(job_id): the handler returns the live dict object, or
\* {"error": "Job not found"}, which the client ignores.
LookupJob(r) ==
    /\ Get(r)
    /\ request' = [request EXCEPT ![r] =
                     IF cleaner[r].own \in stored
                     THEN [IdleRequest EXCEPT !.pc = "respond", !.job = cleaner[r].own]
                     ELSE IdleRequest]
    /\ UNCHANGED <<meta, worker, borrowed, view>>

\* The event loop encodes the object field by field: first the status ...
EncodeStatus(r) ==
    /\ request[r].pc = "respond" /\ FreeLoop
    /\ LET m == meta[request[r].job]
       IN  request' = [request EXCEPT ![r] =
                        [@ EXCEPT !.pc = "encode", !.seen = m.status, !.keys = m.keys]]
    /\ UNCHANGED <<storeVars, meta, worker, borrowed, view>>

\* ... and then the result and the error.  The client stops polling on a
\* verdict, and polls again after any other answer.
EncodeResult(r) ==
    /\ request[r].pc = "encode"
    /\ view' = IF request[r].seen \in Verdict
               THEN [view EXCEPT ![request[r].job] = request[r].seen]
               ELSE view
    /\ request' = [request EXCEPT ![r] = IdleRequest]
    /\ UNCHANGED <<storeVars, meta, worker, borrowed>>

\* A worker added a key to the object in between: the request fails.
EncodeRaises(r) ==
    /\ request[r].pc = "encode"
    /\ meta[request[r].job].keys # request[r].keys
    /\ request' = [request EXCEPT ![r] = IdleRequest]
    /\ UNCHANGED <<storeVars, meta, worker, borrowed, view>>

-----------------------------------------------------------------------------
(* execute_analysis_job: every jobs[job_id] raises KeyError once the entry *)
(* is gone.  Inside the try block the except clause then writes to the     *)
(* same entry, so a second KeyError ends the thread.                       *)

Advance(j, l) == worker' = [worker EXCEPT ![j] = l]

\* The worker of j ends, and its pool thread is free again.
Finish(j, l) == Advance(j, l) /\ borrowed' = borrowed \ {j}

\* Mutant of BeginAnalysis: the status "analyzing" is not written.
BeginSilently(j) ==
    /\ worker[j] \in {"pending", "ready"}
    /\ worker[j] = "pending" => FreeThread
    /\ IF j \in stored
       THEN /\ Advance(j, "pipeline")
            /\ borrowed' = IF worker[j] = "pending" THEN borrowed \cup {j}
                                                    ELSE borrowed
       ELSE Finish(j, "dead")
    /\ UNCHANGED <<storeVars, meta, request, view>>

\* jobs[job_id]["status"] = "analyzing", before the try block.  A background
\* task first waits for a thread of the pool.
BeginAnalysis(j) ==
    /\ worker[j] \in {"pending", "ready"}
    /\ worker[j] = "pending" => FreeThread
    /\ IF j \in stored
       THEN /\ meta' = [meta EXCEPT ![j].status = "analyzing"]
            /\ Advance(j, "pipeline")
            /\ borrowed' = IF worker[j] = "pending" THEN borrowed \cup {j}
                                                    ELSE borrowed
       ELSE Finish(j, "dead") /\ UNCHANGED meta
    /\ UNCHANGED <<storeVars, request, view>>

\* The worker, at l inside the try block, sets jobs[j] to m and goes on to
\* `next`, or to the except clause when the entry is gone.
Write(j, l, next, m) ==
    /\ worker[j] = l
    /\ IF j \in stored
       THEN meta' = [meta EXCEPT ![j] = m] /\ Advance(j, next)
       ELSE Advance(j, "fail") /\ UNCHANGED meta
    /\ UNCHANGED <<storeVars, borrowed, request, view>>

\* execute_pipeline has returned; language, and llm_error or db_error where it
\* absorbed one, are recorded.
RecordLanguage(j) ==
    Write(j, "pipeline", "report", [meta[j] EXCEPT !.keys = 1])

\* full_result.json, then report_files or report_error: a report that fails
\* does not fail the job.
MakeReport(j) ==
    Write(j, "report", "complete", [meta[j] EXCEPT !.keys = 2])

CompleteJob(j) ==
    Write(j, "complete", "result", [meta[j] EXCEPT !.status = "completed"])

\* Mutant of Raise: what the pipeline raises is no Exception.
RaiseThrough(j) ==
    /\ worker[j] \in {"pipeline", "report"}
    /\ Finish(j, "dead")
    /\ UNCHANGED <<storeVars, meta, request, view>>

\* execute_pipeline raises (on_progress does so when the entry is gone), or the
\* result file cannot be written.
Raise(j) ==
    /\ worker[j] \in {"pipeline", "report"}
    /\ Advance(j, "fail")
    /\ UNCHANGED <<storeVars, meta, borrowed, request, view>>

\* Mutant of StoreResult: storing the result can fail after "completed".
StoreResultOrRaise(j) ==
    /\ worker[j] = "result"
    /\ \/ /\ j \in stored
          /\ meta' = [meta EXCEPT ![j].payload = "result"] /\ Finish(j, "done")
       \/ Advance(j, "fail") /\ UNCHANGED <<meta, borrowed>>
    /\ UNCHANGED <<storeVars, request, view>>

\* Mutant of StoreResult: jobs.setdefault(job_id, {}) instead of jobs[job_id].
StoreResultAnyway(j) ==
    /\ worker[j] = "result"
    /\ meta' = [meta EXCEPT ![j].payload = "result"] /\ Finish(j, "done")
    /\ stored' = stored \cup {j}
    /\ UNCHANGED <<clock, created, cleaner, request, view>>

\* The last two writes of the try block: the result and the step text.
StoreResult(j) ==
    /\ worker[j] = "result"
    /\ IF j \in stored
       THEN meta' = [meta EXCEPT ![j].payload = "result"] /\ Finish(j, "done")
       ELSE Advance(j, "fail") /\ UNCHANGED <<meta, borrowed>>
    /\ UNCHANGED <<storeVars, request, view>>

\* Mutant of FailJob: the except clause waits for an entry to write to.
FailWhenStored(j) ==
    /\ worker[j] = "fail" /\ j \in stored
    /\ meta' = [meta EXCEPT ![j].status = "failed"]
    /\ Advance(j, "error")
    /\ UNCHANGED <<storeVars, borrowed, request, view>>

\* The except clause: the status ...
FailJob(j) ==
    /\ worker[j] = "fail"
    /\ IF j \in stored
       THEN /\ meta' = [meta EXCEPT ![j].status = "failed"]
            /\ Advance(j, "error")
            /\ UNCHANGED borrowed
       ELSE Finish(j, "dead") /\ UNCHANGED meta
    /\ UNCHANGED <<storeVars, request, view>>

\* ... then the error and the step text.
StoreError(j) ==
    /\ worker[j] = "error"
    /\ IF j \in stored
       THEN meta' = [meta EXCEPT ![j].payload = "error"] /\ Finish(j, "done")
       ELSE Finish(j, "dead") /\ UNCHANGED meta
    /\ UNCHANGED <<storeVars, request, view>>

-----------------------------------------------------------------------------

Tick == StoreTick /\ UNCHANGED jobVars

Arrive(r) == StartAnalysis(r) \/ AnalyzeFile(r) \/ \E j \in Job : PollStatus(r, j)

\* What a request that has its thread does next.
Proceed(r) ==
    \/ CleanUp(r) \/ StampJob(r) \/ InsertJob(r) \/ DispatchJob(r) \/ LookupJob(r)
    \/ EncodeResult(r) \/ EncodeRaises(r)

Serve(r) == Proceed(r) \/ EncodeStatus(r)

Work(j) ==
    \/ RecordLanguage(j) \/ MakeReport(j) \/ CompleteJob(j) \/ StoreResult(j)
    \/ Raise(j) \/ FailJob(j) \/ StoreError(j)

Next ==
    \/ Tick
    \/ \E r \in Request : Arrive(r) \/ Serve(r)
    \/ \E j \in Job : BeginAnalysis(j) \/ Work(j)

Spec == Init /\ [][Next]_vars

-----------------------------------------------------------------------------
(* Fairness.  The threads of the server run; the thread pool and the event *)
(* loop serve who waits for them in the order of arrival, so one who waits *)
(* long enough gets a free one; a polling client sets its timer again and  *)
(* again.  Nobody has to submit anything, and the clock may stop.          *)

Fairness ==
    /\ \A r \in Request : WF_vars(Proceed(r)) /\ SF_vars(EncodeStatus(r))
    /\ \A j \in Job : SF_vars(BeginAnalysis(j)) /\ WF_vars(Work(j))
    /\ \A j \in Job : SF_vars(\E r \in Request : PollStatus(r, j))

FairSpec == Spec /\ Fairness

-----------------------------------------------------------------------------
(* What an entry may say, given where the worker of its job stands         *)

StatusAt(w) ==
    CASE w = "none"                                -> {"absent", "queued"}
      [] w \in {"pending", "ready"}                -> {"queued"}
      [] w \in {"pipeline", "report", "complete"}  -> {"analyzing"}
      [] w = "result"                              -> {"completed"}
      [] w = "fail"                                -> {"analyzing"}
      [] w = "error"                               -> {"failed"}
      [] w = "done"                                -> Verdict
      [] w = "dead"                                -> {}

\* No entry is left behind by its worker, whatever the clean-ups of other
\* requests remove and whenever they do: an entry that the store still has
\* shows the stage of a worker that is still going to write it, or the verdict,
\* with its result or error, of one that has ended.  A worker that a missing
\* entry kills leaves no entry that shows a job in progress for ever.
StoredMatchesWorker ==
    \A j \in stored :
        /\ meta[j].status \in StatusAt(worker[j])
        /\ worker[j] = "done" =>
             meta[j].payload = IF meta[j].status = "completed" THEN "result"
                                                               ELSE "error"

\* What a client was told at the end of its polling is and stays the verdict
\* of its job, although the answer was encoded from the live object while the
\* worker wrote it, and polls overlap.
VerdictIsFinal ==
    \A j \in Job : view[j] \in Verdict => view[j] = meta[j].status

\* A job that a clean-up dropped never comes back: neither the handler that
\* submitted it nor the worker that goes on writing to it re-creates the key.
DroppedForGood ==
    [][\A j \in Job : j \in stored' \ stored => worker[j] = "none" /\ view[j] = "idle"]_vars

\* The service implements the life cycle promised to clients.
Lifecycle == INSTANCE JobLifecycle
                 WITH phase <- [j \in Job |-> meta[j].status], kept <- stored

ImplementsLifecycle == Lifecycle!LifecycleSpec

\* Every analysis that was accepted ends: a dropped entry never leaves a worker
\* waiting, or a pool thread that it used blocked.
AnalysisEnds ==
    \A j \in Job : worker[j] \in {"pending", "ready"} ~> worker[j] \in {"done", "dead"}

\* A polling client learns the verdict, unless the store dropped the job.
PollingEnds ==
    \A j \in Job : view[j] = "polling" ~> view[j] \in Verdict \/ j \notin stored

=============================================================================
