------------------------------ MODULE JobStore ------------------------------
(***************************************************************************)
(* The dict `analysis_jobs` of the API server and its clean-up, as several *)
(* requests run it at the same time: api/services/analysis_jobs_store.py,  *)
(* called by every handler of api/routers/analyze.py before it inserts a   *)
(* job or looks one up.                                                    *)
(*                                                                         *)
(* Nothing locks the dict.  cleanup() drops what has expired, compares the *)
(* length with the cap, lists the candidates, reads the length again to    *)
(* compute the excess, and pops: other threads run in between.             *)
(***************************************************************************)
EXTENDS Integers, FiniteSets

CONSTANTS
    Job,            \* job ids
    Request,        \* requests that can be in flight at the same time
    MaxJobs,        \* DALLO_ANALYSIS_JOBS_MAX
    TTL,            \* DALLO_ANALYSIS_JOBS_TTL_SECONDS
    MaxClock,       \* bound of the model: the clock stops there
    NoJob           \* no job

ASSUME StoreAssumption ==
    /\ IsFiniteSet(Job)
    /\ IsFiniteSet(Request)
    /\ NoJob \notin Job
    /\ MaxJobs \in Nat \ {0}
    /\ TTL \in Nat \ {0}
    /\ MaxClock \in Nat

VARIABLES
    clock,          \* datetime.now(), in units of the model
    stored,         \* analysis_jobs.keys()
    created,        \* created[j]: the created_at of job j
    cleaner         \* cleaner[r]: the call of cleanup() that request r makes

storeVars == <<clock, stored, created, cleaner>>

Submitter == {"start_analysis", "analyze_file"}
Handler   == Submitter \cup {"get_analysis_status"}

CleanerState ==
    [pc: {"idle", "cap", "scan", "pop", "clean", "stamped"},
     handler: Handler,
     own: Job \cup {NoJob},         \* exclude_ids=(job_id,)
     snap: SUBSET Job,              \* the entries listed
     victims: SUBSET Job]           \* those of them that are to be popped

StoreTypeOK ==
    /\ clock \in 0..MaxClock
    /\ stored \subseteq Job
    /\ created \in [Job -> 0..MaxClock]
    /\ cleaner \in [Request -> CleanerState]

IdleCleaner == [pc |-> "idle", handler |-> "get_analysis_status",
                own |-> NoJob, snap |-> {}, victims |-> {}]

StoreInit ==
    /\ clock = 0
    /\ stored = {}
    /\ created = [j \in Job |-> 0]
    /\ cleaner = [r \in Request |-> IdleCleaner]

CleanerGoto(r, l, S, V) ==
    cleaner' = [cleaner EXCEPT ![r] = [@ EXCEPT !.pc = l, !.snap = S, !.victims = V]]

CleanerLeaves(r) == cleaner' = [cleaner EXCEPT ![r] = IdleCleaner]

-----------------------------------------------------------------------------
(* cleanup(analysis_jobs, exclude_ids=(job_id,))                           *)

Expired(j) == created[j] < clock - TTL

\* Handler h of job `own` calls cleanup(); the TTL pass drops what has expired.
CleanupTtl(r, h, own) ==
    /\ cleaner[r].pc = "idle"
    /\ stored' = {j \in stored : Expired(j) => j = own}
    /\ cleaner' = [cleaner EXCEPT ![r] =
                     [pc |-> "cap", handler |-> h, own |-> own,
                      snap |-> {}, victims |-> {}]]
    /\ UNCHANGED <<clock, created>>

\* len(jobs) > max_size decides whether the dict is iterated.
CleanupCap(r) ==
    /\ cleaner[r].pc = "cap"
    /\ IF Cardinality(stored) > MaxJobs
       THEN CleanerGoto(r, "scan", stored, {})
       ELSE CleanerGoto(r, "clean", {}, {})
    /\ UNCHANGED <<clock, stored, created>>

\* RuntimeError, dictionary changed size during iteration: the request fails.
CleanupRaises(r) ==
    /\ cleaner[r].pc = "scan"
    /\ Cardinality(stored) # Cardinality(cleaner[r].snap)
    /\ CleanerLeaves(r)
    /\ UNCHANGED <<clock, stored, created>>

Prunable(r) == cleaner[r].snap \ {cleaner[r].own}

\* Mutant of OldestOf: the list is sorted newest first.
NewestOf(V, S, n) ==
    /\ V \subseteq S
    /\ Cardinality(V) = IF n <= 0 THEN 0
                        ELSE IF n < Cardinality(S) THEN n ELSE Cardinality(S)
    /\ \A v \in V, w \in S \ V : created[v] >= created[w]

\* V is a possible result of taking the n oldest of S (all of a smaller S).
OldestOf(V, S, n) ==
    /\ V \subseteq S
    /\ Cardinality(V) = IF n <= 0 THEN 0
                        ELSE IF n < Cardinality(S) THEN n ELSE Cardinality(S)
    /\ \A v \in V, w \in S \ V : created[v] <= created[w]

\* Mutant of CleanupChoose: excess = max_size - len(jobs).
ChooseSwapped(r) ==
    /\ cleaner[r].pc = "scan"
    /\ \E V \in SUBSET Prunable(r) :
        /\ OldestOf(V, Prunable(r), MaxJobs - Cardinality(stored))
        /\ CleanerGoto(r, "pop", cleaner[r].snap, V)
    /\ UNCHANGED <<clock, stored, created>>

\* The list is sorted by age, and excess = len(jobs) - max_size is read then:
\* the list may be older than the length.
CleanupChoose(r) ==
    /\ cleaner[r].pc = "scan"
    /\ \E V \in SUBSET Prunable(r) :
        /\ OldestOf(V, Prunable(r), Cardinality(stored) - MaxJobs)
        /\ CleanerGoto(r, "pop", cleaner[r].snap, V)
    /\ UNCHANGED <<clock, stored, created>>

\* pop(jid, None): of an entry that is gone by now, nothing.
CleanupPop(r) ==
    /\ cleaner[r].pc = "pop"
    /\ stored' = stored \ cleaner[r].victims
    /\ CleanerGoto(r, "clean", {}, {})
    /\ UNCHANGED <<clock, created>>

-----------------------------------------------------------------------------
(* What a handler does with the clean dict                                 *)

\* build_initial_job_meta or build_upload_job_meta reads the time ...
Stamp(r) ==
    /\ cleaner[r].pc = "clean"
    /\ cleaner[r].handler \in Submitter
    /\ created' = [created EXCEPT ![cleaner[r].own] = clock]
    /\ CleanerGoto(r, "stamped", {}, {})
    /\ UNCHANGED <<clock, stored>>

\* ... and analysis_jobs[job_id] = {..., "created_at": now} follows: others may
\* have inserted younger entries, and listed them, by then.
Insert(r) ==
    /\ cleaner[r].pc = "stamped"
    /\ stored' = stored \cup {cleaner[r].own}
    /\ CleanerLeaves(r)
    /\ UNCHANGED <<clock, created>>

\* analysis_jobs.get(job_id) of get_analysis_status
Get(r) ==
    /\ cleaner[r].pc = "clean"
    /\ cleaner[r].handler = "get_analysis_status"
    /\ CleanerLeaves(r)
    /\ UNCHANGED <<clock, stored, created>>

StoreTick ==
    /\ clock < MaxClock
    /\ clock' = clock + 1
    /\ UNCHANGED <<stored, created, cleaner>>

Clean(r) == CleanupCap(r) \/ CleanupRaises(r) \/ CleanupChoose(r) \/ CleanupPop(r)

-----------------------------------------------------------------------------
(* The store on its own.  make_job_id never repeats an id; here an id that *)
(* nothing remembers any more stands for a new one, so that a few of them  *)
(* are enough for runs of any length.                                      *)

Forgotten(j) ==
    /\ j \notin stored
    /\ \A r \in Request : cleaner[r].own # j /\ j \notin cleaner[r].snap

Submit(r) == \E j \in Job, h \in Submitter : Forgotten(j) /\ CleanupTtl(r, h, j)

\* A status request is for any id, also of an entry that is gone.
Poll(r) == \E j \in Job : CleanupTtl(r, "get_analysis_status", j)

StoreNext ==
    \/ StoreTick
    \/ \E r \in Request :
        Submit(r) \/ Poll(r) \/ Clean(r) \/ Stamp(r) \/ Insert(r) \/ Get(r)

StoreSpec == StoreInit /\ [][StoreNext]_storeVars

-----------------------------------------------------------------------------

\* Requests that clean up at the same time may overshoot the cap, and only by
\* a number that their number bounds, however long the server runs.  One below
\* twice that number: a request's insertion, and the eviction it believed to
\* make room although another request had already popped its victims.
StoreBounded == Cardinality(stored) <= MaxJobs + 2 * Cardinality(Request) - 1

\* The clean-ups evict from the oldest entry on, as far as they know the dict.
\* An entry is overtaken when a younger one is dropped and it stays, other than
\* because the request protects it.  It is then one that the request had not
\* listed: a handler had stamped it before and inserted it after that.  However
\* long a clean-up's list lies and whatever the others do in the meantime, there
\* are fewer such entries than requests.
OldestFirst ==
    [][\A r \in Request : cleaner'[r] # cleaner[r] =>
         LET overtaken == {k \in stored \cap stored' :
                             /\ k # cleaner'[r].own
                             /\ \E j \in stored \ stored' : created[k] < created[j]}
         IN  /\ overtaken \cap cleaner[r].snap = {}
             /\ Cardinality(overtaken) < Cardinality(Request)]_storeVars

\* "The request that looks a job up does not lose it": from a status request's
\* clean-up to its get(), the entry it asks for stays in the dict.
LookupKeepsItsJob ==
    [][\A r \in Request :
         /\ cleaner[r].pc # "idle"
         /\ cleaner[r].handler = "get_analysis_status"
         /\ cleaner[r].own \in stored
         => cleaner[r].own \in stored']_storeVars

=============================================================================
