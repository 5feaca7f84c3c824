--------------------------- MODULE CeleryDetector ---------------------------
(***************************************************************************)
(* The lazy detection of Celery: _ensure_celery_initialized() of           *)
(* api/routers/analyze.py on top of is_celery_available() of               *)
(* api/services/celery_detector.py.                                        *)
(*                                                                         *)
(* Both keep their verdict in a module global (None until it is known),    *)
(* and both are called from `def` handlers, so from several threads of the *)
(* server at a time.  There is no lock: every read and every assignment of *)
(* a global is a step of its own.                                          *)
(***************************************************************************)
EXTENDS Naturals, FiniteSets

CONSTANTS
    Caller,         \* threads that run handlers
    MaxFlips        \* bound of the model: how often Redis comes or goes

ASSUME DetectorAssumption == MaxFlips \in Nat

VARIABLES
    redis,          \* whether Redis accepts a connection
    flips,          \* how often that has changed
    known,          \* celery_detector._USE_CELERY
    handles,        \* celery_detector._celery_app and ._run_analysis_task
    use,            \* analyze._USE_CELERY
    task,           \* analyze._celery and .run_analysis_task
    pc,             \* pc[c]: where thread c stands in its call
    answers         \* the answers that calls have returned so far

vars == <<redis, flips, known, handles, use, task, pc, answers>>

Verdict == {"none", "yes", "no"}        \* None, True, False
Global  == {"None", "set"}              \* a handle

Detecting == {"detect", "probe", "found", "confirm", "missing", "return"}
Syncing   == {"take", "accept", "refuse", "answer"}

TypeOK ==
    /\ redis \in BOOLEAN
    /\ flips \in 0..MaxFlips
    /\ known \in Verdict /\ use \in Verdict
    /\ handles \in Global /\ task \in Global
    /\ pc \in [Caller -> {"idle"} \cup Detecting \cup Syncing]
    /\ answers \subseteq Verdict

Init ==
    /\ redis \in BOOLEAN
    /\ flips = 0
    /\ known = "none" /\ use = "none"
    /\ handles = "None" /\ task = "None"
    /\ pc = [c \in Caller |-> "idle"]
    /\ answers = {}

Goto(c, l) == pc' = [pc EXCEPT ![c] = l]

Step(c, from, to) == pc[c] = from /\ Goto(c, to)

-----------------------------------------------------------------------------
(* _ensure_celery_initialized(), up to the call of the detector            *)

\* Mutant of Call: a verdict of False is not kept.
CallAgain(c) ==
    /\ pc[c] = "idle"
    /\ IF use # "yes"
       THEN Goto(c, "detect") /\ UNCHANGED answers
       ELSE answers' = answers \cup {use} /\ UNCHANGED pc
    /\ UNCHANGED <<redis, flips, known, handles, use, task>>

Call(c) ==
    /\ pc[c] = "idle"
    /\ IF use = "none"
       THEN Goto(c, "detect") /\ UNCHANGED answers
       ELSE answers' = answers \cup {use} /\ UNCHANGED pc
    /\ UNCHANGED <<redis, flips, known, handles, use, task>>

-----------------------------------------------------------------------------
(* is_celery_available()                                                   *)

\* Mutant of CheckKnown: False is cached while the probe is under way.
CheckPessimistically(c) ==
    /\ pc[c] = "detect"
    /\ Goto(c, IF known = "none" THEN "probe" ELSE "return")
    /\ known' = IF known = "none" THEN "no" ELSE known
    /\ UNCHANGED <<redis, flips, handles, use, task, answers>>

CheckKnown(c) ==
    /\ pc[c] = "detect"
    /\ Goto(c, IF known = "none" THEN "probe" ELSE "return")
    /\ UNCHANGED <<redis, flips, known, handles, use, task, answers>>

\* Mutant of Probe: the verdict is cached before the handles.
ProbeAndConfirm(c) ==
    /\ Step(c, "probe", IF redis THEN "found" ELSE "missing")
    /\ known' = IF redis THEN "yes" ELSE known
    /\ UNCHANGED <<redis, flips, handles, use, task, answers>>

\* The imports and ensure_connection(max_retries=1, timeout=2).
Probe(c) ==
    /\ Step(c, "probe", IF redis THEN "found" ELSE "missing")
    /\ UNCHANGED <<redis, flips, known, handles, use, task, answers>>

\* _celery_app = ..., _run_analysis_task = ...
KeepHandles(c) ==
    /\ Step(c, "found", "confirm")
    /\ handles' = "set"
    /\ UNCHANGED <<redis, flips, known, use, task, answers>>

ConfirmKnown(c) ==
    /\ Step(c, "confirm", "return")
    /\ known' = "yes"
    /\ UNCHANGED <<redis, flips, handles, use, task, answers>>

\* except Exception: any failure is cached as False.
DenyKnown(c) ==
    /\ Step(c, "missing", "return")
    /\ known' = "no"
    /\ UNCHANGED <<redis, flips, handles, use, task, answers>>

\* return _USE_CELERY: the global is read once more.
ReturnKnown(c) ==
    /\ Step(c, "return", IF known = "yes" THEN "take" ELSE "refuse")
    /\ UNCHANGED <<redis, flips, known, handles, use, task, answers>>

-----------------------------------------------------------------------------
(* _ensure_celery_initialized(), after the call of the detector            *)

\* _celery = get_celery_app(), run_analysis_task = get_run_analysis_task()
TakeHandles(c) ==
    /\ Step(c, "take", "accept")
    /\ task' = handles
    /\ UNCHANGED <<redis, flips, known, handles, use, answers>>

AcceptCelery(c) ==
    /\ Step(c, "accept", "answer")
    /\ use' = "yes"
    /\ UNCHANGED <<redis, flips, known, handles, task, answers>>

RefuseCelery(c) ==
    /\ Step(c, "refuse", "answer")
    /\ use' = "no"
    /\ UNCHANGED <<redis, flips, known, handles, task, answers>>

\* return _USE_CELERY, once more read from the global.
Answer(c) ==
    /\ Step(c, "answer", "idle")
    /\ answers' = answers \cup {use}
    /\ UNCHANGED <<redis, flips, known, handles, use, task>>

-----------------------------------------------------------------------------

\* Redis comes or goes.
FlipRedis ==
    /\ flips < MaxFlips
    /\ flips' = flips + 1
    /\ redis' = ~redis
    /\ UNCHANGED <<known, handles, use, task, pc, answers>>

Next ==
    \/ FlipRedis
    \/ \E c \in Caller :
        \/ Call(c)
        \/ CheckKnown(c) \/ Probe(c) \/ KeepHandles(c) \/ ConfirmKnown(c)
        \/ DenyKnown(c) \/ ReturnKnown(c)
        \/ TakeHandles(c) \/ AcceptCelery(c) \/ RefuseCelery(c) \/ Answer(c)

Spec == Init /\ [][Next]_vars

-----------------------------------------------------------------------------

Quiet == \A c \in Caller : pc[c] = "idle"

\* A handler that was told that Celery is there finds the task to submit to:
\* however first calls overlap and Redis flaps, the router's verdict is True
\* only with its handles set, and no call returns None.
CelerySubmitsToTask ==
    /\ "none" \notin answers
    /\ "yes" \in answers \/ use = "yes" => task = "set"

\* While Redis neither comes nor goes, all calls agree: first calls that probe
\* at the same time do not send some jobs to Celery and others to memory.
AgreeWhileSteady == flips = 0 => Cardinality(answers) <= 1

\* Once a verdict is there and the calls that raced for it are over, it is
\* never revised: no later call probes Redis, whatever Redis does.
SettledForGood ==
    \A v \in {"yes", "no"} : [](Quiet /\ use = v => [](use = v))

=============================================================================
