---------------------------- MODULE JobLifecycle ----------------------------
(***************************************************************************)
(* What the analysis service promises to the client of a job, whichever    *)
(* backend runs it (memory or Celery), with no mention of threads, of the  *)
(* clean-up of the store, of the broker or of the order in which a worker  *)
(* writes its outcome down:                                                *)
(*                                                                         *)
(*   - a job is accepted once, then analysed, then has ONE verdict;        *)
(*   - the service may forget a job at any moment, and never takes a       *)
(*     forgotten job back;                                                 *)
(*   - a client that stops polling has learnt the verdict of its job.      *)
(***************************************************************************)

CONSTANT Job                    \* job ids (make_job_id)

VARIABLES
    phase,                      \* phase[j]: how far the work on j has come
    kept,                       \* the jobs the service still knows
    view                        \* view[j]: what the client of j shows

lifecycleVars == <<phase, kept, view>>

Verdict == {"completed", "failed"}
Phase   == {"absent", "queued", "analyzing"} \cup Verdict
View    == {"idle", "polling"} \cup Verdict

LifecycleInit ==
    /\ phase = [j \in Job |-> "absent"]
    /\ kept = {}
    /\ view = [j \in Job |-> "idle"]

-----------------------------------------------------------------------------

Accept(j) ==
    /\ phase[j] = "absent"
    /\ phase' = [phase EXCEPT ![j] = "queued"]
    /\ kept' = kept \cup {j}
    /\ UNCHANGED view

Begin(j) ==
    /\ j \in kept
    /\ phase[j] = "queued"
    /\ phase' = [phase EXCEPT ![j] = "analyzing"]
    /\ UNCHANGED <<kept, view>>

Conclude(j) ==
    /\ j \in kept
    /\ phase[j] = "analyzing"
    /\ \E v \in Verdict : phase' = [phase EXCEPT ![j] = v]
    /\ UNCHANGED <<kept, view>>

Forget ==
    /\ kept' \subseteq kept
    /\ UNCHANGED <<phase, view>>

Watch(j) ==
    /\ phase[j] # "absent"
    /\ view[j] = "idle"
    /\ view' = [view EXCEPT ![j] = "polling"]
    /\ UNCHANGED <<phase, kept>>

Learn(j) ==
    /\ phase[j] \in Verdict
    /\ view[j] = "polling"
    /\ view' = [view EXCEPT ![j] = phase[j]]
    /\ UNCHANGED <<phase, kept>>

LifecycleNext ==
    \/ Forget
    \/ \E j \in Job :
        Accept(j) \/ Begin(j) \/ Conclude(j) \/ Watch(j) \/ Learn(j)

LifecycleSpec == LifecycleInit /\ [][LifecycleNext]_lifecycleVars

=============================================================================
