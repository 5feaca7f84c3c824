------------------------ MODULE CeleryDetector_proofs ------------------------
(***************************************************************************)
(* Proofs about CeleryDetector, for any number of threads and any number   *)
(* of times that Redis comes or goes.                                      *)
(***************************************************************************)
EXTENDS CeleryDetector, FiniteSetTheorems, TLAPS

\* The handles are stored before the verdict, in the detector and then in the
\* router, and nothing ever takes them away again.
HandlesFirst ==
    /\ known = "yes" => handles = "set"
    /\ \A c \in Caller : pc[c] \in {"confirm", "take"} => handles = "set"
    /\ \A c \in Caller : pc[c] = "accept" => task = "set"

\* Who returns a verdict has written one before, and it is never reset.
VerdictThere ==
    /\ \A c \in Caller : pc[c] = "return" => known # "none"
    /\ \A c \in Caller : pc[c] = "answer" => use # "none"

Inv == TypeOK /\ HandlesFirst /\ VerdictThere /\ CelerySubmitsToTask

USE DEF Verdict, Global, Detecting, Syncing

LEMMA InitInv == Init => Inv
BY DetectorAssumption
DEF Init, Inv, TypeOK, HandlesFirst, VerdictThere, CelerySubmitsToTask

LEMMA CallerStep ==
    ASSUME Inv, NEW c \in Caller,
           \/ Call(c) \/ CheckKnown(c) \/ Probe(c) \/ KeepHandles(c)
           \/ ConfirmKnown(c) \/ DenyKnown(c) \/ ReturnKnown(c)
           \/ TakeHandles(c) \/ AcceptCelery(c) \/ RefuseCelery(c) \/ Answer(c)
    PROVE  Inv'
<1> USE DEF Inv, TypeOK, HandlesFirst, VerdictThere, CelerySubmitsToTask, Step, Goto
<1>1. CASE Call(c)
  BY <1>1 DEF Call
<1>2. CASE CheckKnown(c)
  BY <1>2 DEF CheckKnown
<1>3. CASE Probe(c)
  BY <1>3 DEF Probe
<1>4. CASE KeepHandles(c)
  BY <1>4 DEF KeepHandles
<1>5. CASE ConfirmKnown(c)
  BY <1>5 DEF ConfirmKnown
<1>6. CASE DenyKnown(c)
  BY <1>6 DEF DenyKnown
<1>7. CASE ReturnKnown(c)
  BY <1>7 DEF ReturnKnown
<1>8. CASE TakeHandles(c)
  BY <1>8 DEF TakeHandles
<1>9. CASE AcceptCelery(c)
  BY <1>9 DEF AcceptCelery
<1>10. CASE RefuseCelery(c)
  BY <1>10 DEF RefuseCelery
<1>11. CASE Answer(c)
  BY <1>11 DEF Answer
<1> QED
  BY <1>1, <1>2, <1>3, <1>4, <1>5, <1>6, <1>7, <1>8, <1>9, <1>10, <1>11

LEMMA InvStep == Inv /\ [Next]_vars => Inv'
<1> SUFFICES ASSUME Inv, [Next]_vars PROVE Inv'
  OBVIOUS
<1>1. CASE FlipRedis \/ UNCHANGED vars
  <2>1. UNCHANGED <<known, handles, use, task, pc, answers>>
    BY <1>1 DEF FlipRedis, vars
  <2>2. flips' \in 0..MaxFlips
    BY <1>1, DetectorAssumption DEF FlipRedis, vars, Inv, TypeOK
  <2>3. redis' \in BOOLEAN
    BY <1>1, Zenon DEF FlipRedis, vars, Inv, TypeOK
  <2> QED
    BY <2>1, <2>2, <2>3
    DEF Inv, TypeOK, HandlesFirst, VerdictThere, CelerySubmitsToTask
<1> QED
  BY <1>1, CallerStep DEF Next

\* All variables keep their types.
THEOREM TypeCorrect == Spec => []TypeOK
<1>1. Inv => TypeOK
  BY DEF Inv
<1> QED
  BY <1>1, InitInv, InvStep, PTL DEF Spec

\* A handler that is told that Celery is there finds the task to submit to,
\* and no call is answered None, however the first calls overlap.
THEOREM CelerySubmitsToTaskAlways == Spec => []CelerySubmitsToTask
<1>1. Inv => CelerySubmitsToTask
  BY DEF Inv
<1> QED
  BY <1>1, InitInv, InvStep, PTL DEF Spec

-----------------------------------------------------------------------------
(* Agreement                                                               *)

\* What a probe finds at present.
Finding == IF redis THEN "yes" ELSE "no"

\* Before Redis has ever come or gone, whoever is past a probe has found what
\* is the case, and the verdicts that are there say so.
Steady ==
    /\ known \in {"none", Finding} /\ use \in {"none", Finding}
    /\ answers \subseteq {Finding}
    /\ \A c \in Caller : /\ pc[c] \in {"found", "confirm", "take", "accept"} => Finding = "yes"
                         /\ pc[c] \in {"missing", "refuse"} => Finding = "no"

SteadyInv == flips = 0 => Steady

LEMMA SteadyCaller ==
    ASSUME Inv, SteadyInv, NEW c \in Caller,
           \/ Call(c) \/ CheckKnown(c) \/ Probe(c) \/ KeepHandles(c)
           \/ ConfirmKnown(c) \/ DenyKnown(c) \/ ReturnKnown(c)
           \/ TakeHandles(c) \/ AcceptCelery(c) \/ RefuseCelery(c) \/ Answer(c)
    PROVE  SteadyInv'
<1>1. flips' = flips /\ Finding' = Finding
  BY DEF Call, CheckKnown, Probe, KeepHandles, ConfirmKnown, DenyKnown, ReturnKnown,
         TakeHandles, AcceptCelery, RefuseCelery, Answer, Finding
<1> SUFFICES ASSUME flips = 0 PROVE Steady'
  BY <1>1 DEF SteadyInv
<1> USE <1>1 DEF Inv, TypeOK, VerdictThere, SteadyInv, Steady, Step, Goto
<1>2. CASE Call(c)
  BY <1>2 DEF Call
<1>3. CASE CheckKnown(c) \/ KeepHandles(c)
  BY <1>3 DEF CheckKnown, KeepHandles
<1>8. CASE Probe(c)
  <2>1. pc' = [pc EXCEPT ![c] = IF Finding = "yes" THEN "found" ELSE "missing"]
    BY <1>8 DEF Probe, Finding
  <2>2. Finding \in {"yes", "no"}
    BY DEF Finding
  <2> QED
    BY <1>8, <2>1, <2>2 DEF Probe
<1>4. CASE ConfirmKnown(c) \/ DenyKnown(c)
  BY <1>4 DEF ConfirmKnown, DenyKnown
<1>5. CASE ReturnKnown(c)
  <2>1. known = Finding /\ Finding \in {"yes", "no"}
    BY <1>5 DEF ReturnKnown, Finding
  <2> QED
    BY <1>5, <2>1 DEF ReturnKnown
<1>6. CASE TakeHandles(c) \/ AcceptCelery(c) \/ RefuseCelery(c)
  BY <1>6 DEF TakeHandles, AcceptCelery, RefuseCelery
<1>7. CASE Answer(c)
  BY <1>7 DEF Answer
<1> QED
  BY <1>2, <1>3, <1>8, <1>4, <1>5, <1>6, <1>7

LEMMA SteadyStep == Inv /\ SteadyInv /\ [Next]_vars => SteadyInv'
<1> SUFFICES ASSUME Inv, SteadyInv, [Next]_vars PROVE SteadyInv'
  OBVIOUS
<1>1. CASE FlipRedis
  <2>1. flips' # 0
    BY <1>1 DEF FlipRedis, Inv, TypeOK
  <2> QED
    BY <2>1 DEF SteadyInv
<1>2. CASE UNCHANGED vars
  BY <1>2 DEF vars, SteadyInv, Steady, Finding
<1> QED
  BY <1>1, <1>2, SteadyCaller DEF Next

\* As long as Redis neither comes nor goes, all calls agree, however many
\* threads probe it at the same time.
THEOREM AgreeWhileSteadyAlways == Spec => []AgreeWhileSteady
<1>1. Init => SteadyInv
  BY DEF Init, SteadyInv, Steady, Finding
<1>2. Inv /\ SteadyInv => AgreeWhileSteady
  <2> SUFFICES ASSUME answers \subseteq {Finding} PROVE Cardinality(answers) <= 1
    BY DEF SteadyInv, Steady, AgreeWhileSteady
  <2>1. IsFiniteSet({Finding}) /\ Cardinality({Finding}) = 1
    BY FS_Singleton
  <2>2. IsFiniteSet(answers) /\ Cardinality(answers) <= Cardinality({Finding})
    BY <2>1, FS_Subset
  <2> QED
    BY <2>1, <2>2
<1> QED
  BY <1>1, <1>2, InitInv, InvStep, SteadyStep, PTL DEF Spec

-----------------------------------------------------------------------------

\* When no call is under way, a verdict that is there stays, and no call
\* begins to detect anything.
LEMMA SettledStep ==
    ASSUME NEW v \in {"yes", "no"}, Inv, Quiet, use = v, [Next]_vars
    PROVE  (Quiet /\ use = v)'
<1>1. CASE FlipRedis \/ UNCHANGED vars
  BY <1>1 DEF FlipRedis, vars, Quiet
<1>2. ASSUME NEW c \in Caller, Call(c)
      PROVE  (Quiet /\ use = v)'
  BY <1>2 DEF Call, Quiet
<1>3. \A c \in Caller : pc[c] = "idle"
  BY DEF Quiet
<1> QED
  BY <1>1, <1>2, <1>3
  DEF Next, CheckKnown, Probe, KeepHandles, ConfirmKnown, DenyKnown, ReturnKnown,
      TakeHandles, AcceptCelery, RefuseCelery, Answer, Step

\* The verdict is never revised once the calls that raced for it are over.
THEOREM SettledForGoodAlways == Spec => SettledForGood
<1> SUFFICES ASSUME NEW v \in {"yes", "no"}
             PROVE  Spec => [](Quiet /\ use = v => [](use = v))
  BY DEF SettledForGood
<1>1. Inv /\ Quiet /\ use = v /\ [Next]_vars => (Quiet /\ use = v)'
  BY SettledStep
<1> QED
  BY <1>1, InitInv, InvStep, PTL DEF Spec

=============================================================================
