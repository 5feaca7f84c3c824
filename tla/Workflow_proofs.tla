--------------------------- MODULE Workflow_proofs ---------------------------
(***************************************************************************)
(* Proofs about Workflow, for any number of pushes, any page size of       *)
(* GitHub, any threshold and any number of other comments.                 *)
(*                                                                         *)
(* The invariant Inv is inductive.  Its parts say what the files of a run  *)
(* tell at each of its steps, that a run whose result is in a comment is   *)
(* over, and, until something troubles it, that a run which is about to    *)
(* write a comment is alone and knows of every comment of Dallo.           *)
(***************************************************************************)
EXTENDS Workflow, FiniteSetTheorems, WellFoundedInduction, TLAPS

Late == {"tests", "gate", "list", "update", "create", "passed", "blocked", "failed"}
Past == {"list", "update", "create", "passed"}

\* What the files of a run say: there is a full result only of severe findings,
\* and of all those that a scan has seen; once the tests are over the report is
\* that of their fixture.
FilesTell ==
    \A n \in Run :
        /\ step[n] \in {"none", "bandit", "analyze"} => n \notin scanned
        /\ step[n] \in {"gate", "list", "update", "create"} => report[n] = "fixture"
        /\ n \in scanned => (n \in full <=> code[n].high > 0)
        /\ n \in full => n \in scanned

\* The result in a comment is that of a run that is over.
ShownAreOver ==
    \A i \in DOMAIN comments :
        comments[i].of \in Run => step[comments[i].of] \in {"passed", "failed"}

\* What SevereAreShown says of comment c.
Tells(c) ==
    IF c.says = "findings"
    THEN code[c.of].high \in 1..(Threshold - 1)
    ELSE code[c.of].high = 0 \/ c.of \notin scanned

FoundAreThere == \A n \in Run : found[n] \subseteq DOMAIN comments

OfDallo == {i \in DOMAIN comments : comments[i].by = "dallo"}

Titled == \A i \in OfDallo : comments[i].marked

Alone ==
    ~troubled =>
        /\ \A i, k \in OfDallo : i = k
        /\ \A m, n \in Run : Commenting(m) /\ Commenting(n) => m = n
        /\ \A n \in Run : step[n] = "create" => \A i \in DOMAIN comments : ~comments[i].marked

Inv == /\ TypeOK /\ FilesTell /\ ShownAreOver /\ FoundAreThere /\ Titled /\ Alone
       /\ SevereAreShown /\ GateHolds /\ PassedIsShown

USE WorkflowAssumption DEF Run

LEMMA InitInv == Init => Inv
<1> SUFFICES ASSUME Init PROVE Inv
  OBVIOUS
<1>1. TypeOK
  <2>1. [high |-> 0, low |-> FALSE] \in Code
    BY DEF Code
  <2>2. comments \in Seq(Comment)
    BY DEF Init
  <2> QED
    BY <2>1, <2>2 DEF Init, TypeOK
<1>2. FilesTell
  BY DEF Init, FilesTell
<1>3. DOMAIN comments = {} /\ ShownAreOver /\ FoundAreThere /\ Titled
  BY DEF Init, ShownAreOver, FoundAreThere, Titled, OfDallo
<1>4. Alone
  BY <1>3 DEF Init, Alone, OfDallo, Commenting
<1>5. SevereAreShown /\ GateHolds /\ PassedIsShown
  BY <1>3 DEF Init, SevereAreShown, GateHolds, PassedIsShown
<1> QED
  BY <1>1, <1>2, <1>3, <1>4, <1>5 DEF Inv

-----------------------------------------------------------------------------
(* Steps that write no comment                                             *)

StepName == {"none", "bandit", "analyze", "tests", "gate", "list", "update", "create",
             "passed", "blocked", "failed"}

LEMMA GotoFacts ==
    ASSUME Inv, NEW n \in Run, NEW l \in StepName, Goto(n, l)
    PROVE  /\ step' \in [Run -> StepName]
           /\ step'[n] = l
           /\ \A m \in Run \ {n} : step'[m] = step[m]
BY DEF Goto, Inv, TypeOK, StepName

\* A step of run n that goes on to l and does not touch the comments; the files
\* of n are as FilesTell has them afterwards.
LEMMA QuietStep ==
    ASSUME Inv, NEW n \in Run, NEW l \in StepName \ {"update", "create", "passed"},
           Goto(n, l), step[n] \notin {"passed", "failed"},
           UNCHANGED <<found, comments, troubled>>,
           TypeOK', FilesTell',
           \A m \in Run \ {n} : code'[m] = code[m] /\ (m \in scanned' <=> m \in scanned),
           l = "blocked" => code'[n].high >= Threshold,
           l = "list" /\ n \in scanned' => code'[n].high < Threshold
    PROVE  Inv'
<1>1. step'[n] = l /\ \A m \in Run \ {n} : step'[m] = step[m]
  BY GotoFacts
<1>2. ShownAreOver'
  BY <1>1 DEF Inv, ShownAreOver
<1>3. FoundAreThere' /\ Titled'
  BY DEF Inv, FoundAreThere, Titled, OfDallo
<1>4. Alone'
  <2>1. OfDallo' = OfDallo
    BY DEF OfDallo
  <2>2. \A m \in Run : /\ step'[m] \in {"update", "create"} => step[m] \in {"update", "create"}
                       /\ step'[m] = "create" => step[m] = "create"
    BY <1>1
  <2>3. \A m \in Run : Commenting(m)' => Commenting(m)
    BY <2>2 DEF Commenting
  <2> QED
    BY <2>1, <2>2, <2>3 DEF Inv, Alone
<1>5. SevereAreShown'
  <2> SUFFICES ASSUME NEW i \in DOMAIN comments, comments[i].of \in Run
               PROVE  Tells(comments[i])'
    BY DEF SevereAreShown, Tells
  <2>1. comments[i].of # n
    BY DEF Inv, ShownAreOver
  <2>2. Tells(comments[i])
    BY DEF Inv, SevereAreShown, Tells
  <2> QED
    BY <2>1, <2>2 DEF Tells
<1>6. GateHolds'
  <2> SUFFICES ASSUME NEW m \in Run
               PROVE  /\ step'[m] = "blocked" => code'[m].high >= Threshold
                      /\ /\ step'[m] \in {"list", "update", "create", "passed"}
                         /\ m \in scanned'
                         => code'[m].high < Threshold
    BY DEF GateHolds
  <2>1. CASE m = n
    BY <1>1, <2>1
  <2>2. CASE m # n
    BY <1>1, <2>2 DEF Inv, GateHolds
  <2> QED
    BY <2>1, <2>2
<1>7. PassedIsShown'
  BY <1>1 DEF Inv, PassedIsShown
<1> QED
  BY <1>2, <1>3, <1>4, <1>5, <1>6, <1>7 DEF Inv

LEMMA PushInv == ASSUME Inv, NEW n \in Run, Push(n) PROVE Inv'
<1>1. PICK c \in Code : code' = [code EXCEPT ![n] = c]
  BY DEF Push
<1>2. /\ step[n] = "none" /\ Goto(n, "bandit")
      /\ UNCHANGED <<report, full, scanned, found, comments, troubled>>
  BY DEF Push
<1>3. /\ step' \in [Run -> StepName] /\ step'[n] = "bandit"
      /\ \A m \in Run \ {n} : step'[m] = step[m]
  BY <1>2, GotoFacts DEF StepName
<1>4. /\ code' \in [Run -> Code]
      /\ \A m \in Run \ {n} : code'[m] = code[m]
  BY <1>1 DEF Inv, TypeOK
<1>5. TypeOK'
  BY <1>2, <1>3, <1>4 DEF Inv, TypeOK, StepName
<1>6. FilesTell'
  BY <1>2, <1>3, <1>4 DEF Inv, FilesTell
<1> QED
  BY <1>2, <1>4, <1>5, <1>6, QuietStep DEF StepName

\* A step of run n before its gate, which may write its report.
LEMMA ReportStep ==
    ASSUME Inv, NEW n \in Run, NEW l \in {"analyze", "gate"}, Goto(n, l),
           step[n] = IF l = "analyze" THEN "bandit" ELSE "tests",
           NEW r \in {"empty", "findings", "fixture"}, report' = [report EXCEPT ![n] = r],
           l = "gate" => r = "fixture",
           UNCHANGED <<code, full, scanned, found, comments, troubled>>
    PROVE  Inv'
<1>1. /\ step' \in [Run -> StepName] /\ step'[n] = l
      /\ \A m \in Run \ {n} : step'[m] = step[m]
  BY GotoFacts DEF StepName
<1>2. /\ report' \in [Run -> {"none", "empty", "findings", "fixture"}]
      /\ report'[n] = r
      /\ \A m \in Run \ {n} : report'[m] = report[m]
  BY DEF Inv, TypeOK
<1>3. TypeOK'
  BY <1>1, <1>2 DEF Inv, TypeOK, StepName
<1>4. FilesTell'
  BY <1>1, <1>2, SMTT(30) DEF Inv, FilesTell
<1> QED
  BY <1>3, <1>4, QuietStep DEF StepName

LEMMA BanditInv == ASSUME Inv, NEW n \in Run, RunBandit(n) PROVE Inv'
<1>1. PICK r \in {ReportOf(n), "empty"} : report' = [report EXCEPT ![n] = r]
  BY DEF RunBandit
<1>2. r \in {"empty", "findings"}
  BY <1>1 DEF ReportOf
<1> QED
  BY <1>1, <1>2, ReportStep DEF RunBandit

LEMMA TestsInv == ASSUME Inv, NEW n \in Run, RunTests(n) PROVE Inv'
BY ReportStep DEF RunTests

LEMMA AnalysisInv == ASSUME Inv, NEW n \in Run, RunAnalysis(n) PROVE Inv'
<1>1. /\ step[n] = "analyze" /\ Goto(n, "tests")
      /\ UNCHANGED <<code, found, comments, troubled>>
  BY DEF RunAnalysis
<1>2. /\ step' \in [Run -> StepName] /\ step'[n] = "tests"
      /\ \A m \in Run \ {n} : step'[m] = step[m]
  BY <1>1, GotoFacts DEF StepName
<1>3. code[n] \in Code /\ code[n].high \in Nat
  BY DEF Inv, TypeOK, Code
<1>4. n \notin scanned /\ n \notin full
  BY <1>1 DEF Inv, FilesTell
<1>5. \/ UNCHANGED <<report, scanned, full>>
      \/ /\ report' = [report EXCEPT ![n] = ReportOf(n)]
         /\ scanned' = scanned \cup {n}
         /\ full' = IF code[n].high > 0 THEN full \cup {n} ELSE full
  BY DEF RunAnalysis
<1>6. /\ report' \in [Run -> {"none", "empty", "findings", "fixture"}]
      /\ \A m \in Run \ {n} : report'[m] = report[m]
  BY <1>5 DEF ReportOf, Inv, TypeOK
<1>7. /\ full' \subseteq Run /\ scanned' \subseteq Run
      /\ \A m \in Run \ {n} : (m \in scanned' <=> m \in scanned) /\ (m \in full' <=> m \in full)
      /\ n \in scanned' => (n \in full' <=> code[n].high > 0)
      /\ n \in full' => n \in scanned'
  BY <1>4, <1>5 DEF Inv, TypeOK
<1>8. TypeOK'
  BY <1>1, <1>2, <1>6, <1>7 DEF Inv, TypeOK, StepName
<1>9. FilesTell'
  BY <1>1, <1>2, <1>6, <1>7, SMTT(30) DEF Inv, FilesTell
<1> QED
  BY <1>1, <1>7, <1>8, <1>9, QuietStep DEF StepName

LEMMA GateInv == ASSUME Inv, NEW n \in Run, CheckGate(n) \/ Fail(n) PROVE Inv'
<1>1. UNCHANGED <<code, report, full, scanned, found, comments, troubled>>
  BY DEF CheckGate, Fail, resultVars
<1>2. code[n].high \in Nat
  BY DEF Inv, TypeOK, Code
<1>3. PICK l \in {"list", "blocked", "failed"} :
        /\ Goto(n, l) /\ step[n] \notin {"none", "passed", "failed"}
        /\ l \in {"list", "blocked"} => step[n] = "gate"
        /\ l = "blocked" => code[n].high >= Threshold
        /\ l = "list" => n \notin full \/ code[n].high < Threshold
  <2>1. CASE CheckGate(n)
    BY <1>2, <2>1 DEF CheckGate
  <2>2. CASE Fail(n)
    BY <2>2 DEF Fail
  <2> QED
    BY <2>1, <2>2
<1>4. /\ step' \in [Run -> StepName] /\ step'[n] = l
      /\ \A m \in Run \ {n} : step'[m] = step[m]
  BY <1>3, GotoFacts DEF StepName
<1>5. TypeOK'
  BY <1>1, <1>4 DEF Inv, TypeOK, StepName
<1>6. FilesTell'
  BY <1>1, <1>3, <1>4 DEF Inv, FilesTell
<1>7. l = "list" /\ n \in scanned' => code'[n].high < Threshold
  BY <1>1, <1>2, <1>3 DEF Inv, FilesTell
<1> QED
  BY <1>1, <1>3, <1>5, <1>6, <1>7, QuietStep DEF StepName

LEMMA DiscussInv == ASSUME Inv, Discuss PROVE Inv'
<1>1. UNCHANGED <<step, code, report, full, scanned, found, troubled>>
  BY DEF Discuss, resultVars
<1>2. PICK c : /\ c.by = "person" /\ c.of = 0 /\ c \in Comment
               /\ c.marked => \E i \in DOMAIN comments : comments[i].marked
               /\ comments' = Append(comments, c)
  <2>1. PICK quotes \in BOOLEAN :
           /\ quotes => \E i \in DOMAIN comments : comments[i].marked
           /\ comments' = Append(comments, [by |-> "person", marked |-> quotes, of |-> 0,
                                            says |-> "other", had |-> {}])
    BY DEF Discuss
  <2> DEFINE c == [by |-> "person", marked |-> quotes, of |-> 0, says |-> "other", had |-> {}]
  <2>2. c \in Comment /\ c.by = "person" /\ c.of = 0 /\ c.marked = quotes
    BY DEF Comment
  <2> HIDE DEF c
  <2> QED
    BY <2>1, <2>2 DEF c
<1>3. /\ comments \in Seq(Comment) /\ comments' \in Seq(Comment)
      /\ DOMAIN comments' = DOMAIN comments \cup {Len(comments) + 1}
      /\ Len(comments) + 1 \notin DOMAIN comments
      /\ comments'[Len(comments) + 1] = c
      /\ \A i \in DOMAIN comments : comments'[i] = comments[i]
  BY <1>2 DEF Inv, TypeOK
<1>4. TypeOK'
  BY <1>1, <1>3 DEF Inv, TypeOK
<1>5. FilesTell' /\ GateHolds'
  BY <1>1 DEF Inv, FilesTell, GateHolds
<1>6. ShownAreOver' /\ SevereAreShown'
  <2> SUFFICES ASSUME NEW i \in DOMAIN comments', comments'[i].of \in Run
               PROVE  /\ step[comments'[i].of] \in {"passed", "failed"}
                      /\ Tells(comments'[i])
    BY <1>1 DEF ShownAreOver, SevereAreShown, Tells
  <2>1. i \in DOMAIN comments /\ comments'[i] = comments[i]
    BY <1>2, <1>3
  <2> QED
    BY <2>1 DEF Inv, ShownAreOver, SevereAreShown, Tells
<1>7. FoundAreThere'
  BY <1>1, <1>3 DEF Inv, FoundAreThere
<1>8. OfDallo' = OfDallo
  BY <1>2, <1>3 DEF OfDallo
<1>9. Titled'
  BY <1>3, <1>8 DEF Inv, Titled, OfDallo
<1>10. Alone'
  <2> SUFFICES ASSUME ~troubled PROVE Alone'
    BY <1>1 DEF Alone
  <2>1. \A m, n \in Run : Commenting(m)' /\ Commenting(n)' => m = n
    BY <1>1 DEF Inv, Alone, Commenting
  <2>2. \A n \in Run : step'[n] = "create" =>
            \A i \in DOMAIN comments' : ~comments'[i].marked
    BY <1>1, <1>2, <1>3 DEF Inv, Alone
  <2> QED
    BY <1>8, <2>1, <2>2 DEF Inv, Alone
<1>11. PassedIsShown'
  BY <1>1, <1>3 DEF Inv, PassedIsShown
<1> QED
  BY <1>4, <1>5, <1>6, <1>7, <1>9, <1>10, <1>11 DEF Inv

-----------------------------------------------------------------------------
(* post_pr_comment.py                                                      *)

LEMMA ListInv == ASSUME Inv, NEW n \in Run, ListComments(n) PROVE Inv'
<1> DEFINE marked == {i \in DOMAIN comments : comments[i].marked}
           page   == marked \cap 1..PageSize
<1>1. step[n] = "list" /\ UNCHANGED <<code, report, full, scanned, comments>>
  BY DEF ListComments, resultVars
<1>2. PICK l \in {"update", "create"} :
        /\ Goto(n, l)
        /\ \/ /\ found' = [found EXCEPT ![n] = page]
              /\ l = "create" <=> page = {}
              /\ troubled' = (troubled \/ marked # page \/ \E m \in Run : Commenting(m))
           \/ l = "create" /\ troubled' = TRUE /\ found' = found
  <2>1. CASE /\ found' = [found EXCEPT ![n] = page]
             /\ Goto(n, IF page = {} THEN "create" ELSE "update")
             /\ troubled' = (troubled \/ marked # page \/ \E m \in Run : Commenting(m))
    <3>1. CASE page = {}
      BY <2>1, <3>1
    <3>2. CASE page # {}
      BY <2>1, <3>2
    <3> QED
      BY <3>1, <3>2
  <2>2. CASE Goto(n, "create") /\ troubled' = TRUE /\ found' = found
    BY <2>2
  <2> QED
    BY <2>1, <2>2 DEF ListComments
<1>3. /\ step' \in [Run -> StepName] /\ step'[n] = l
      /\ \A m \in Run \ {n} : step'[m] = step[m]
  BY <1>2, GotoFacts DEF StepName
<1>4. /\ found' \in [Run -> SUBSET (1..PageSize)]
      /\ \A m \in Run \ {n} : found'[m] = found[m]
      /\ l = "update" => found'[n] # {}
      /\ found'[n] \subseteq DOMAIN comments
  <2>1. CASE found' = [found EXCEPT ![n] = page] /\ (l = "create" <=> page = {})
    BY <2>1 DEF Inv, TypeOK
  <2>2. CASE l = "create" /\ found' = found
    BY <2>2 DEF Inv, TypeOK, FoundAreThere
  <2> QED
    BY <1>2, <2>1, <2>2
<1>5. troubled' \in BOOLEAN
  BY <1>2
<1>6. TypeOK'
  BY <1>1, <1>3, <1>4, <1>5 DEF Inv, TypeOK, StepName
<1>7. FilesTell'
  <2>1. report[n] = "fixture"
    BY <1>1 DEF Inv, FilesTell
  <2> QED
    BY <1>1, <1>3, <2>1 DEF Inv, FilesTell
<1>8. ShownAreOver' /\ SevereAreShown'
  BY <1>1, <1>3 DEF Inv, ShownAreOver, SevereAreShown
<1>9. FoundAreThere'
  BY <1>1, <1>4 DEF Inv, FoundAreThere
<1>10. Titled' /\ OfDallo' = OfDallo
  BY <1>1 DEF Inv, Titled, OfDallo
<1>11. Alone'
  <2> SUFFICES ASSUME ~troubled' PROVE Alone'
    BY DEF Alone
  <2>1. ~troubled /\ marked = page /\ (l = "create" <=> page = {})
        /\ ~\E m \in Run : Commenting(m)
    BY <1>2
  <2>2. \A m \in Run : Commenting(m)' => m = n
    BY <1>3, <2>1 DEF Commenting
  <2>3. \A m \in Run : step'[m] = "create" =>
            \A i \in DOMAIN comments' : ~comments'[i].marked
    <3> SUFFICES ASSUME NEW m \in Run, step'[m] = "create",
                        NEW i \in DOMAIN comments', comments'[i].marked
                 PROVE  FALSE
      OBVIOUS
    <3>1. m = n
      BY <2>2 DEF Commenting
    <3>2. page = {} /\ i \in marked
      BY <1>1, <1>3, <2>1, <3>1
    <3> QED
      BY <2>1, <3>2
  <2> QED
    BY <1>10, <2>1, <2>2, <2>3 DEF Inv, Alone
<1>12. GateHolds'
  <2> SUFFICES ASSUME NEW m \in Run
               PROVE  /\ step'[m] = "blocked" => code[m].high >= Threshold
                      /\ /\ step'[m] \in {"list", "update", "create", "passed"}
                         /\ m \in scanned
                         => code[m].high < Threshold
    BY <1>1 DEF GateHolds
  <2> QED
    BY <1>1, <1>3 DEF Inv, GateHolds
<1>13. PassedIsShown'
  BY <1>1, <1>3 DEF Inv, PassedIsShown
<1> QED
  BY <1>6, <1>7, <1>8, <1>9, <1>10, <1>11, <1>12, <1>13 DEF Inv

\* A result of run n in a comment that is, or is not, new.
LEMMA ShowsFacts ==
    ASSUME Inv, NEW n \in Run, step[n] \in {"update", "create"}, NEW c \in Comment
    PROVE  /\ Shows(c, n) \in Comment
           /\ Shows(c, n).by = c.by /\ Shows(c, n).marked = TRUE
           /\ Shows(c, n).of = n /\ Shows(c, n).says = Says(n)
           /\ Shows(c, n).had = c.had \cup {n}
<1>1. Says(n) \in {"clean", "findings", "fixture"} /\ n \in 0..Pushes
  BY DEF Says, Reported, Inv, FilesTell
<1> QED
  BY <1>1 DEF Shows, Comment

\* What the script says of a run that has come to its comment.
LEMMA SaysFacts ==
    ASSUME Inv, NEW n \in Run, step[n] \in {"update", "create"}
    PROVE  IF Says(n) = "findings"
           THEN code[n].high \in 1..(Threshold - 1)
           ELSE code[n].high = 0 \/ n \notin scanned
<1>1. code[n].high \in Nat
  BY DEF Inv, TypeOK, Code
<1>2. report[n] = "fixture" /\ (n \in scanned => code[n].high < Threshold)
  BY DEF Inv, FilesTell, GateHolds
<1>3. Says(n) = "findings" <=> n \in full
  BY <1>2 DEF Says, Reported
<1> QED
  BY <1>1, <1>2, <1>3 DEF Inv, FilesTell

\* Run n puts its result into comment k, which is new or one of those found.
LEMMA ResultShown ==
    ASSUME Inv, NEW n \in Run, step[n] \in {"update", "create"},
           NEW l \in {"passed", "failed"}, Goto(n, l),
           UNCHANGED <<resultVars, found, troubled>>,
           NEW k \in Nat, DOMAIN comments' = DOMAIN comments \cup {k},
           comments' \in Seq(Comment),
           \A i \in DOMAIN comments \ {k} : comments'[i] = comments[i],
           comments'[k].of = n, comments'[k].says = Says(n), n \in comments'[k].had,
           k \in DOMAIN comments => comments[k].had \subseteq comments'[k].had,
           Titled', ~troubled => \A i, m \in OfDallo' : i = m
    PROVE  Inv'
<1>1. UNCHANGED <<code, report, full, scanned>>
  BY DEF resultVars
<1>2. /\ step' \in [Run -> StepName] /\ step'[n] = l
      /\ \A m \in Run \ {n} : step'[m] = step[m]
  BY GotoFacts DEF StepName
<1>3. TypeOK'
  BY <1>1, <1>2 DEF Inv, TypeOK, StepName
<1>4. FilesTell'
  BY <1>1, <1>2 DEF Inv, FilesTell
<1>5. ShownAreOver' /\ SevereAreShown'
  <2> SUFFICES ASSUME NEW i \in DOMAIN comments', comments'[i].of \in Run
               PROVE  /\ step'[comments'[i].of] \in {"passed", "failed"}
                      /\ Tells(comments'[i])
    BY <1>1 DEF ShownAreOver, SevereAreShown, Tells
  <2>1. CASE i = k
    <3>1. Tells(comments'[k])
      BY SaysFacts DEF Tells
    <3> QED
      BY <1>2, <2>1, <3>1
  <2>2. CASE i # k
    <3>1. i \in DOMAIN comments /\ comments'[i] = comments[i]
      BY <2>2
    <3>2. step[comments[i].of] \in {"passed", "failed"} /\ Tells(comments[i])
      BY <3>1 DEF Inv, ShownAreOver, SevereAreShown, Tells
    <3> QED
      BY <1>2, <3>1, <3>2
  <2> QED
    BY <2>1, <2>2
<1>6. FoundAreThere'
  BY DEF Inv, FoundAreThere
<1>7. Alone'
  <2> SUFFICES ASSUME ~troubled PROVE Alone'
    BY DEF Alone
  <2>1. \A m \in Run : Commenting(m)' => m # n /\ Commenting(m)
    BY <1>2 DEF Commenting
  <2>2. \A m \in Run : ~Commenting(m)'
    BY <2>1 DEF Inv, Alone, Commenting
  <2>3. \A m \in Run : step'[m] # "create"
    BY <2>2 DEF Commenting
  <2> QED
    BY <2>2, <2>3 DEF Alone
<1>8. GateHolds'
  BY <1>1, <1>2 DEF Inv, GateHolds
<1>9. PassedIsShown'
  <2> SUFFICES ASSUME NEW m \in Run, step'[m] = "passed"
               PROVE  \E i \in DOMAIN comments' : m \in comments'[i].had
    BY DEF PassedIsShown
  <2>1. CASE m = n
    BY <2>1
  <2>2. CASE m # n
    <3>1. step[m] = "passed"
      BY <1>2, <2>2
    <3>2. PICK i \in DOMAIN comments : m \in comments[i].had
      BY <3>1 DEF Inv, PassedIsShown
    <3>3. m \in comments'[i].had
      BY <3>2
    <3> QED
      BY <3>3
  <2> QED
    BY <2>1, <2>2
<1> QED
  BY <1>3, <1>4, <1>5, <1>6, <1>7, <1>8, <1>9 DEF Inv

\* The comment that UpdateComment tries is one of those that were found.
LEMMA FirstFacts ==
    ASSUME Inv, NEW n \in Run, step[n] = "update"
    PROVE  First(n) \in found[n] /\ First(n) \in DOMAIN comments
<1>1. found[n] # {} /\ found[n] \subseteq 1..PageSize /\ found[n] \subseteq DOMAIN comments
  BY DEF Inv, TypeOK, FoundAreThere
<1>2. \E i \in found[n] : \A k \in found[n] : i <= k
  <2>1. found[n] \subseteq Nat
    BY <1>1
  <2>2. PICK z \in found[n] : \A k \in found[n] : ~(<<k, z>> \in OpToRel(<, Nat))
    BY <1>1, <2>1, NatLessThanWellFounded, WFMin, Zenon
  <2>3. \A k \in found[n] : ~(k < z)
    BY <2>1, <2>2, Zenon DEF OpToRel
  <2> QED
    BY <1>1, <2>3
<1> QED
  BY <1>1, <1>2 DEF First

LEMMA UpdateInv == ASSUME Inv, NEW n \in Run, UpdateComment(n) PROVE Inv'
<1> DEFINE k == First(n)
<1>1. step[n] = "update" /\ UNCHANGED resultVars
  BY DEF UpdateComment
<1>2. /\ k \in found[n] /\ k \in DOMAIN comments /\ k \in Nat
      /\ comments \in Seq(Comment) /\ comments[k] \in Comment
  <2>1. k \in found[n] /\ k \in DOMAIN comments
    BY <1>1, FirstFacts
  <2>2. comments \in Seq(Comment)
    BY DEF Inv, TypeOK
  <2> HIDE DEF k
  <2> QED
    BY <2>1, <2>2
<1>3. ASSUME comments' = [comments EXCEPT ![k] = Shows(comments[k], n)],
             NEW l \in {"passed", "failed"}, Goto(n, l), UNCHANGED <<found, troubled>>
      PROVE  Inv'
  <2> HIDE DEF k
  <2> DEFINE old == comments[k]
             c == Shows(old, n)
  <2>1. /\ old \in Comment /\ step[n] \in {"update", "create"}
        /\ comments' = [comments EXCEPT ![k] = c]
    BY <1>1, <1>2, <1>3
  <2> HIDE DEF old
  <2>2. /\ c \in Comment /\ c.by = old.by /\ c.marked = TRUE /\ c.of = n
        /\ c.says = Says(n) /\ c.had = old.had \cup {n}
    BY <2>1, ShowsFacts, ZenonT(30)
  <2> HIDE DEF c
  <2>3. /\ comments' \in Seq(Comment) /\ DOMAIN comments' = DOMAIN comments
        /\ comments'[k] = c
        /\ \A i \in DOMAIN comments \ {k} : comments'[i] = comments[i]
    BY <1>2, <2>1, <2>2
  <2>4. OfDallo' = OfDallo
    BY <1>2, <2>2, <2>3 DEF OfDallo, old
  <2>5. Titled'
    BY <2>2, <2>3, <2>4 DEF Inv, Titled, OfDallo
  <2>6. ~troubled => \A i, m \in OfDallo' : i = m
    BY <2>4 DEF Inv, Alone
  <2>7. DOMAIN comments' = DOMAIN comments \cup {k}
    BY <1>2, <2>3
  <2> QED
    BY <1>1, <1>2, <1>3, <2>2, <2>3, <2>5, <2>6, <2>7, ResultShown DEF old
<1>4. ASSUME found' = [found EXCEPT ![n] = found[n] \ {k}],
             NEW l \in {"create", "update"}, Goto(n, l),
             l = "create" <=> found[n] = {k},
             troubled' = TRUE, UNCHANGED comments
      PROVE  Inv'
  <2> HIDE DEF k
  <2>1. UNCHANGED <<code, report, full, scanned>>
    BY <1>1 DEF resultVars
  <2>2. /\ step' \in [Run -> StepName] /\ step'[n] = l
        /\ \A m \in Run \ {n} : step'[m] = step[m]
    BY <1>4, GotoFacts DEF StepName
  <2>3. /\ found' \in [Run -> SUBSET (1..PageSize)]
        /\ found'[n] = found[n] \ {k}
        /\ \A m \in Run \ {n} : found'[m] = found[m]
    BY <1>4 DEF Inv, TypeOK
  <2>4. \A m \in Run : step'[m] = "update" => found'[m] # {}
    BY <1>2, <1>4, <2>2, <2>3 DEF Inv, TypeOK
  <2>5. TypeOK'
    BY <1>4, <2>1, <2>2, <2>3, <2>4 DEF Inv, TypeOK, StepName
  <2>6. FilesTell' /\ GateHolds'
    BY <1>1, <2>1, <2>2 DEF Inv, FilesTell, GateHolds
  <2>7. ShownAreOver' /\ SevereAreShown'
    BY <1>1, <1>4, <2>1, <2>2 DEF Inv, ShownAreOver, SevereAreShown
  <2>8. FoundAreThere'
    BY <1>4, <2>3 DEF Inv, FoundAreThere
  <2>9. Titled' /\ Alone'
    BY <1>4 DEF Inv, Titled, OfDallo, Alone
  <2>10. PassedIsShown'
    BY <1>4, <2>2 DEF Inv, PassedIsShown
  <2> QED
    BY <2>5, <2>6, <2>7, <2>8, <2>9, <2>10 DEF Inv
<1>5. CASE /\ comments' = [comments EXCEPT ![First(n)] = Shows(comments[First(n)], n)]
           /\ \E l \in {"passed", "failed"} : Goto(n, l)
           /\ UNCHANGED <<found, troubled>>
  BY <1>3, <1>5
<1>6. CASE /\ found' = [found EXCEPT ![n] = found[n] \ {First(n)}]
           /\ Goto(n, IF found[n] = {First(n)} THEN "create" ELSE "update")
           /\ troubled' = TRUE
           /\ UNCHANGED comments
  <2>1. CASE found[n] = {First(n)}
    BY <1>4, <1>6, <2>1
  <2>2. CASE found[n] # {First(n)}
    BY <1>4, <1>6, <2>2
  <2> QED
    BY <2>1, <2>2
<1> HIDE DEF k
<1> QED
  BY <1>5, <1>6 DEF UpdateComment

LEMMA CreateInv == ASSUME Inv, NEW n \in Run, CreateComment(n) PROVE Inv'
<1> DEFINE new == [by |-> "dallo", marked |-> TRUE, of |-> n, says |-> "clean", had |-> {}]
           c == Shows(new, n)
           k == Len(comments) + 1
<1>1. /\ step[n] = "create" /\ UNCHANGED resultVars /\ UNCHANGED <<found, troubled>>
      /\ comments' = Append(comments, c)
  BY DEF CreateComment
<1>2. PICK l \in {"passed", "failed"} : Goto(n, l)
  BY DEF CreateComment
<1>3. new \in Comment /\ new.by = "dallo"
  BY DEF Comment
<1>4. /\ c \in Comment /\ c.by = "dallo" /\ c.marked = TRUE /\ c.of = n
      /\ c.says = Says(n) /\ n \in c.had
  <2>1. new.by = "dallo" /\ new \in Comment
    BY <1>3
  <2> HIDE DEF new
  <2>2. /\ c \in Comment /\ c.by = new.by /\ c.marked = TRUE /\ c.of = n
        /\ c.says = Says(n) /\ c.had = new.had \cup {n}
    BY <1>1, <2>1, ShowsFacts, ZenonT(30)
  <2> HIDE DEF c
  <2> QED
    BY <2>1, <2>2
<1> HIDE DEF c, new
<1>5. /\ k \in Nat /\ k \notin DOMAIN comments
      /\ comments' \in Seq(Comment) /\ DOMAIN comments' = DOMAIN comments \cup {k}
      /\ comments'[k] = c
      /\ \A i \in DOMAIN comments : comments'[i] = comments[i]
  BY <1>1, <1>4 DEF Inv, TypeOK
<1> HIDE DEF k
<1>6. OfDallo' = OfDallo \cup {k}
  BY <1>4, <1>5 DEF OfDallo
<1>7. Titled'
  BY <1>4, <1>5, <1>6 DEF Inv, Titled, OfDallo
<1>8. ~troubled => \A i, m \in OfDallo' : i = m
  <2>1. ASSUME ~troubled PROVE OfDallo = {}
    BY <1>1, <2>1 DEF Inv, Alone, Titled, OfDallo
  <2> QED
    BY <1>6, <2>1
<1> QED
  BY <1>1, <1>2, <1>4, <1>5, <1>7, <1>8, ResultShown

-----------------------------------------------------------------------------
(* The theorems                                                            *)

LEMMA InvStep == Inv /\ [Next]_vars => Inv'
<1> SUFFICES ASSUME Inv, [Next]_vars PROVE Inv'
  OBVIOUS
<1>1. CASE UNCHANGED vars
  <2>1. UNCHANGED <<step, code, report, full, scanned, found, comments, troubled>>
    BY <1>1 DEF vars, resultVars
  <2>2. TypeOK' /\ FilesTell' /\ ShownAreOver' /\ FoundAreThere' /\ Titled'
    BY <2>1 DEF Inv, TypeOK, FilesTell, ShownAreOver, FoundAreThere, Titled, OfDallo
  <2>3. Alone'
    BY <2>1 DEF Inv, Alone, OfDallo, Commenting
  <2>4. SevereAreShown' /\ GateHolds' /\ PassedIsShown'
    BY <2>1 DEF Inv, SevereAreShown, GateHolds, PassedIsShown
  <2> QED
    BY <2>2, <2>3, <2>4 DEF Inv
<1>2. ASSUME NEW n \in Run, Push(n) \/ Proceed(n) \/ Fail(n) PROVE Inv'
  BY <1>2, PushInv, BanditInv, AnalysisInv, TestsInv, GateInv, ListInv, UpdateInv, CreateInv
  DEF Proceed
<1> QED
  BY <1>1, <1>2, DiscussInv DEF Next

LEMMA Invariance == Spec => []Inv
BY InitInv, InvStep, PTL DEF Spec

\* The variables of the workflow always have their types.
THEOREM TypeCorrect == Spec => []TypeOK
<1>1. Inv => TypeOK
  BY DEF Inv
<1> QED
  BY <1>1, Invariance, PTL

\* A comment of post_pr_comment.py shows the severe findings of its push whenever
\* run_analysis.py has scanned it, although the tests replace Bandit's report.
THEOREM SevereAreShownAlways == Spec => []SevereAreShown
<1>1. Inv => SevereAreShown
  BY DEF Inv
<1> QED
  BY <1>1, Invariance, PTL

\* ci_gate.py blocks what its threshold asks it to, and lets nothing else pass
\* that run_analysis.py has scanned.
THEOREM GateHoldsAlways == Spec => []GateHolds
<1>1. Inv => GateHolds
  BY DEF Inv
<1> QED
  BY <1>1, Invariance, PTL

\* A run that passes has shown its result on the pull request.
THEOREM PassedIsShownAlways == Spec => []PassedIsShown
<1>1. Inv => PassedIsShown
  BY DEF Inv
<1> QED
  BY <1>1, Invariance, PTL

\* However many pushes and other comments there are, Dallo has one comment on a
\* pull request as long as nothing troubles its runs.
THEOREM OneCommentAlways == Spec => []OneComment
<1>1. Inv => OneComment
  <2> SUFFICES ASSUME Inv, ~troubled PROVE Cardinality(OfDallo) <= 1
    BY DEF OneComment, OfDallo
  <2>1. \A i, k \in OfDallo : i = k
    BY DEF Inv, Alone
  <2>2. CASE OfDallo = {}
    BY <2>2, FS_EmptySet
  <2>3. CASE OfDallo # {}
    <3>1. PICK i \in OfDallo : OfDallo = {i}
      BY <2>1, <2>3
    <3> QED
      BY <3>1, FS_Singleton
  <2> QED
    BY <2>2, <2>3
<1> QED
  BY <1>1, Invariance, PTL

=============================================================================
