------------------------------ MODULE Workflow ------------------------------
(***************************************************************************)
(* The GitHub workflow that analyses a pull request                        *)
(* (.github/workflows/security-analysis.yml): Bandit, the script           *)
(* run_analysis.py, the tests, the gate ci_gate.py and post_pr_comment.py, *)
(* which talks to GitHub through github_pr_comment_adapter.py.             *)
(*                                                                         *)
(* The steps of one run hand results on in two files of its own workspace, *)
(* and three of them write to the same one: Bandit, run_analysis.py and a  *)
(* test.  A step that fails ends the run.  Every push starts a run, and no        *)
(* concurrency group keeps two runs of one pull request apart: they meet   *)
(* in the comments.                                                        *)
(***************************************************************************)
EXTENDS Integers, Sequences, FiniteSets

CONSTANTS
    Pushes,         \* bound of the model: pushes to the pull request
    Others,         \* bound of the model: comments that people make
    PageSize,       \* comments that GitHub lists when no page is asked for
    Threshold       \* high_threshold of the gate

ASSUME WorkflowAssumption ==
    /\ Pushes \in Nat \ {0} /\ Others \in Nat
    /\ PageSize \in Nat \ {0} /\ Threshold \in Nat \ {0}

Run == 1..Pushes

VARIABLES
    step,           \* step[n]: the step that run n has come to
    code,           \* code[n]: what there is to find in push n
    report,         \* report[n]: reports/bandit_report.json
    full,           \* runs that have written reports/full_result.json
    scanned,        \* runs whose run_analysis.py did scan the code
    found,          \* found[n]: the comments that run n still tries to update
    comments,       \* the comments of the pull request, oldest first
    troubled        \* history: a call failed, or runs met in the comments

resultVars == <<code, report, full, scanned>>
vars == <<step, resultVars, found, comments, troubled>>

\* Findings of severity HIGH, and whether there are others.
Code == [high: 0..Threshold, low: BOOLEAN]

\* `had`: the runs whose results a comment has shown; the last is `of`.
Comment == [by: {"person", "dallo"}, marked: BOOLEAN, of: 0..Pushes,
            says: {"other", "clean", "findings", "fixture"}, had: SUBSET Run]

TypeOK ==
    /\ step \in [Run -> {"none", "bandit", "analyze", "tests", "gate", "list", "update",
                         "create", "passed", "blocked", "failed"}]
    /\ code \in [Run -> Code]
    /\ report \in [Run -> {"none", "empty", "findings", "fixture"}]
    /\ full \subseteq Run /\ scanned \subseteq Run
    /\ found \in [Run -> SUBSET (1..PageSize)]
    /\ \A n \in Run : step[n] = "update" => found[n] # {}
    /\ comments \in Seq(Comment)
    /\ troubled \in BOOLEAN

Init ==
    /\ step = [n \in Run |-> "none"]
    /\ code = [n \in Run |-> [high |-> 0, low |-> FALSE]]
    /\ report = [n \in Run |-> "none"]
    /\ full = {} /\ scanned = {}
    /\ found = [n \in Run |-> {}]
    /\ comments = <<>>
    /\ troubled = FALSE

Goto(n, l) == step' = [step EXCEPT ![n] = l]

\* The Bandit report of a scan of push n.
ReportOf(n) == IF code[n].high = 0 /\ ~code[n].low THEN "empty" ELSE "findings"

-----------------------------------------------------------------------------
(* What happens to the pull request                                        *)

\* A push to a pull request that adds or changes Python files.
Push(n) ==
    /\ step[n] = "none" /\ \A m \in 1..(n - 1) : step[m] # "none"
    /\ \E c \in Code : code' = [code EXCEPT ![n] = c]
    /\ Goto(n, "bandit")
    /\ UNCHANGED <<report, full, scanned, found, comments, troubled>>

\* A person comments, and may quote a comment of Dallo, its title included.
Discuss ==
    /\ Cardinality({i \in DOMAIN comments : comments[i].by = "person"}) < Others
    /\ \E quotes \in BOOLEAN :
         /\ quotes => \E i \in DOMAIN comments : comments[i].marked
         /\ comments' = Append(comments, [by |-> "person", marked |-> quotes, of |-> 0,
                                          says |-> "other", had |-> {}])
    /\ UNCHANGED <<step, resultVars, found, troubled>>

-----------------------------------------------------------------------------
(* The steps of a run                                                      *)

\* Bandit; when it fails without a report, an empty report takes its place.
RunBandit(n) ==
    /\ step[n] = "bandit"
    /\ \E r \in {ReportOf(n), "empty"} : report' = [report EXCEPT ![n] = r]
    /\ Goto(n, "analyze")
    /\ UNCHANGED <<code, full, scanned, found, comments, troubled>>

\* run_analysis.py --severity HIGH scans again and replaces the report of
\* Bandit; with no finding of that severity it returns before it writes
\* full_result.json.  A Bandit that dies and prints nothing passes for one that
\* finds nothing, and leaves the report alone.
RunAnalysis(n) ==
    /\ step[n] = "analyze"
    /\ Goto(n, "tests")
    /\ \/ /\ report' = [report EXCEPT ![n] = ReportOf(n)]
          /\ scanned' = scanned \cup {n}
          /\ full' = IF code[n].high > 0 THEN full \cup {n} ELSE full
       \/ UNCHANGED <<report, scanned, full>>
    /\ UNCHANGED <<code, found, comments, troubled>>

\* pytest passes only if test_convenience_function does, which has Bandit find
\* something in test_targets/sql_injection.py and write it to the default place:
\* that of the run's own report.
RunTests(n) ==
    /\ step[n] = "tests"
    /\ report' = [report EXCEPT ![n] = "fixture"]
    /\ Goto(n, "gate")
    /\ UNCHANGED <<code, full, scanned, found, comments, troubled>>

\* Mutant of CheckGate: the threshold itself still passes.
CheckGateAbove(n) ==
    /\ step[n] = "gate"
    /\ Goto(n, IF n \in full /\ code[n].high > Threshold THEN "blocked" ELSE "list")
    /\ UNCHANGED <<resultVars, found, comments, troubled>>

\* ci_gate.py passes when there is no full_result.json.  A run that the gate
\* blocks does not come to its comment.
CheckGate(n) ==
    /\ step[n] = "gate"
    /\ Goto(n, IF n \in full /\ code[n].high >= Threshold THEN "blocked" ELSE "list")
    /\ UNCHANGED <<resultVars, found, comments, troubled>>

\* A step exits with an error, an exception or the limit of 15 minutes ends the
\* script, or the run is cancelled.
Fail(n) ==
    /\ step[n] \notin {"none", "passed", "blocked", "failed"}
    /\ Goto(n, "failed")
    /\ UNCHANGED <<resultVars, found, comments, troubled>>

-----------------------------------------------------------------------------
(* post_pr_comment.py                                                      *)

\* What is told from reports/bandit_report.json.
Reported(n) == IF report[n] = "empty" THEN "clean" ELSE report[n]

\* Mutant of Says: full_result.json only if Bandit reports nothing.
SaysOfReport(n) == IF Reported(n) = "clean" /\ n \in full THEN "findings" ELSE Reported(n)

\* format_comment: full_result.json if it has findings, or else Bandit's report.
Says(n) == IF n \in full THEN "findings" ELSE Reported(n)

Commenting(n) == step[n] \in {"update", "create"}

\* GET .../comments, of which the first page is answered; any other answer than
\* 200 passes for none.
ListComments(n) ==
    /\ step[n] = "list"
    /\ LET marked == {i \in DOMAIN comments : comments[i].marked}
           page   == marked \cap 1..PageSize
       IN \/ /\ found' = [found EXCEPT ![n] = page]
             /\ Goto(n, IF page = {} THEN "create" ELSE "update")
             /\ troubled' = (troubled \/ marked # page \/ \E m \in Run : Commenting(m))
          \/ /\ Goto(n, "create")
             /\ troubled' = TRUE
             /\ UNCHANGED found
    /\ UNCHANGED <<resultVars, comments>>

Shows(c, n) == [c EXCEPT !.marked = TRUE, !.of = n, !.says = Says(n), !.had = @ \cup {n}]

\* The first of the comments that run n still tries.
First(n) == CHOOSE i \in found[n] : \A k \in found[n] : i <= k

\* Mutant of UpdateComment: what the update is answered with is not looked at.
UpdateBlindly(n) ==
    /\ step[n] = "update"
    /\ comments' \in {comments, [comments EXCEPT ![First(n)] = Shows(@, n)]}
    /\ Goto(n, "passed")
    /\ UNCHANGED <<resultVars, found, troubled>>

\* PATCH of the first comment found.  When it is refused the next one is tried,
\* and a new comment is created after the last; a lost answer ends the script.
UpdateComment(n) ==
    /\ step[n] = "update"
    /\ \/ /\ comments' = [comments EXCEPT ![First(n)] = Shows(@, n)]
          /\ \E l \in {"passed", "failed"} : Goto(n, l)
          /\ UNCHANGED <<found, troubled>>
       \/ /\ found' = [found EXCEPT ![n] = @ \ {First(n)}]
          /\ Goto(n, IF found[n] = {First(n)} THEN "create" ELSE "update")
          /\ troubled' = TRUE
          /\ UNCHANGED comments
    /\ UNCHANGED resultVars

\* Mutant of CreateComment: the comment lacks the title that is searched for.
CreateUntitled(n) ==
    /\ step[n] = "create"
    /\ comments' = Append(comments, [Shows([by |-> "dallo", marked |-> TRUE, of |-> n,
                                           says |-> "clean", had |-> {}], n)
                                      EXCEPT !.marked = FALSE])
    /\ \E l \in {"passed", "failed"} : Goto(n, l)
    /\ UNCHANGED <<resultVars, found, troubled>>

\* POST of a new comment; when it is refused the script exits with an error.
CreateComment(n) ==
    /\ step[n] = "create"
    /\ comments' = Append(comments, Shows([by |-> "dallo", marked |-> TRUE, of |-> n,
                                           says |-> "clean", had |-> {}], n))
    /\ \E l \in {"passed", "failed"} : Goto(n, l)
    /\ UNCHANGED <<resultVars, found, troubled>>

-----------------------------------------------------------------------------

Proceed(n) ==
    \/ RunBandit(n) \/ RunAnalysis(n) \/ RunTests(n) \/ CheckGate(n)
    \/ ListComments(n) \/ UpdateComment(n) \/ CreateComment(n)

Next ==
    \/ Discuss
    \/ \E n \in Run : Push(n) \/ Proceed(n) \/ Fail(n)

Spec == Init /\ [][Next]_vars

-----------------------------------------------------------------------------

\* A comment that shows findings shows those of its own push, and some of them
\* are severe but fewer than the gate admits; one that shows anything else, what
\* the tests found in their fixture or that nothing was found, goes with a push
\* that has no severe finding or was not scanned.  The report that three steps
\* of a run write to one after the other never hides a severe finding.
SevereAreShown ==
    \A i \in {k \in DOMAIN comments : comments[k].of \in Run} :
        LET n == comments[i].of
        IN  IF comments[i].says = "findings"
            THEN code[n].high \in 1..(Threshold - 1)
            ELSE code[n].high = 0 \/ n \notin scanned

\* A run blocks a pull request with as many severe findings as the threshold
\* and no other, although the gate sees them in a file that is only written
\* when there are some; only a run whose analysis did not scan lets them pass.
GateHolds ==
    \A n \in Run :
        /\ step[n] = "blocked" => code[n].high >= Threshold
        /\ step[n] \in {"list", "update", "create", "passed"} /\ n \in scanned
             => code[n].high < Threshold

\* As long as calls to GitHub are not refused, the comments fit on a page and
\* runs do not look for comments at the same time, Dallo has one comment on a
\* pull request, however many runs there are and wherever they fail.
OneComment ==
    ~troubled => Cardinality({i \in DOMAIN comments : comments[i].by = "dallo"}) <= 1

\* A run that passes has its result on the pull request, unless a later update
\* replaced it there: no refused or lost call passes for a comment.
PassedIsShown ==
    \A n \in Run : step[n] = "passed" => \E i \in DOMAIN comments : n \in comments[i].had

=============================================================================
