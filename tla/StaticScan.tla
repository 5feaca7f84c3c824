----------------------------- MODULE StaticScan -----------------------------
(***************************************************************************)
(* The first half of execute_pipeline (analyzer/pipeline.py): the static   *)
(* analysers of a file, and the choice of the reports that the LLM gets.   *)
(* The other half is PatchPipeline, which takes all this as two steps.     *)
(*                                                                         *)
(* A finding has the fields of a report; in place of its snippet and its   *)
(* function it has the code that it is compared by.                        *)
(***************************************************************************)
EXTENDS QuickScan, TargetSelection

CONSTANTS
    Source,         \* files: their extension, text, and the code of each line
    BanditReport,   \* sequences of findings that Bandit may print
    SemgrepReport,  \* the same for Semgrep
    AuditReport,    \* the same for the audit by the LLM
    Function,       \* Function[n]: the function around line n of a file that the
                    \* server has in its directory under the name of the source,
                    \* or else the lines around it, with their numbers
    ScanOption,     \* use_llm, audit, optimize, and the config of the latter
    MaxReports      \* bound of the model: reports of a run

\* What a tool prints is read into findings of that tool, whatever they say, and
\* may be none.
ASSUME ScanAssumption ==
    /\ BanditReport \subseteq Seq(ReportOf({"bandit"})) /\ <<>> \in BanditReport
    /\ SemgrepReport \subseteq Seq(ReportOf({"semgrep"})) /\ <<>> \in SemgrepReport
    /\ AuditReport \subseteq Seq(ReportOf({"llm_audit"}))
    /\ \A s \in Source : s.text \in Seq(SUBSET STRING) /\ s.code \in [DOMAIN s.text -> Code]
    /\ Function \in Seq(Code \ {NoCode})
    /\ \A o \in ScanOption :
          /\ {o.use_llm, o.audit, o.optimize, o.config.enabled} \subseteq BOOLEAN
          /\ o.config.max_targets \in Int

\* No run has more reports than the bound.
ASSUME BoundAssumption ==
    /\ MaxReports \in Nat \ {0}
    /\ \A s \in Source : LET n == Len(QuickScan(s.text, QuickLanguage(s.ext)))
                         IN  \A b \in BanditReport, g \in SemgrepReport :
                               Len(b) + Len(g) + n <= MaxReports
    /\ \A a \in AuditReport : Len(a) <= MaxReports

VARIABLES
    stage,
    source,
    option,
    result,         \* result[t]: what tool t has found, and whether it failed
    reports,        \* vuln_reports
    group,          \* their duplicate_group_id
    targets,        \* indices of the reports that the LLM gets, in order
    llmError

scanVars == <<stage, source, option, result, reports, group, targets, llmError>>

Tool == {"bandit", "semgrep", "heuristic"}

\* EXTENSION_MAP: what the pipeline analyses beside Python.
Supported == OtherExtensions \cup {".swift", ".scala"}

\* The tools of a file, in the order in which their findings are merged.
Tools(ext) ==
    CASE ext = ".py"          -> <<"bandit", "semgrep", "heuristic">>
      [] ext \in Supported    -> <<"semgrep", "heuristic">>
      [] OTHER                -> <<>>

IdOf(rs, i) == IF rs[i].tool = "llm_audit" THEN <<"llm_audit", rs[i].rule, i>>
               ELSE <<"vuln", rs[i].rule, rs[i].line>>

Ids(rs) == [i \in DOMAIN rs |-> IdOf(rs, i)]

ScanInit ==
    /\ source \in Source /\ option \in ScanOption
    /\ stage = IF Tools(source.ext) = <<>> THEN "merge" ELSE Tools(source.ext)[1]
    /\ result = [t \in Tool |-> [found |-> <<>>, error |-> FALSE]]
    /\ reports = <<>> /\ group = <<>> /\ targets = <<>> /\ llmError = FALSE

-----------------------------------------------------------------------------
(* The tools                                                               *)

Record(tool, found, error) ==
    /\ result' = [result EXCEPT ![tool] = [found |-> found, error |-> error]]
    /\ UNCHANGED <<source, option, reports, group, targets, llmError>>

\* Text before the JSON is skipped, and nothing printed at all is no finding.
\* A file that Bandit cannot parse is an entry that nobody reads.
RunBandit ==
    /\ stage = "bandit" /\ stage' = "semgrep"
    /\ \E out \in {"json", "text, json", "other text", "complaint", "nothing",
                   "timeout", "not installed"}, found \in BanditReport :
         IF out \in {"json", "text, json"} THEN Record("bandit", found, FALSE)
         ELSE Record("bandit", <<>>, out # "nothing")

\* Nothing printed is no finding only if the command says that it succeeded.
RunSemgrep ==
    /\ stage = "semgrep" /\ stage' = "heuristic"
    /\ \E out \in {"json", "other text", "nothing, success", "nothing, failure",
                   "timeout", "not installed"}, found \in SemgrepReport :
         IF out = "json" THEN Record("semgrep", found, FALSE)
         ELSE Record("semgrep", <<>>, out # "nothing, success")

HeuristicFinding(hit) ==
    [tool |-> "heuristic", rule |-> hit.rule.id, line |-> hit.line,
     severity |-> hit.rule.severity, confidence |-> "MEDIUM", cwe |-> hit.rule.cwe,
     mentions |-> {}, code |-> source.code[hit.line]]

\* A file that cannot be read has no findings either.
RunHeuristic ==
    /\ stage = "heuristic" /\ stage' = "merge"
    /\ LET hits == QuickScan(source.text, QuickLanguage(source.ext))
       IN  \/ Record("heuristic", [k \in DOMAIN hits |-> HeuristicFinding(hits[k])], FALSE)
           \/ Record("heuristic", <<>>, FALSE)

\* JSON that is not an object raises an exception, which nobody catches here.
BreakOff ==
    /\ stage \in {"bandit", "semgrep"} /\ stage' = "raised"
    /\ UNCHANGED <<source, option, result, reports, group, targets, llmError>>

\* HIGH before MEDIUM before LOW before what Bandit calls UNDEFINED, else as found.
BySeverity(findings) ==
    LET order == SortedBy(DOMAIN findings,
                          [i \in DOMAIN findings |-> <<SeverityRank(findings[i].severity), i>>])
    IN  [k \in DOMAIN order |-> findings[order[k]]]

\* Mutant of MergeResults: a failed tool makes the whole scan fail.
MergeUnlessFailed ==
    IF \E t \in Tool : result[t].error THEN <<>>
    ELSE BySeverity(result["bandit"].found \o result["semgrep"].found \o result["heuristic"].found)

\* Errors of the tools are dropped.  A tool that does not run has found nothing.
MergeResults ==
    BySeverity(result["bandit"].found \o result["semgrep"].found \o result["heuristic"].found)

RunStaticAnalysis ==
    /\ stage = "merge" /\ stage' = "context"
    /\ reports' = MergeResults
    /\ UNCHANGED <<source, option, result, group, targets, llmError>>

-----------------------------------------------------------------------------
(* The choice                                                              *)

\* A line that the file does not have is around no code.  A line number makes
\* that of any other line one that is not blank.
FunctionAt(n) == IF n \in DOMAIN Function THEN Function[n] ELSE NoCode

\* The name of the source is looked up in the directory of the server, which
\* may have a file of that name; then reports are compared by its functions.
ExtractContext ==
    /\ stage = "context" /\ stage' = "deduplicate"
    /\ \/ UNCHANGED reports
       \/ reports' = [i \in DOMAIN reports |->
                        [reports[i] EXCEPT !.code =
                           IF FunctionAt(reports[i].line) = NoCode THEN @
                           ELSE FunctionAt(reports[i].line)]]
    /\ UNCHANGED <<source, option, result, group, targets, llmError>>

Deduplicate ==
    /\ stage = "deduplicate" /\ stage' = "optimize"
    /\ group' = GroupMap(reports, Ids(reports))
    /\ targets' = Representatives(reports)
    /\ UNCHANGED <<source, option, result, reports, llmError>>

\* The reports are scored before, and the score is a function of the report.
Select(rs, input) == IF option.optimize THEN Optimize(rs, input, option.config) ELSE input

\* Mutant of OptimizeTargets: a choice of nothing is taken for a clean file.
OptimizeTargetsOrAudit ==
    /\ stage = "optimize"
    /\ targets' = Select(reports, targets)
    /\ stage' = CASE option.use_llm /\ targets' # <<>>                   -> "generate"
                  [] option.use_llm /\ option.audit /\ targets' = <<>>    -> "audit"
                  [] OTHER                                               -> "build"
    /\ UNCHANGED <<source, option, result, reports, group, llmError>>

OptimizeTargets ==
    /\ stage = "optimize"
    /\ targets' = Select(reports, targets)
    /\ stage' = CASE option.use_llm /\ targets' # <<>>                   -> "generate"
                  [] option.use_llm /\ option.audit /\ reports = <<>>    -> "audit"
                  [] OTHER                                               -> "build"
    /\ UNCHANGED <<source, option, result, reports, group, llmError>>

\* The audit fails, or its findings are reports that are not compared with each
\* other: all of them are targets unless the optimisation leaves some out.
AuditClean ==
    /\ stage = "audit"
    /\ \/ llmError' = TRUE /\ stage' = "build" /\ UNCHANGED <<reports, targets>>
       \/ /\ reports' \in AuditReport
          /\ targets' = Select(reports', [i \in DOMAIN reports' |-> i])
          /\ stage' = IF targets' = <<>> THEN "build" ELSE "generate"
          /\ UNCHANGED llmError
    /\ UNCHANGED <<source, option, result, group>>

ScanNext ==
    \/ RunBandit \/ RunSemgrep \/ RunHeuristic \/ BreakOff \/ RunStaticAnalysis
    \/ ExtractContext \/ Deduplicate \/ OptimizeTargets \/ AuditClean

ScanSpec == ScanInit /\ [][ScanNext]_scanVars

-----------------------------------------------------------------------------

\* The lines of what list has of tool t and a severity, in its order.
LinesOfTool(list, t, severity) ==
    LET at == Ascending({k \in DOMAIN list : list[k].tool = t /\ list[k].severity = severity})
    IN  [k \in DOMAIN at |-> list[at[k]].line]

\* A tool that fails, prints nothing or prints something else first hides no
\* finding of another one: each finding that a tool has printed is reported, and
\* those of one tool and severity are in the order in which it printed them.  A
\* run that a tool has broken off reports nothing.
FindingsSurvive ==
    stage \notin Tool \cup {"merge", "raised"} =>
        \A t \in Tool, severity \in {"HIGH", "MEDIUM", "LOW", "UNDEFINED"} :
            LinesOfTool(reports, t, severity) = LinesOfTool(result[t].found, t, severity)

\* However the similarity of code chains, each report is in a group with exactly
\* one of the representatives, of its rule and no less severe, as long as the
\* ids that groups are noted under differ.
Represented ==
    stage = "optimize" /\ (\A i, j \in DOMAIN reports : IdOf(reports, i) = IdOf(reports, j) => i = j) =>
        \A i \in DOMAIN reports :
            \E t \in ToSet(targets) :
                /\ {u \in ToSet(targets) : group[u] = group[i]} = {t}
                /\ reports[t].rule = reports[i].rule
                /\ SeverityRank(reports[t].severity) <= SeverityRank(reports[i].severity)

Chosen == stage \in {"generate", "build"} /\ option.optimize /\ option.config.enabled

\* What an optimised run sends is in scope, in order of priority and under the
\* cap, and nothing that is in scope and stands for a group is left out for a
\* report of less risk; a scope that is all typing errors sends nothing.
TopOfScope ==
    LET config == option.config
        Candidate(i) == i \in ToSet(Representatives(reports)) \/ reports[i].tool = "llm_audit"
    IN  Chosen =>
          /\ \A i \in ToSet(targets) : HasScope(config) => Matches(reports[i], config)
          /\ \A i \in DOMAIN reports \ ToSet(targets) :
               Candidate(i) /\ (HasScope(config) => Matches(reports[i], config)) =>
                 /\ config.max_targets > 0 /\ Len(targets) = config.max_targets
                 /\ \A t \in ToSet(targets) : ~Precedes(Priority(reports[i]), Priority(reports[t]))

\* The level that a report is sorted by, taken from the exact score, is the one
\* that the rounded score beside it would get.
ScoreMatchesLevel ==
    \A i \in DOMAIN reports : LevelAt(ShownScore(reports[i]) * 100) = RiskLevel(reports[i])

\* What PatchPipeline, of which this is the front, has for the variables here.
stageBar ==
    CASE stage \in Tool \cup {"merge"}                     -> "static"
      [] stage \in {"context", "deduplicate", "optimize"}  -> "select"
      [] OTHER                                             -> stage
optsBar    == [use_llm |-> option.use_llm, multi |-> FALSE, audit |-> option.audit,
               optimize |-> option.optimize]
targetsBar == IF stage \in {"generate", "build"} THEN ToSet(targets) ELSE {}
todoBar    == IF stage = "generate" THEN ToSet(targets) ELSE {}

Pipeline == INSTANCE PatchPipeline WITH
    Id         <- {"vuln", "llm_audit"} \X STRING \X Int,
    MaxOptions <- 1,
    NumKeys    <- 1,
    MaxRetries <- 0,
    pc         <- stageBar,
    opts       <- optsBar,
    id         <- Ids(reports),
    targets    <- targetsBar,
    todo       <- todoBar,
    target     <- 0,
    mode       <- "single",
    attempt    <- 0,
    key        <- 0,
    refused    <- {},
    spoilt     <- FALSE,
    patches    <- <<>>,
    llmError   <- llmError,
    rows       <- <<>>

\* The two steps by which PatchPipeline begins allow for all that the scan and
\* the choice can do: a run passes reports over only if it optimises, and audits
\* only a file without any.
ImplementsPipeline == Pipeline!Init /\ [][Pipeline!Next]_(Pipeline!vars)

=============================================================================
