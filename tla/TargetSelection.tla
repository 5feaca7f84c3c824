-------------------------- MODULE TargetSelection --------------------------
(***************************************************************************)
(* Which reports the LLM gets: duplicates (analyzer/deduplicator.py), the  *)
(* risk score (risk_scorer.py), and scope, order and cap                   *)
(* (shared/llm_optimization.py).                                           *)
(*                                                                         *)
(* A report has rule, line, severity, confidence, cwe and mentions (the    *)
(* CVEs that its texts name), and the code that it is compared by: the     *)
(* function around it, or else the snippet.                                *)
(***************************************************************************)
EXTENDS Ordering, SequencesExt, FiniteSetsExt

CONSTANTS
    Code,           \* what reports are compared by
    Alike,          \* pairs of codes whose similarity reaches the threshold
    NoCode          \* code that is blank once it is normalised

\* The reports of some tools.  The levels of confidence are those of Bandit.
Confidence == {"HIGH", "MEDIUM", "LOW", "UNDEFINED"}

ReportOf(tools) ==
    [tool: tools, rule: STRING, line: Int, severity: STRING, confidence: Confidence,
     cwe: STRING, mentions: SUBSET STRING, code: Code]

SeverityRank(severity) ==
    CASE severity = "CRITICAL" -> 0
      [] severity = "HIGH"     -> 1
      [] severity = "MEDIUM"   -> 2
      [] severity = "LOW"      -> 3
      [] OTHER                 -> 99

-----------------------------------------------------------------------------
(* Duplicates                                                              *)

\* Blank code is like nothing, itself included.
Similar(c, d) == c # NoCode /\ d # NoCode /\ (c = d \/ <<c, d>> \in Alike)

\* The first report of the cluster of each: clusters are greedy, and a report
\* joins the first one whose leader it is similar to.
Leaders(reports) ==
    LET leader[i \in DOMAIN reports] ==
          LET open == {j \in 1..(i - 1) : /\ leader[j] = j
                                          /\ reports[j].rule = reports[i].rule
                                          /\ Similar(reports[j].code, reports[i].code)}
          IN  IF open = {} THEN i ELSE Min(open)
    IN  leader

ClusterOf(reports, i) ==
    LET leader == Leaders(reports) IN {j \in DOMAIN reports : leader[j] = leader[i]}

\* Mutant of Representative: the least severe, the ranks being taken for weights.
RepresentativeLeast(reports, i) ==
    SortedBy(ClusterOf(reports, i),
             [j \in DOMAIN reports |-> <<-SeverityRank(reports[j].severity), j>>])[1]

\* The most severe of a cluster, the first of them if there are several.
Representative(reports, i) ==
    SortedBy(ClusterOf(reports, i),
             [j \in DOMAIN reports |-> <<SeverityRank(reports[j].severity), j>>])[1]

\* Rule by rule as they turned up, and cluster by cluster.
Representatives(reports) ==
    LET leader == Leaders(reports)
        first == [i \in DOMAIN reports |->
                    <<Min({j \in DOMAIN reports : reports[j].rule = reports[i].rule}), i>>]
        order == SortedBy({leader[i] : i \in DOMAIN reports}, first)
    IN  [k \in DOMAIN order |-> Representative(reports, order[k])]

\* The group that is noted under an id is the last one with a report of that id.
\* A group goes by its leader.
GroupMap(reports, ids) ==
    LET leader == Leaders(reports)
    IN  [i \in DOMAIN reports |-> Max({leader[j] : j \in {k \in DOMAIN reports : ids[k] = ids[i]}})]

-----------------------------------------------------------------------------
(* Risk: base scores in tenths, scores in thousandths                      *)

\* The table of the module, with shared/cwe_severity.json over it.
CweTable ==
    {<<98, {"CWE-78", "CWE-89", "CWE-94", "CWE-502", "CWE-287", "CWE-306", "CWE-434", "CWE-943"}>>,
     <<91, {"CWE-798", "CWE-918", "CWE-259"}>>,
     <<88, {"CWE-352"}>>, <<82, {"CWE-862"}>>,
     <<75, {"CWE-22", "CWE-611", "CWE-400", "CWE-732", "CWE-776", "CWE-915"}>>,
     <<65, {"CWE-295"}>>, <<61, {"CWE-79", "CWE-601"}>>,
     <<59, {"CWE-327", "CWE-311", "CWE-319"}>>,
     <<53, {"CWE-200", "CWE-328", "CWE-330", "CWE-326", "CWE-338"}>>}

CweScore == [c \in UNION {e[2] : e \in CweTable} |-> (CHOOSE e \in CweTable : c \in e[2])[1]]

SeverityScore(severity) ==
    CASE severity = "CRITICAL" -> 95
      [] severity = "HIGH"     -> 75
      [] severity = "LOW"      -> 25
      [] OTHER                 -> 50

Score(report) ==
    LET base == IF report.cwe \in DOMAIN CweScore THEN CweScore[report.cwe]
                ELSE SeverityScore(report.severity)
    IN  CASE report.confidence = "LOW"  -> base * 80
          [] report.confidence = "HIGH" -> Min({base * 105, 10000})
          [] OTHER                      -> base * 100

\* 0 is critical, 3 is low.
LevelAt(score) ==
    Cardinality({bound \in {4000, 7000, 9000} : score < bound})

RiskLevel(report) == LevelAt(Score(report))

\* Mutant of ShownScore: rounded up to a whole number.
ShownScoreWhole(report) == ((Score(report) + 999) \div 1000) * 10

\* round(score, 1) in tenths: a half goes to the even neighbour.
ShownScore(report) ==
    LET s == Score(report)
        q == s \div 100
        r == s % 100
    IN  IF r > 50 \/ (r = 50 /\ q % 2 = 1) THEN q + 1 ELSE q

-----------------------------------------------------------------------------
(* Scope, order and cap                                                    *)

\* SCOPE_ALIASES.  A token that is neither an alias nor a CWE resolves to nothing.
Alias == ("SQLI" :> "CWE-89") @@ ("SQL_INJECTION" :> "CWE-89")
      @@ ("CMDI" :> "CWE-78") @@ ("COMMAND_INJECTION" :> "CWE-78")
      @@ ("XSS" :> "CWE-79") @@ ("AUTH_BYPASS" :> "CWE-288")
      @@ ("AUTHENTICATION_BYPASS" :> "CWE-288") @@ ("PATH_TRAVERSAL" :> "CWE-22")
      @@ ("HARDCODED_SECRET" :> "CWE-798")

CweNames == DOMAIN CweScore \cup {"CWE-288", "CWE-703"}

ResolvedCwes(tokens) == {Alias[t] : t \in tokens \cap DOMAIN Alias} \cup (tokens \cap CweNames)

\* Rules and CVEs are taken as they are.
Matches(report, config) ==
    \/ report.cwe \in ResolvedCwes(config.cwe_scope)
    \/ report.rule \in config.rule_scope
    \/ report.mentions \cap config.cve_scope # {}

HasScope(config) == config.cwe_scope \cup config.rule_scope \cup config.cve_scope # {}

\* Mutant of InScope: a scope of which nothing resolves is no scope.
InScopeOrNone(report, config) ==
    \/ ResolvedCwes(config.cwe_scope) \cup config.rule_scope \cup config.cve_scope = {}
    \/ Matches(report, config)

\* A scope of which nothing resolves matches nothing; no scope matches all.
InScope(report, config) == HasScope(config) => Matches(report, config)

Priority(report) ==
    <<RiskLevel(report), SeverityRank(report.severity), -ShownScore(report), report.line>>

\* optimize_llm_targets of the reports with the indices in `input`.
Optimize(reports, input, config) ==
    LET kept == {k \in DOMAIN input : InScope(reports[input[k]], config)}
        order == SortedBy(kept, [k \in kept |-> Append(Priority(reports[input[k]]), k)])
        sorted == [k \in DOMAIN order |-> input[order[k]]]
    IN  IF ~config.enabled THEN input
        ELSE IF config.max_targets > 0 /\ Len(sorted) > config.max_targets
             THEN SubSeq(sorted, 1, config.max_targets)
             ELSE sorted

=============================================================================
