----------------------------- MODULE QuickScan -----------------------------
(***************************************************************************)
(* The scan by regular expressions, analyzer/quick_scan.py, which the      *)
(* heuristic runner of the pipeline shares the rules with.                 *)
(*                                                                         *)
(* A text is the sequence of its lines, and a line the set of patterns     *)
(* that are found on it.                                                   *)
(***************************************************************************)
EXTENDS Ordering, SequencesExt, FiniteSetsExt

CONSTANTS
    Rules,          \* QUICK_SCAN_RULES
    Broken          \* patterns that re.compile refuses

ASSUME RulesAssumption ==
    Rules \in Seq([id: STRING, severity: STRING, cwe: STRING, languages: SUBSET STRING,
                   require_all: BOOLEAN, match_mode: STRING, patterns: Seq(STRING)])

\* The extensions that detect_language knows, but for the one of Python.
OtherExtensions == {".java", ".js", ".jsx", ".ts", ".tsx", ".go", ".c", ".cpp",
                    ".h", ".hpp", ".rb", ".php", ".kt", ".rs", ".cs"}

\* Languages that the rules name.  An unknown extension counts as Python.
QuickLanguage(ext) ==
    CASE ext = ".java"                            -> "java"
      [] ext \in {".js", ".jsx", ".ts", ".tsx"}   -> "javascript"
      [] ext \in {".c", ".h"}                     -> "c"
      [] ext \in {".cpp", ".hpp"}                 -> "cpp"
      [] ext = ".go"                              -> "go"
      [] ext = ".php"                             -> "php"
      [] ext \in OtherExtensions                  -> "other"
      [] OTHER                                    -> "python"

\* require_all is an older way to say "all"; what else match_mode says is "any".
MatchMode(rule) ==
    IF rule.require_all THEN "all"
    ELSE IF rule.match_mode \in {"all", "all_file"} THEN rule.match_mode ELSE "any"

LinesWith(text, p) == {n \in DOMAIN text : p \in text[n]}

\* The lines that a rule reports.  One broken pattern disables a rule that needs
\* them all; a rule for the file reports the first line with its last pattern.
LinesOf(rule, text) ==
    LET patterns == rule.patterns
        usable   == patterns # <<>> /\ ToSet(patterns) \cap Broken = {}
        everyOne == \A p \in ToSet(patterns) : LinesWith(text, p) # {}
    IN  CASE MatchMode(rule) = "any" ->
               UNION {LinesWith(text, p) : p \in ToSet(patterns) \ Broken}
          [] MatchMode(rule) = "all" /\ usable ->
               {n \in DOMAIN text : ToSet(patterns) \subseteq text[n]}
          [] MatchMode(rule) = "all_file" /\ usable /\ everyOne ->
               {Min(LinesWith(text, Last(patterns)))}
          [] OTHER -> {}

\* Findings in the order of their lines and, on one line, of the rules.
QuickScan(text, language) ==
    LET hits == {h \in (DOMAIN text) \X (DOMAIN Rules) :
                   /\ language \in Rules[h[2]].languages
                   /\ h[1] \in LinesOf(Rules[h[2]], text)}
        order == SortedBy(hits, [h \in hits |-> h])
    IN  [k \in DOMAIN order |-> [rule |-> Rules[order[k][2]], line |-> order[k][1]]]

=============================================================================
