------------------------------ MODULE MCScans ------------------------------
EXTENDS Scans

Finding(tool, rule, line, severity, confidence, cwe, code) ==
    [tool |-> tool, rule |-> rule, line |-> line, severity |-> severity,
     confidence |-> confidence, cwe |-> cwe, mentions |-> {}, code |-> code]

Upto(n, S) == UNION {SetToSeqs(T) : T \in {U \in SUBSET S : Cardinality(U) <= n}}

\* Three findings of a rule whose code is alike in a chain but not at its ends.
MCAlike == {<<"a", "b">>, <<"b", "a">>, <<"b", "c">>, <<"c", "b">>}

Chain == {Finding("bandit", "B602", 1, "LOW", "HIGH", "CWE-78", "a"),
          Finding("bandit", "B602", 2, "HIGH", "LOW", "CWE-78", "b"),
          Finding("bandit", "B602", 3, "HIGH", "HIGH", "CWE-78", "c"),
          Finding("bandit", "B110", 1, "UNDEFINED", "MEDIUM", "CWE-703", "a")}

MCBanditReport ==
    Upto(3, Chain) \cup {<<Finding("bandit", "B999", 2, "MEDIUM", "LOW", cwe, "b")>> : cwe \in CweNames}

\* Two of one id; one that mentions a CVE; one whose snippet is blank.
Others == {Finding("semgrep", "sqli", 1, "HIGH", "HIGH", "CWE-89", "a"),
           Finding("semgrep", "sqli", 1, "HIGH", "HIGH", "CWE-89", "c"),
           [Finding("semgrep", "old-library", 2, "MEDIUM", "HIGH", "none", "blank")
              EXCEPT !.mentions = {"CVE-1"}]}

MCSemgrepReport ==
    Upto(2, Others) \cup {<<Finding("semgrep", "sqli", 2, "LOW", "HIGH", cwe, "b")>> : cwe \in {"CWE-798", "CWE-352", "CWE-22", "none"}}

MCAuditReport ==
    Upto(2, {Finding("llm_audit", "CWE-89", 1, "HIGH", "MEDIUM", "CWE-89", "all"),
             Finding("llm_audit", "llm_audit", 2, "LOW", "MEDIUM", "none", "all")})
    \cup {<<Finding("llm_audit", cwe, 2, "MEDIUM", "MEDIUM", cwe, "all")>> : cwe \in CweNames}

MCRules ==
    LET Rule(id, severity, cwe, languages, mode, patterns) ==
          [id |-> id, severity |-> severity, cwe |-> cwe, languages |-> languages,
           require_all |-> FALSE, match_mode |-> mode, patterns |-> patterns]
    IN  <<Rule("QS-SQLI", "HIGH", "CWE-89", {"python", "java"}, "any", <<"(", "p", "q">>),
          Rule("QS-AUTH-BYPASS", "HIGH", "CWE-288", {"java"}, "all_file", <<"p", "q">>),
          Rule("QS-BOTH", "LOW", "CWE-330", {"java"}, "all", <<"p", "q">>)>>

MCSource ==
    {[ext |-> ".py",   text |-> <<{"p", "q"}, {}>>,          code |-> <<"a", "b">>],
     [ext |-> ".java", text |-> <<{"q"}, {"p"}, {"p", "q"}>>, code |-> <<"a", "b", "c">>],
     [ext |-> ".java", text |-> <<{}>>,                      code |-> <<"a">>],
     [ext |-> ".txt",  text |-> <<{"p"}>>,                   code |-> <<"a">>]}

MCFunction == <<"f", "f">>

MCScanOption ==
    LET Config(enabled, cwes, rules, cves, n) ==
          [enabled |-> enabled, cwe_scope |-> cwes, rule_scope |-> rules,
           cve_scope |-> cves, max_targets |-> n]
        Configs == {Config(TRUE, {}, {}, {}, 1), Config(TRUE, {"SQLI"}, {}, {}, 0),
                    Config(TRUE, {"SQLII"}, {}, {}, 0),
                    Config(TRUE, {"SQLII"}, {"B602"}, {"CVE-1"}, 2),
                    Config(FALSE, {"SQLI"}, {}, {}, 1)}
        Opts(optimize, config) ==
          [use_llm |-> TRUE, audit |-> TRUE, optimize |-> optimize, config |-> config]
        plain == Opts(FALSE, Config(FALSE, {}, {}, {}, 0))
    IN  {plain, [plain EXCEPT !.use_llm = FALSE], [plain EXCEPT !.audit = FALSE]}
        \cup {Opts(TRUE, c) : c \in Configs}

MCPipDocument ==
    LET Count == [fixable : 0..1, unfixable : 0..1]
    IN  UNION {[P -> Count] : P \in SUBSET {"p1", "p2"}}

MCNpmDocument ==
    LET Entry == [severity : {"MODERATE", "HIGH", "INFO"}, advisories : 0..2]
    IN  UNION {[P -> Entry] : P \in SUBSET {"p1", "p2"}}

Piece(n)       == [kind |-> "code", name |-> n, person |-> FALSE]
Person        == [kind |-> "code", name |-> "x", person |-> TRUE]
Secret(n, ls) == [kind |-> "secret", name |-> n, labels |-> ls]
Open(l)       == [kind |-> "open", label |-> l]
Close(l)      == [kind |-> "close", label |-> l]
Number        == [kind |-> "number"]

MCPattern == <<"OPENAI_KEY", "ANTHROPIC_KEY", "GITHUB_TOKEN", "DB_CONN_PASSWORD", "SECRET_VALUE",
               "BEARER_TOKEN", "PRIVATE_KEY">>

\* Two of one label; a secret in quotes that a pattern before or after theirs
\* matches, too; a person in quotes; numbered lines; a snippet whose secret the
\* description repeats, and nothing.
MCReport ==
    LET Text(f) == [function |-> f, snippet |-> <<Piece("s")>>, context |-> <<>>]
        github  == {"GITHUB_TOKEN"}
    IN  {Text(<<Piece("a"), Secret("k", {"OPENAI_KEY", "ANTHROPIC_KEY"}), Person, Secret("g", github),
                Secret("h", github)>>),
         Text(<<Open("SECRET_VALUE"), Secret("g", github), Piece("a"), Close("SECRET_VALUE"),
                Secret("b", {"BEARER_TOKEN"})>>),
         Text(<<Open("SECRET_VALUE"), Piece("a"), Person, Close("SECRET_VALUE"), Open("SECRET_VALUE"),
                Piece("b"), Close("SECRET_VALUE")>>),
         Text(<<Open("DB_CONN_PASSWORD"), Secret("b", {"BEARER_TOKEN"}), Close("DB_CONN_PASSWORD")>>),
         Text(<<Number, Open("PRIVATE_KEY"), Piece("a"), Number, Piece("b"), Close("PRIVATE_KEY")>>),
         [function |-> <<>>, snippet |-> <<Secret("g", github)>>, context |-> <<Secret("g", github)>>],
         [function |-> <<>>, snippet |-> <<>>, context |-> <<>>]}

\* All that is in the reports, and the fix.
MCAtom == UNION {ToSet(r.function) \cup ToSet(r.snippet) \cup ToSet(r.context) : r \in MCReport} \cup {Piece("fix")}

\* Three headings with any numbers, and one too many.
MCHeadings == UNION {[1..n -> 1..3] : n \in 0..3} \cup {<<1, 2, 3, 1>>}

MCVerdict ==
    LET Item(k, cwe, number, severity) ==
          [kind |-> k, cwe |-> cwe, number |-> number, line |-> 1, severity |-> severity]
        Items == {Item("object", "none", "integer", "HIGH"), Item("object", "CWE-89", "integer", "LOW"),
                  Item("object", "CWE-89", "none", "severe"), Item("object", "CWE-89", "infinite", "LOW"),
                  Item("other", "none", "none", "none")}
    IN  {[kind |-> "none"]} \cup
        [kind : {"object"}, status : {"clean", "reviewed", "other"},
         findings : UNION {[1..n -> Items] : n \in 0..2}]

=============================================================================
