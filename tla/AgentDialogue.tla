--------------------------- MODULE AgentDialogue ---------------------------
(***************************************************************************)
(* What the LLM agent (agent/llm_agent.py) makes of a report, or of a file *)
(* to audit, and of the answers of a provider: generate_patch,             *)
(* generate_multi_patches with its fallback to the former, and audit_code  *)
(* with the conversion of its findings in analyzer/pipeline.py.  How the   *)
(* agent goes from report to report and from key to key is PatchPipeline.  *)
(*                                                                         *)
(* Of a prompt there is the code in it, and what it says of a report       *)
(* besides: its title, description and imports, which nobody masks.  What  *)
(* the user adds, and the names of file and rule, are left out.  Of an     *)
(* answer there is what the parsers take from it: the blocks of code, the  *)
(* headings that they go by, and the JSON of an audit.  Explanations,      *)
(* which are unmasked like code, are left out.                             *)
(***************************************************************************)
EXTENDS Masking

CONSTANTS
    Report,         \* reports: texts `function`, `snippet` and `context` (title,
                    \* description, imports), that may be empty
    Headings,       \* the numbers in the headings of an answer: any, in any order
    Attempts,       \* max_retries + 1
    MaxChars,       \* of an audited file
    Verdict         \* what may be found where an audit answers with JSON

\* The findings of an audit are a list, whatever is in it.
ASSUME VerdictAssumption ==
    \A v \in Verdict : v.kind = "object" =>
        v.findings \in Seq([kind: STRING, cwe: STRING, number: STRING, line: Int, severity: STRING])

VARIABLES
    ask,            \* what is asked for: a "patch", "options", or an "audit"
    phase,          \* "prompt", "call", "done"
    report,
    prompt,         \* the code in the prompt
    context,        \* what the prompt says besides of the report
    maskMap,        \* mask_result.mask_map
    tries,
    answered,       \* for the properties: the options that were answered
    offered,        \* the patches
    audit           \* what audit_code returns, and the reports made of it

dialogueVars == <<ask, phase, report, prompt, context, maskMap, tries, answered, offered, audit>>

FixType == <<"minimal", "recommended", "structural">>
Fix     == [kind |-> "code", name |-> "fix", person |-> FALSE]

\* There is no placeholder in code before it is masked.
ASSUME ReportAssumption ==
    Report \subseteq [function: Seq(Atom), snippet: Seq(Atom), context: Seq(Atom)] /\ Fix \in Atom

\* A number has one digit.
ASSUME HeadingsAssumption == Headings \subseteq Seq(0..9)

NoAudit == [status |-> "none", found |-> <<>>, reports |-> <<>>]

DialogueInit ==
    /\ ask \in {"patch", "options", "audit"}
    /\ report \in Report
    /\ phase = "prompt" /\ prompt = <<>> /\ context = <<>> /\ maskMap = <<>> /\ tries = 0
    /\ answered = <<>> /\ offered = <<>> /\ audit = NoAudit

CodeOf(r) == IF r.function # <<>> THEN r.function ELSE r.snippet

\* _strip_line_numbers
Stripped(text) ==
    FlattenSeq([k \in DOMAIN text |-> IF text[k].kind = "number" THEN <<>> ELSE <<text[k]>>])

-----------------------------------------------------------------------------
(* Prompts                                                                 *)

\* The code is masked, and nothing else of the prompt: the description of a
\* hard-coded password quotes it.  The fields of the report are set back after
\* the prompt is built: `report` stays as it was.
AskPatch ==
    /\ phase = "prompt" /\ ask = "patch"
    /\ \E m \in Masks(CodeOf(report)) : prompt' = Stripped(m.text) /\ maskMap' = m.map
    /\ context' = report.context
    /\ phase' = "call" /\ tries' = 0
    /\ UNCHANGED <<ask, report, answered, offered, audit>>

\* Several options are asked for with the code as it is.
AskOptions ==
    /\ phase = "prompt" /\ ask = "options"
    /\ prompt' = Stripped(CodeOf(report)) /\ context' = report.context
    /\ phase' = "call" /\ tries' = 0
    /\ UNCHANGED <<ask, report, maskMap, answered, offered, audit>>

\* The beginning of the file.
AskAudit ==
    /\ phase = "prompt" /\ ask = "audit"
    /\ LET code == Stripped(CodeOf(report))
       IN  prompt' = SubSeq(code, 1, IF Len(code) < MaxChars THEN Len(code) ELSE MaxChars)
    /\ phase' = "call" /\ tries' = 0
    /\ UNCHANGED <<ask, report, context, maskMap, answered, offered, audit>>

-----------------------------------------------------------------------------
(* Answers                                                                 *)

\* Blocks of code that a model may write: what it was shown, or more, or blank.
Blocks == {<<b>> : b \in {prompt, <<Fix>> \o prompt, <<>>}} \cup {<<>>}

\* An answer: what is before the first heading of an option, and the options
\* with the numbers in their headings; the block, if there are as many, that
\* follows a heading of fixed code.
Answers(headings) ==
    UNION {[before : Blocks, numbers : {numbers}, options : [DOMAIN numbers -> Blocks],
            heading : 1..2] : numbers \in headings}

AllBlocks(a) == a.before \o FlattenSeq(a.options)

\* _parse_response: the block under the heading, or else the last one.
ParseResponse(a) ==
    LET blocks == AllBlocks(a)
    IN  IF a.heading <= Len(blocks) /\ blocks[a.heading] # <<>> THEN blocks[a.heading]
        ELSE IF blocks = <<>> THEN <<>> ELSE Last(blocks)

Offer(code, type) == [code |-> code, fix_type |-> type, status |-> "generated"]

FirstBlock(blocks) == IF blocks = <<>> THEN <<>> ELSE blocks[1]
WithCode(offers) ==
    LET kept == Ascending({k \in DOMAIN offers : offers[k].code # <<>>})
    IN  [k \in DOMAIN kept |-> offers[kept[k]]]

\* Mutant of Options: the options without code are dropped before they are named.
OptionsWithCode(a) ==
    LET all == WithCode([k \in DOMAIN a.options \cap DOMAIN FixType |->
                           Offer(FirstBlock(a.options[k]), "none")])
    IN  [k \in DOMAIN all |-> [all[k] EXCEPT !.fix_type = FixType[k]]]

\* An option is named after its place among the headings, whatever its number;
\* what comes after the third is dropped.
Options(a) ==
    WithCode([k \in DOMAIN a.options \cap DOMAIN FixType |->
                Offer(FirstBlock(a.options[k]), FixType[k])])

\* _parse_multi_response
ParseMultiResponse(a) ==
    LET options == Options(a)
        code == ParseResponse(a)
    IN  IF options # <<>> THEN options
        ELSE IF code # <<>> THEN <<Offer(code, "recommended")>> ELSE <<>>

\* generate_patch gets a patch, unmasked, or generate_multi_patches some.
Parsed(a) ==
    LET code == ParseResponse(a)
    IN  IF ask = "options" THEN ParseMultiResponse(a)
        ELSE IF code = <<>> THEN <<>>
        ELSE <<Offer(Unmask(code, maskMap), "recommended")>>

\* The options of an answer: the number of each, and its code.
Answered(a) ==
    [k \in DOMAIN a.options |-> [number |-> a.numbers[k], code |-> FirstBlock(a.options[k])]]

Receive ==
    /\ phase = "call" /\ ask # "audit"
    /\ \E a \in Answers(IF ask = "options" THEN Headings ELSE {<<>>, <<1>>}) :
         /\ Parsed(a) # <<>> /\ offered' = Parsed(a)
         /\ answered' = IF ask = "options" THEN Answered(a) ELSE answered
    /\ phase' = "done"
    /\ UNCHANGED <<ask, report, prompt, context, maskMap, tries, audit>>

\* The call fails or its answer has no code; the last attempt at options is
\* followed by those at a single patch.
Miss ==
    /\ phase = "call" /\ ask # "audit"
    /\ IF tries + 1 < Attempts THEN tries' = tries + 1 /\ UNCHANGED <<ask, phase, offered>>
       ELSE IF ask = "options"
            THEN ask' = "patch" /\ phase' = "prompt" /\ tries' = 0 /\ UNCHANGED offered
            ELSE /\ offered' = <<[Offer(<<>>, "recommended") EXCEPT !.status = "failed"]>>
                 /\ phase' = "done" /\ UNCHANGED <<ask, tries>>
    /\ UNCHANGED <<report, prompt, context, maskMap, answered, audit>>

-----------------------------------------------------------------------------
(* Audits                                                                  *)

\* _extract_audit_json: a fenced object, or else all between the outer braces.
ExtractAuditJson(a) ==
    IF a.fenced.kind = "object" THEN a.fenced ELSE a.braced

\* _normalize_audit_finding: a line that is no number is line 0.
NormalLine(item) == IF item.number = "integer" THEN item.line ELSE 0

Objects(items) == {k \in DOMAIN items : items[k].kind = "object"}

\* Of the findings those are kept that are objects.
Findings(object) ==
    LET items == object.findings
        kept == Ascending(Objects(items))
    IN  [k \in DOMAIN kept |-> [cwe |-> items[kept[k]].cwe, severity |-> items[kept[k]].severity,
                                line |-> NormalLine(items[kept[k]])]]

\* _normalize_audit_response: a status that the model may use is believed.
Status(object) ==
    IF object.status \in {"clean", "suspicious", "reviewed"} THEN object.status
    ELSE IF Findings(object) # <<>> THEN "suspicious" ELSE "clean"

\* Mutant of AuditReports: the ids lack the number of the finding.
AuditReportsByPlace(found) ==
    [k \in DOMAIN found |-> [id |-> <<"llm_audit", 0, found[k].cwe, found[k].line>>,
                             cwe |-> found[k].cwe, line |-> found[k].line,
                             severity |-> IF found[k].severity \in {"HIGH", "MEDIUM", "LOW"}
                                          THEN found[k].severity ELSE "MEDIUM"]]

\* _audit_findings_to_vulnerabilities
AuditReports(found) ==
    [k \in DOMAIN found |-> [id |-> <<"llm_audit", k, found[k].cwe, found[k].line>>,
                             cwe |-> found[k].cwe, line |-> found[k].line,
                             severity |-> IF found[k].severity \in {"HIGH", "MEDIUM", "LOW"}
                                          THEN found[k].severity ELSE "MEDIUM"]]

\* audit_code asks once.  An answer without an object is to be reviewed; a line
\* number that no integer stands for (Infinity is JSON to Python) fails it all.
ReceiveAudit ==
    /\ phase = "call" /\ ask = "audit"
    /\ \E a \in [fenced : Verdict, braced : Verdict] :
         LET object == ExtractAuditJson(a)
             found  == Findings(object)
         IN  audit' = IF object.kind # "object" THEN [NoAudit EXCEPT !.status = "reviewed"]
                      ELSE IF \E k \in DOMAIN object.findings : object.findings[k].number = "infinite"
                      THEN [NoAudit EXCEPT !.status = "error"]
                      ELSE [status |-> Status(object), found |-> object.findings,
                            reports |-> AuditReports(found)]
    /\ phase' = "done"
    /\ UNCHANGED <<ask, report, prompt, context, maskMap, tries, answered, offered>>

\* The call fails.
FailAudit ==
    /\ phase = "call" /\ ask = "audit"
    /\ audit' = [NoAudit EXCEPT !.status = "error"] /\ phase' = "done"
    /\ UNCHANGED <<ask, report, prompt, context, maskMap, tries, answered, offered>>

DialogueNext ==
    \/ AskPatch \/ AskOptions \/ AskAudit
    \/ Receive \/ Miss \/ ReceiveAudit \/ FailAudit

-----------------------------------------------------------------------------

Original == Stripped(CodeOf(report))

\* In the code that a model is asked to patch, whatever a pattern would match is
\* masked; only a match that has a placeholder in it stays, with what is around
\* the placeholder.  Nothing is said of `context`, which is sent as it is.  What
\* the model gives back as it was shown becomes the code of the report again,
\* without a placeholder, whichever masker was first and however the matches
\* of the patterns overlap; as long as what is masked has no line number in it.
RoundTrip ==
    /\ phase = "call" /\ ask = "patch" => NothingBare(prompt)
    /\ \A k \in DOMAIN offered : offered[k].status = "generated" =>
         /\ offered[k].code # <<>> /\ Holes(offered[k].code) = {}
         /\ (\A m \in DOMAIN maskMap : Stripped(maskMap[m].value) = maskMap[m].value) =>
              offered[k].code \in {Original, <<Fix>> \o Original}

\* Of the first three options of an answer each that has code is offered, once,
\* and under its own name if its number is its place among the headings, although
\* some of the others may have no code.  Of an option whose number is not its place,
\* as where one is left out or repeated, it is not said under which name.
OptionsKeepTheirName ==
    LET coded == {k \in DOMAIN answered \cap DOMAIN FixType : answered[k].code # <<>>}
    IN  /\ coded # {} => DOMAIN offered = 1..Cardinality(coded)
        /\ \A k \in coded : answered[k].number = k =>
             \E i \in DOMAIN offered : /\ offered[i].fix_type = FixType[answered[k].number]
                                      /\ offered[i].code = answered[k].code

\* Every finding of an audit that is an object is a report, the n-th of them the
\* n-th report, and no two have the same id, by which patches go, even at the
\* same place.
EveryFindingReported ==
    LET objects == Objects(audit.found)
        made == audit.reports
    IN  /\ DOMAIN made = 1..Cardinality(objects)
        /\ \A k \in objects : LET n == Cardinality({j \in objects : j <= k})
                             IN  made[n].cwe = audit.found[k].cwe
        /\ \A i, j \in DOMAIN made : made[i].id = made[j].id => i = j

=============================================================================
