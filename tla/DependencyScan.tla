--------------------------- MODULE DependencyScan ---------------------------
(***************************************************************************)
(* One scan of dependencies: the choice of what is scanned                 *)
(* (api/services/dependency_scanning.py), and pip-audit and npm audit with *)
(* what is done when they fail (analyzer/dependency_scanner.py).           *)
(*                                                                         *)
(* A document of pip-audit gives each package the numbers of its           *)
(* advisories with and without a fixed version.  One of npm gives each     *)
(* vulnerable package a severity, the number of its own advisories, and    *)
(* that of packages through which it is vulnerable.                        *)
(***************************************************************************)
EXTENDS Integers, FiniteSets

CONSTANTS
    PipDocument,
    NpmDocument,
    MaxLines        \* bound of the model: lines of a requirements.txt

ASSUME DocumentAssumption ==
    /\ \A d \in PipDocument :
          IsFiniteSet(DOMAIN d) /\ d \in [DOMAIN d -> [fixable: Nat, unfixable: Nat]]
    /\ \A d \in NpmDocument :
          IsFiniteSet(DOMAIN d) /\ d \in [DOMAIN d -> [severity: STRING, advisories: Nat]]

VARIABLES
    step,
    asked,          \* which texts the request has, and what its path is
    manifests,      \* the files in the directory that is scanned
    temporary,      \* the temporary directory is there
    answer,         \* answer[t]: the result of tool t
    printed         \* printed[t]: the document that tool t has printed

depVars == <<step, asked, manifests, temporary, answer, printed>>

Auditor == {"pip-audit", "npm-audit", "none"}
Severity == {"CRITICAL", "HIGH", "MEDIUM", "LOW"}
Manifest == {"requirements.txt", "package.json", "package-lock.json"}

Request == [requirements: BOOLEAN, package_json: BOOLEAN,
            path: {"none", "inside", "outside", "missing"}]

\* What a tool prints: a list of packages, or, which is JSON too, that npm could
\* not audit; or nothing of use.
Listing(list) == [kind |-> "list", list |-> list]
ErrorDocument == [kind |-> "error", list |-> <<>>]
NoDocument    == [kind |-> "none", list |-> <<>>]

\* No result, a new one, and one with an error.
Absent == [there |-> FALSE, packages |-> 0, total |-> 0,
           count |-> [s \in Severity |-> 0], error |-> FALSE]
Fresh  == [Absent EXCEPT !.there = TRUE]
Failed == [Fresh EXCEPT !.error = TRUE]

DepInit ==
    /\ step = "ask" /\ asked \in Request
    /\ manifests = {} /\ temporary = FALSE
    /\ answer = [t \in Auditor |-> Absent]
    /\ printed = [t \in Auditor |-> NoDocument]

\* npm is asked if there is either of its files.
NextAuditor(files) ==
    IF "requirements.txt" \in files THEN "pip"
    ELSE IF files \cap {"package.json", "package-lock.json"} # {} THEN "npm" ELSE "neither"

\* Texts come before the path, and a path that does not exist before the root.
Ask ==
    /\ step = "ask"
    /\ CASE asked.requirements ->
              /\ manifests' = {"requirements.txt"} /\ temporary' = TRUE
              /\ step' = "pip" /\ UNCHANGED answer
         [] ~asked.requirements /\ asked.package_json ->
              /\ manifests' = {"package.json"} /\ temporary' = TRUE
              /\ step' = "install" /\ UNCHANGED answer
         [] ~asked.requirements /\ ~asked.package_json /\ asked.path = "outside" ->
              /\ answer' = [answer EXCEPT !["none"] = Failed]
              /\ step' = "answered" /\ UNCHANGED <<manifests, temporary>>
         [] OTHER ->
              /\ manifests' \in SUBSET Manifest
              /\ step' = NextAuditor(manifests')
              /\ UNCHANGED <<temporary, answer>>
    /\ UNCHANGED <<asked, printed>>

\* The directory goes however the scan ends.
Finish(how) == step' = how /\ temporary' = FALSE

\* npm install: what it says is not looked at; a timeout or no npm is not caught.
Install ==
    /\ step = "install"
    /\ \/ manifests' = manifests \cup {"package-lock.json"} /\ step' = "npm" /\ UNCHANGED temporary
       \/ step' = "npm" /\ UNCHANGED <<manifests, temporary>>
       \/ Finish("raised") /\ UNCHANGED manifests
    /\ UNCHANGED <<asked, answer, printed>>

\* After pip-audit: a scan of a directory goes on to npm, one of a text ends.
AfterPip == IF ~asked.requirements /\ NextAuditor(manifests \ {"requirements.txt"}) = "npm"
            THEN step' = "npm" /\ UNCHANGED temporary
            ELSE Finish("answered")

\* The number of all advisories of the packages, of which f has that of each.
Advisories(f) == Cardinality(UNION {{<<p, n>> : n \in 1..f[p]} : p \in DOMAIN f})

\* An advisory with a fixed version is HIGH, one without is MEDIUM.
PipResult(doc) ==
    LET high   == Advisories([p \in DOMAIN doc |-> doc[p].fixable])
        medium == Advisories([p \in DOMAIN doc |-> doc[p].unfixable])
    IN  [Fresh EXCEPT !.packages = Cardinality(DOMAIN doc), !.total = high + medium,
                      !.count = [@ EXCEPT !["HIGH"] = high, !["MEDIUM"] = medium]]

\* Mutant of Fallback: the list of packages replaces the error.
FallbackForgets ==
    \E n \in 0..MaxLines : answer' = [answer EXCEPT !["pip-audit"] = [Fresh EXCEPT !.packages = n]]

\* The packages are listed, or the file cannot be read; the error stays.
Fallback ==
    \E n \in 0..MaxLines : answer' = [answer EXCEPT !["pip-audit"] = [Failed EXCEPT !.packages = n]]

AuditPip ==
    /\ step = "pip"
    /\ \/ \E doc \in PipDocument :                          \* a document
            /\ printed' = [printed EXCEPT !["pip-audit"] = Listing(doc)]
            /\ answer' = [answer EXCEPT !["pip-audit"] = PipResult(doc)]
            /\ AfterPip
       \/ Fallback /\ AfterPip /\ UNCHANGED printed         \* nothing, no JSON, no pip-audit
       \/ /\ answer' = [answer EXCEPT !["pip-audit"] = Failed]      \* a timeout
          /\ AfterPip /\ UNCHANGED printed
       \/ Finish("raised") /\ UNCHANGED <<answer, printed>>         \* JSON that is no object
    /\ UNCHANGED <<asked, manifests>>

\* npm says MODERATE for MEDIUM, and what is none of the others counts as LOW.
Normal(severity) == IF severity = "MODERATE" THEN "MEDIUM"
                    ELSE IF severity \in {"CRITICAL", "HIGH", "MEDIUM"} THEN severity ELSE "LOW"

\* The list has advisories only, the counts have packages.
NpmResult(doc) ==
    [Fresh EXCEPT
       !.total = Advisories([p \in DOMAIN doc |-> doc[p].advisories]),
       !.count = [s \in Severity |-> Cardinality({p \in DOMAIN doc : Normal(doc[p].severity) = s})]]

AuditNpm ==
    /\ step = "npm"
    /\ \/ \E doc \in NpmDocument :
            /\ printed' = [printed EXCEPT !["npm-audit"] = Listing(doc)]
            /\ answer' = [answer EXCEPT !["npm-audit"] = NpmResult(doc)]
            /\ Finish("answered")
       \/ /\ printed' = [printed EXCEPT !["npm-audit"] = ErrorDocument]
          /\ answer' = [answer EXCEPT !["npm-audit"] = Fresh]
          /\ Finish("answered")
       \/ /\ answer' = [answer EXCEPT !["npm-audit"] = Failed]
          /\ Finish("answered") /\ UNCHANGED printed
       \/ Finish("raised") /\ UNCHANGED <<answer, printed>>
    /\ UNCHANGED <<asked, manifests>>

NoManifest ==
    /\ step = "neither"
    /\ answer' = [answer EXCEPT !["none"] = Failed]
    /\ Finish("answered")
    /\ UNCHANGED <<asked, manifests, printed>>

DepNext == Ask \/ Install \/ AuditPip \/ AuditNpm \/ NoManifest

DepSpec == DepInit /\ [][DepNext]_depVars

-----------------------------------------------------------------------------

Clean(r) == r.there /\ ~r.error /\ r.total = 0 /\ \A s \in Severity : r.count[s] = 0

\* No package of a list has an advisory, or is vulnerable through another.
CleanListing(t, doc) ==
    /\ doc.kind = "list"
    /\ IF t = "npm-audit" THEN DOMAIN doc.list = {}
       ELSE \A p \in DOMAIN doc.list : doc.list[p].fixable = 0 /\ doc.list[p].unfixable = 0

\* Whoever is told that there is nothing was told so by the tool: a result without
\* error, advisory or count stands for a document that the tool has printed and
\* that names no vulnerable package, whatever failed, was tried instead or was
\* asked of the other tool.  The exception is a document in which npm says that
\* it could not audit, which reads like a clean one.
CleanMeansAudited ==
    \A t \in Auditor : Clean(answer[t]) =>
        \/ CleanListing(t, printed[t])
        \/ t = "npm-audit" /\ printed[t] = ErrorDocument

=============================================================================
