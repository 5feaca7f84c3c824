CONSTANTS
    Rules <- MCRules
    Broken = {"("}
    Alike <- MCAlike
    NoCode = "blank"
    Code = {"a", "b", "c", "f", "all", "blank"}
    MaxReports = 10
    Source <- MCSource
    BanditReport <- MCBanditReport
    SemgrepReport <- MCSemgrepReport
    AuditReport <- MCAuditReport
    Function <- MCFunction
    ScanOption <- MCScanOption
    PipDocument <- MCPipDocument
    NpmDocument <- MCNpmDocument
    MaxLines = 2
    Pattern <- MCPattern
    Recognised = {"GITHUB_TOKEN"}
    Atom <- MCAtom
    Report <- MCReport
    Headings <- MCHeadings
    Attempts = 2
    MaxChars = 3
    Verdict <- MCVerdict
SPECIFICATION Spec
INVARIANTS FindingsSurvive Represented TopOfScope ScoreMatchesLevel CleanMeansAudited RoundTrip OptionsKeepTheirName EveryFindingReported
PROPERTY ImplementsPipeline
CHECK_DEADLOCK FALSE
