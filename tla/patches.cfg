CONSTANTS
    f1 = f1
    f2 = f2
    v1 = v1
    NoFix = NoFix
    NoName = NoName
    Fix = {f1, f2}
    Vuln = {v1}
    VulnOf <- MCVulnOf
    Attempts = 2
    MaxSecond = 1
SYMMETRY Symmetry
SPECIFICATION Spec
INVARIANTS PullCarriesItsFix ReplyMatchesGitHub OnePullPerFix
CHECK_DEADLOCK FALSE
