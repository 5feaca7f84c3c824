CONSTANTS
    Caller = {c1, c2, c3}
    MaxFlips = 2
SPECIFICATION Spec
INVARIANTS CelerySubmitsToTask AgreeWhileSteady
PROPERTY SettledForGood
