CONSTANTS
    Pushes = 2
    Others = 2
    PageSize = 2
    Threshold = 2
SPECIFICATION Spec
INVARIANTS SevereAreShown GateHolds OneComment PassedIsShown
CHECK_DEADLOCK FALSE
