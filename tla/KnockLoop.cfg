SPECIFICATION FairSpec
CONSTANTS
    Resources = {r1}
    Editors = {e1, e2}
    Callers = {c1}
    Bound = 2
CHECK_DEADLOCK FALSE
INVARIANTS TypeOK KnocksEndBeforeClose
PROPERTIES TargetsFollowed UnwantedIsExited StopReturns
