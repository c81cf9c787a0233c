SPECIFICATION Spec
CONSTANTS
    NULL = NULL
    Client = {a}
    Server = {x, y}
    THRESHOLD_MIN = 1
    THRESHOLD_MAX = 4
    MaxTime = 5
    AnyLines = 4
    ServerLines = 4
    Traces <- MCTraces
    MaxReal = 2
SYMMETRY Symmetry
INVARIANTS TypeOK SortedIsExact JitterTolerated SteadyServerIsBest RealCountsExact MatchesAreRight
CHECK_DEADLOCK FALSE
