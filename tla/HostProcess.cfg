SPECIFICATION HostSpec
CONSTANTS
    None = None
    Dashed <- MCDashed
    Plain <- MCPlain
    Takes <- MCTakes
    LongestLine = 4
    ShortLine = 2
    MaxRuns = 3
INVARIANTS
    AcceptsExactly
    ExitMatchesResult
PROPERTY ResultsAreWholeAndFresh
CHECK_DEADLOCK FALSE
