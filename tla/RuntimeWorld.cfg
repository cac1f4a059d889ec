SPECIFICATION WorldSpec
CONSTANTS
    None = None
    Faint = Faint
    HalfExtent = 3
    Spawns <- MCSpawns
    Tuning <- MCTuning
    Logs <- MCLogs
    TickLength = 60
    FrameTimes <- MCFrameTimes
    Rounding <- MCRounding
    Slack = 4
    MaxFrames = 4
INVARIANTS
    TicksMatchTime
    MovedIsSeen
PROPERTY ImplementsFixedTicks
CHECK_DEADLOCK FALSE
