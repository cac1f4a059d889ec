SPECIFICATION ControlsFairSpec
CONSTANTS
    None = None
    Faint = Faint
    Keys <- MCKeys
    Polls <- MCPolls
    Contents <- MCContents
    Rays <- MCRays
    HalfExtent = 2
    TickLength = 2
    FrameTimes <- MCFrameTimes
    MaxCatchUp = 2
    MaxEdits = 2
INVARIANTS
    ProfileIsOfOneFile
    ActiveProfileIsCurrent
    SteeringForgetsTarget
    SquaresAreCurrent
PROPERTIES
    EditsTakeEffect
    WalksArrive
CHECK_DEADLOCK FALSE
