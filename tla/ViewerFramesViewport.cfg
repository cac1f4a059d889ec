\* FramesInFlight is kMaxFramesInFlight of the code.
SPECIFICATION FramesSpec
CONSTANTS
    NullHandle = NullHandle
    Images = {i1, i2}
    FramesInFlight = 1
    Sizes <- MCSizes
    FailingCalls <- MCNoFailures
INVARIANTS
    PickedWhereDrawn
