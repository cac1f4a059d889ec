\* FramesInFlight is kMaxFramesInFlight of the code.
SPECIFICATION FramesFairSpec
CONSTANTS
    NullHandle = NullHandle
    Images = {i1, i2, i3}
    FramesInFlight = 1
    Sizes <- MCSizes
    FailingCalls <- MCFailures
INVARIANTS
    FramesTypeOK
    WorkIsUndisturbed
    LifetimesNest
PROPERTIES
    FrameCompletes
    ResizeFollows
