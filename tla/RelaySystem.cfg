SPECIFICATION Spec
CONSTANTS
    alice = alice
    bob = bob
    carol = carol
    None = None
    SpawnPose = SpawnPose
    Endpoints <- MCThree
    Facing <- MCThreeFacing
    ClientIds <- MCIds
    Sequences <- MCSequences
    YawMax = 3
    Settings <- MCFailing
INVARIANT NoPeerMissing
PROPERTY FollowsHolder
CHECK_DEADLOCK FALSE
