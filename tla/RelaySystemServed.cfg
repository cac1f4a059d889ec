SPECIFICATION FairSpec
CONSTANTS
    alice = alice
    bob = bob
    carol = carol
    None = None
    SpawnPose = SpawnPose
    Endpoints <- MCTwo
    Facing <- MCTwoFacing
    ClientIds <- MCIds
    Sequences <- MCSequences
    YawMax = 3
    Settings <- MCServed
INVARIANT SystemTypeOK
PROPERTIES
    ConnectsAreServed
    ClosedAreForgotten
    ViewersMeet
CHECK_DEADLOCK FALSE
