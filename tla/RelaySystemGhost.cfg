SPECIFICATION Spec
CONSTANTS
    alice = alice
    bob = bob
    carol = carol
    None = None
    SpawnPose = SpawnPose
    Endpoints <- MCTwo
    Facing <- MCTwoFacing
    ClientIds <- MCIds
    Sequences <- MCSequences
    YawMax = 3
    Settings <- MCUndisturbed
INVARIANT NoGhostActors
CHECK_DEADLOCK FALSE
