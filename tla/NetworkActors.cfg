SPECIFICATION ActorsSpec
CONSTANTS
    ClientIds <- MCIds
    Own = 2
    Poses = {spawn, p}
    SpawnPose = spawn
    None = None
    Datagrams <- MCDatagrams
    MaxDatagrams = 2
INVARIANTS
    IndexTableExact
    PlayerSpeedFollowsPlayer
    DrawnLinesAreCurrent
PROPERTIES
    NetworkNeverMovesOwnActor
    ImplementsRoster
