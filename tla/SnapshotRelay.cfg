SPECIFICATION RelaySpec
CONSTANTS
    Endpoints = {e1, e2, e3}
    ClientIds <- MCIds
    Sequences <- MCSequences
    YawMax = 2
    None = None
INVARIANTS
    OwnershipAgrees
    CacheBelongsToSessions
    RelayedSnapshotIsCached
PROPERTIES
    SessionsEndByOwnerOrClaim
    ImplementsSessions
    NewcomerSeesWorld
