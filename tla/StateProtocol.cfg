SPECIFICATION ProtocolSpec
CONSTANTS
    None = None
    Pending = Pending
    Connects <- MCConnects
    Snapshots <- MCSnapshots
    Events <- MCEvents
    Parts = 4
    MaxHops = 2
INVARIANTS
    DatagramsMeanThePacket
    RelayedBitsAreKept
CHECK_DEADLOCK FALSE
