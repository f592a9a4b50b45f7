SPECIFICATION FairSpec
CONSTANTS
    FrameUnits = 3
    MaxCommands = 3
    Capacity = 2
    SocketRoom = 2
INVARIANTS InStep SnapshotFirst
PROPERTIES ChannelSpec Answered FirstIsServed
