SPECIFICATION FairSpec
CONSTANTS
    p1 = p1
    p2 = p2
    Peers <- MCPeers
    Files = {"f"}
    Sizes <- MCSizes
    ChunkSizes <- MCChunkSizes
    Default = 2
    Word = 4
    Wanted = {0, 1}
    None = None
    MaxAsks = 3
INVARIANTS
    AnnouncedIsStored
    CompleteIsWhole
PROPERTIES
    StoredIsAnnounced
CHECK_DEADLOCK FALSE
