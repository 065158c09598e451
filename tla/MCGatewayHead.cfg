SPECIFICATION FairSpec
CONSTANTS
    MaxTotal = 5
    ChunkSizes = {3}
    ChunkDepth = 1
    RxDepth = 1
    RadioDepth = 1
    Bodies = {"plain", "first"}
    Junk = {1}
    MaxFrames = 2
    MaxCuts = 1
    MaxPackets = 3
    MaxFaults = 2
ACTION_CONSTRAINT OneConcern
INVARIANTS TypeOK NoSplice InOrder LossIsNear
PROPERTY KeepsServing
