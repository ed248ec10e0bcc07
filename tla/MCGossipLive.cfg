SPECIFICATION GossipFairSpec
CONSTANTS
    Node = {"a", "b"}
    Publisher = {"a", "b"}
    Reached = {}
    Discovered <- AFindsB
    Ticking = {"a"}
    MaxMessages = 1
    Blocks <- NoBlocks
    GossipWithQueueSize = 1
    GossipPutQueueSize = 1
    MaxFaults = 3
PROPERTIES  QuietsDown
