SPECIFICATION GossipSpec
CONSTANTS
    Node = {"a", "b"}
    Publisher = {"a"}
    Reached = {"a", "b"}
    Discovered <- AllPairs
    Ticking = {"a", "b"}
    MaxMessages = 2
    Blocks <- LastBlocksB
    GossipWithQueueSize = 1
    GossipPutQueueSize = 1
    MaxFaults = 1
INVARIANTS GossipSound LoggedAtMostTwice
