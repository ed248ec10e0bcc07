CONSTANTS
    Hash <- MCHash
    Peer <- MCPeer
    Tag <- MCTag
    Message <- MCMessage
    LinksEntry <- MCLinksEntry
    DNAHash = "dna"
    KeyMsg <- MCKeyMsg
    AgentMsg <- MCAgentMsg
    NoHash = NoHash
    NilMsg = NilMsg
    OwnEntry = {"agent", "h"}
    NetThread = {t1, t2}
    MaxRetries = 1
    RetryCap = 2
    MaxArrivals = 3
SPECIFICATION FairSpec
CHECK_DEADLOCK FALSE
PROPERTIES RetryQueueDrains
