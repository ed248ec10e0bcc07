CONSTANTS
    Hash <- MCHash
    Peer <- MCPeer
    Tag <- MCTag
    Message <- MCMessage
    LinksEntry <- MCLinksEntry
    DNAHash = "dna"
    KeyMsg <- MCKeyMsg
    AgentMsg <- MCAgentMsg
    NoHash = NoHash
    NilMsg = NilMsg
    OwnEntry = {"agent", "h"}
    NetThread = {t1, t2}
    MaxRetries = 1
    RetryCap = 4
    MaxArrivals = 4
SPECIFICATION FairSpec
INVARIANT NodeSound
PROPERTIES ChangesAreLogged RetryQueueDrains ReceiveReturns
CHECK_DEADLOCK FALSE
