CONSTANTS
    Hash <- MCHash
    Peer = {"alice", "bob"}
    Tag = {"tag"}
    Message <- MCMessage
    LinksEntry <- MCLinksEntry
    DNAHash = "dna"
    KeyMsg <- MCKeyMsg
    AgentMsg <- MCAgentMsg
    NoHash = "none"
    NilMsg = nil
    Author = "alice"
    Caller = {c1}
    EntryDef <- MCEntryDef
    Deletes <- MCDeletes
    Unwanted = {"note"}
    MaxRetries = 1
    MaxCommits = 3
    MaxFaults = 1
SPECIFICATION FairSpec
CHECK_DEADLOCK FALSE
INVARIANTS  NodesAgree 
PROPERTY CommittedIsHeld
