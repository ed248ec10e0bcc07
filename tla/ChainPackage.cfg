CONSTANTS
    Committer = {p1, p2}
    EntryType = {"dna", "agent", "profile"}
    DNAEntryType = "dna"
    EntryHash = {"e1", "e2"}
    Damage = {"cut", "torn"}
    MaxCommits = 3
    MaxFaults = 2
    MaxCount = 2
    Private = {"profile"}
    ByteValues = 4
    HashLen = 2
    TimeLen = 1
    MetaLen = 2
SPECIFICATION FairSpec
CHECK_DEADLOCK FALSE
INVARIANTS ChainLinked LookupsAgree FileMatchesChain PackageIsChain AlteredRefused HeadersReadBack
PROPERTIES ImplementsCommitLog CommitReturns FullPagesStay
